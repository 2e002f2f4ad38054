---------------------------- MODULE RoomSchedule ----------------------------
(***************************************************************************)
(* The timelines of the rooms: create, update with clearRoom, setStatus    *)
(* and remove of src/sessions/sessions.service.ts over the sessions table. *)
(*                                                                         *)
(* A session is when and where it sits and its status; titles, speakers    *)
(* and links are left out.  A room here is a room on a day: clearRoom      *)
(* compares both, the room without case and outer spaces.  Requests are    *)
(* slots that move from await to await.  Repository.save is one step: it   *)
(* leaves the row as the entity has it, and inserts a row that is gone.    *)
(* Each "Slip:" is a plausible wrong version of the definition after it,   *)
(* and no part of Next.                                                    *)
(***************************************************************************)
EXTENDS Integers, SequencesExt

CONSTANTS Sessions, Rooms, Admins,
          Times,     \* the instants an operator types
          Statuses,  \* of {"scheduled", "live", "completed"}
          Latest,    \* no edit pushes a session to end beyond it: a bound
          Regimes,   \* of {"single", "shared"}: whether requests overlap
          None

ASSUME SessionsAreFew == IsFiniteSet(Sessions)
ASSUME TimesAreInstants == Times \subseteq 0..Latest /\ Latest \in Nat
ASSUME StatusesOfSessions == Statuses \subseteq {"scheduled", "live", "completed"}
ASSUME NoSession == \A S \in {Sessions, Rooms, Statuses, 0..Latest} : None \notin S
ASSUME ScheduleSwitches == Regimes \subseteq {"single", "shared"}

VARIABLES
  programme, \* the sessions table: a row, or None where there is none
  used,      \* ids handed out so far
  req,       \* the requests in flight
  regime

vars == <<programme, used, req, regime>>

Rows == [room : Rooms, start : 0..Latest, end : 0..Latest, status : Statuses]
ASSUME NoneIsNoPlace == None \notin Rows
NoPlan == [s \in {} |-> None]
(* Nothing in the code keeps an end from lying before its start; what the    *)
(* rooms promise then is nothing, so no operator here types it.              *)
Sane(row) == row.start <= row.end

Idle == [pc |-> "idle", session |-> None, row |-> None, placed |-> FALSE, push |-> FALSE,
         plan |-> NoPlan, status |-> None]

Init ==
  /\ programme = [s \in Sessions |-> None]
  /\ used = {}
  /\ req = [a \in Admins |-> Idle]
  /\ regime \in Regimes

ReqTo(a, slot) == req' = [req EXCEPT ![a] = slot] /\ UNCHANGED <<used, regime>>
MayBegin == regime = "single" => \A a \in Admins : req[a].pc = "idle"
Begin(a, slot) ==
  /\ req[a].pc = "idle"
  /\ MayBegin
  /\ ReqTo(a, slot)
  /\ UNCHANGED programme

-----------------------------------------------------------------------------
(* clearRoom.  The other sessions of the room that are not over, by start;   *)
(* the database breaks ties as it likes.                                     *)
Others(row, s) ==
  {t \in Sessions \ {s} : /\ programme[t] # None /\ programme[t].room = row.room
                          /\ programme[t].status # "completed"}

ByStart(S) ==
  {q \in SetToSeqs(S) : \A i, j \in DOMAIN q :
                          i < j => programme[q[i]].start <= programme[q[j]].start}

EarlierInTheWay(row, s) ==
  \E t \in Others(row, s) : programme[t].start < row.start /\ programme[t].end > row.start

(* The walk through what starts at the edited session's start or later.     *)
(* late[t] is by how much t is pushed; a session keeps its length, so it     *)
(* ends that much later too.                                                 *)

(* Slip: the walk compares with the edited session only.                     *)
PrevEndEdited(row, q, late, i) == row.end
(* prevEnd, where the walk comes to the i-th session of q.                    *)
PrevEnd(row, q, late, i) == IF i = 1 THEN row.end ELSE programme[q[i - 1]].end + late[q[i - 1]]

(* Slip: it moves past the end, never up to it.                              *)
DeltaPast(t, prevEnd) ==
  IF programme[t].start < prevEnd THEN prevEnd + 1 - programme[t].start ELSE 0
(* Just far enough to start when the one before it ends.                     *)
Delta(t, prevEnd) ==
  IF programme[t].start < prevEnd THEN prevEnd - programme[t].start ELSE 0

Walks(row, q) ==
  {late \in [Range(q) -> 0..Latest] :
     \A i \in DOMAIN q : late[q[i]] = Delta(q[i], PrevEnd(row, q, late, i))}

(* What moved, with its new times.                                           *)
Pushed(late) ==
  [t \in {u \in DOMAIN late : late[u] > 0} |->
     [programme[t] EXCEPT !.start = @ + late[t], !.end = @ + late[t]]]

(* The sessions to move with their new rows, for each order of the ties.     *)
Following(row, s) == {t \in Others(row, s) : programme[t].start >= row.start}
Plans(row, s) == {Pushed(late) : late \in UNION {Walks(row, q) : q \in ByStart(Following(row, s))}}

-----------------------------------------------------------------------------
(* create places a session without looking at its room.                      *)
Create(s, row) ==
  /\ MayBegin
  /\ s \notin used
  /\ Sane(row)
  /\ used' = used \cup {s}
  /\ programme' = [programme EXCEPT ![s] = row]
  /\ UNCHANGED <<req, regime>>

(* update reads the session, a 404 if it is gone, and applies what was sent: *)
(* None where it was not.  Only an edit of time or place clears the room.    *)
(* shiftFollowing and status are picked where the code first looks at them.  *)
Sent(value, old) == IF value = None THEN old ELSE value

Edited(row, room, start, end) ==
  [row EXCEPT !.room = Sent(room, @), !.start = Sent(start, @), !.end = Sent(end, @)]

UpdateRead(a, s, room, start, end) ==
  LET placed == <<room, start, end>> # <<None, None, None>> IN
  /\ programme[s] # None
  /\ Sane(Edited(programme[s], room, start, end))
  /\ Begin(a, [Idle EXCEPT !.pc = IF placed THEN "clearing" ELSE "saving",
                 !.session = s, !.placed = placed,
                 !.row = Edited(programme[s], room, start, end)])

(* A session before it in the way refuses the edit; so does one after it,    *)
(* where the operator asked not to push.                                     *)
UpdateClear(a, push) ==
  LET s == req[a].session
      row == req[a].row
  IN
  /\ req[a].pc = "clearing"
  /\ IF EarlierInTheWay(row, s)
     THEN ReqTo(a, Idle)
     ELSE \E plan \in Plans(row, s) :
            /\ \A t \in DOMAIN plan : plan[t].end \in 0..Latest /\ plan[t].start <= Latest
            /\ IF plan # NoPlan /\ ~push
               THEN ReqTo(a, Idle)
               ELSE ReqTo(a, [req[a] EXCEPT !.pc = "saving", !.push = push, !.plan = plan])
  /\ UNCHANGED programme

UpdateSave(a) ==
  /\ req[a].pc = "saving"
  /\ programme' = [programme EXCEPT ![req[a].session] = req[a].row]
  /\ ReqTo(a, [req[a] EXCEPT !.pc = IF req[a].plan = NoPlan THEN "announcing" ELSE "pushing"])

UpdatePush(a) ==
  /\ req[a].pc = "pushing"
  /\ programme' = [t \in Sessions |-> IF t \in DOMAIN req[a].plan THEN req[a].plan[t] ELSE programme[t]]
  /\ ReqTo(a, [req[a] EXCEPT !.pc = "announcing"])

(* Screens, reminders and pushes; then a status that differs from the one    *)
(* read goes the way of setStatus.                                           *)
UpdateAnnounce(a, status) ==
  /\ req[a].pc = "announcing"
  /\ ReqTo(a, IF status \in {None, req[a].row.status} THEN Idle
              ELSE [Idle EXCEPT !.pc = "status", !.session = req[a].session, !.status = status])
  /\ UNCHANGED programme

(* setStatus, on its own or from update: any status may follow any other.    *)
SetStatus(a, s, status) ==
  Begin(a, [Idle EXCEPT !.pc = "status", !.session = s, !.status = status])

SetStatusRead(a) ==
  LET row == programme[req[a].session] IN
  /\ req[a].pc = "status"
  /\ ReqTo(a, IF row = None THEN Idle
              ELSE [req[a] EXCEPT !.pc = "saveStatus", !.row = [row EXCEPT !.status = req[a].status]])
  /\ UNCHANGED programme

SetStatusSave(a) ==
  /\ req[a].pc = "saveStatus"
  /\ programme' = [programme EXCEPT ![req[a].session] = req[a].row]
  /\ ReqTo(a, Idle)

(* remove, of a session nobody attended or with force; what hangs off it is    *)
(* not modelled here.                                                        *)
RemoveRead(a, s) ==
  programme[s] # None /\ Begin(a, [Idle EXCEPT !.pc = "removing", !.session = s])

RemoveRow(a) ==
  /\ req[a].pc = "removing"
  /\ programme' = [programme EXCEPT ![req[a].session] = None]
  /\ ReqTo(a, Idle)

Next ==
  \/ \E s \in Sessions, row \in [room : Rooms, start : Times, end : Times, status : Statuses] :
       Create(s, row)
  \/ \E a \in Admins :
       \/ \E s \in Sessions, room \in Rooms \cup {None}, start, end \in Times \cup {None} :
            UpdateRead(a, s, room, start, end)
       \/ \E push \in BOOLEAN : UpdateClear(a, push)
       \/ UpdateSave(a) \/ UpdatePush(a)
       \/ \E status \in Statuses \cup {None} : UpdateAnnounce(a, status)
       \/ \E s \in Sessions, status \in Statuses : SetStatus(a, s, status)
       \/ SetStatusRead(a) \/ SetStatusSave(a)
       \/ \E s \in Sessions : RemoveRead(a, s)
       \/ RemoveRow(a)

Spec == Init /\ [][Next]_vars

-----------------------------------------------------------------------------
(* The type invariant: a request that writes has read a row, and a plan     *)
(* moves sessions by their whole rows.                                      *)
Requests ==
  [pc : {"idle", "clearing", "saving", "pushing", "announcing", "status", "saveStatus", "removing"},
   session : Sessions \cup {None}, row : Rows \cup {None}, placed : BOOLEAN, push : BOOLEAN,
   plan : UNION {[S -> Rows] : S \in SUBSET Sessions}, status : Statuses \cup {None}]

TypeOK ==
  /\ programme \in [Sessions -> Rows \cup {None}]
  /\ used \subseteq Sessions
  /\ req \in [Admins -> Requests]
  /\ regime \in Regimes
  /\ \A a \in Admins :
       /\ req[a].pc # "idle" => req[a].session # None
       /\ req[a].pc \in {"clearing", "saving", "pushing", "announcing", "saveStatus"} => req[a].row # None
       /\ req[a].pc = "status" => req[a].status # None

(* The promises below are for one operator at a time.                       *)
OneDesk == regime = "single"

Overlap(s, t) == /\ programme[s].start < programme[t].end
                 /\ programme[t].start < programme[s].end

(* When an edit of time or place is in, its session shares the room with no  *)
(* other that is still to come, and from its start on no two of them overlap, *)
(* however far the pushes cascade and whatever was created on top of what.   *)
RoomIsCleared ==
  \A a \in Admins : OneDesk /\ req[a].pc = "announcing" /\ req[a].placed =>
    LET s == req[a].session
        room == Others(req[a].row, s)
        later == {t \in room : programme[t].start >= programme[s].start}
    IN  /\ \A t \in room : ~Overlap(s, t)
        /\ \A t, u \in later : t # u => ~Overlap(t, u)

(* Saving the pushed sessions.                                               *)
Pushing(a) == req[a].pc = "pushing" /\ req'[a].pc = "announcing"
Moved(t) == programme'[t] # programme[t]

(* A push only ever delays: a session it moves keeps its length, its room    *)
(* and its status, what is over is left alone, and an operator who asked not *)
(* to push moves nobody else.  And it goes no further than it must: what it  *)
(* moves starts at the very instant another session of its room ends, and no *)
(* two swap their order (clearRoom, lines 493-567).                          *)
PushIsLeast ==
  [][\A a \in Admins : OneDesk /\ Pushing(a) =>
       LET room == Others(req[a].row, None) \cup {req[a].session} IN
       \A t \in Sessions : Moved(t) =>
         /\ req[a].push /\ programme[t] # None /\ programme[t].status # "completed"
         /\ \E d \in 1..Latest : programme'[t] = [programme[t] EXCEPT !.start = @ + d, !.end = @ + d]
         /\ \E u \in room \ {t} : programme'[u].end = programme'[t].start
         /\ \A u \in room : programme[u].start > programme[t].start =>
              programme'[u].start >= programme'[t].start
    ]_vars
=============================================================================
