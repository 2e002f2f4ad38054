--------------------------- MODULE SessionRecords ---------------------------
(***************************************************************************)
(* What hangs off a session (sessions.service.ts 569-703, 784-795): its     *)
(* bookmarks, attendance, comments and caption lines carry its id in a      *)
(* plain column, and remove clears them table by table.                    *)
(* Each "Slip:" is a plausible wrong version of what follows it.           *)
(***************************************************************************)
EXTENDS Naturals, Sequences, Requests

CONSTANTS Talks, Fans, RecordCalls

(* In the order remove clears them.                                        *)
Tables == <<"bookmark", "attendance", "comment", "caption">>
Kinds == {"bookmark", "attendance", "comment", "caption"}
Records == Kinds \X Fans

VARIABLES
  talk,    \* sessions: None, or a status
  records, \* of each session, who has one of each kind
  visit    \* requests under way

recordsVars == <<talk, records, visit, regime>>

Progress == {"scheduled", "live", "completed"}

ASSUME NoneIsNoStatus == None \notin Progress

Visits == [pc : {"counting", "clearing", "saving", "adding"}, t : Talks, left : {SubSeq(Tables, i, 4) : i \in 1..5},
           force : BOOLEAN, status : Progress, record : Records \cup {None}]

SessionRecordsInit ==
  /\ talk = [t \in Talks |-> "scheduled"]
  /\ records = [t \in Talks |-> {}]
  /\ visit = [r \in RecordCalls |-> None]
  /\ regime \in Regimes

VisitTo(r, step) == visit' = [visit EXCEPT ![r] = step]
VisitAt(r, pc) == visit[r] # None /\ visit[r].pc = pc
Visit(pc, t) == [pc |-> pc, t |-> t, left |-> Tables, force |-> FALSE, status |-> "scheduled", record |-> None]

-----------------------------------------------------------------------------
(* bookmark, postComment and onTranscript look the session up first;        *)
(* recordAttendance asks that it is live; then the row, once per delegate.  *)
RecordReads(r, t, x) ==
  /\ MayStart(visit, r) /\ talk[t] # None
  /\ x[1] = "attendance" => talk[t] = "live"
  /\ VisitTo(r, [Visit("adding", t) EXCEPT !.record = x])
  /\ UNCHANGED <<talk, records, regime>>

RecordAdds(r) ==
  /\ VisitAt(r, "adding")
  /\ records' = [records EXCEPT ![visit[r].t] = @ \cup {visit[r].record}]
  /\ VisitTo(r, None)
  /\ UNCHANGED <<talk, regime>>

UnbookmarkTalk(t, fan) ==
  /\ InTurn => Idle(visit)
  /\ <<"bookmark", fan>> \in records[t]
  /\ records' = [records EXCEPT ![t] = @ \ {<<"bookmark", fan>>}]
  /\ UNCHANGED <<talk, visit, regime>>

StatusReads(r, t, status) ==
  /\ MayStart(visit, r) /\ talk[t] \notin {None, status}
  /\ VisitTo(r, [Visit("saving", t) EXCEPT !.status = status])
  /\ UNCHANGED <<talk, records, regime>>

(* Repository.save inserts the session where it is gone.                    *)
StatusSaves(r) ==
  /\ VisitAt(r, "saving")
  /\ talk' = [talk EXCEPT ![visit[r].t] = visit[r].status]
  /\ VisitTo(r, None)
  /\ UNCHANGED <<records, regime>>

RemoveAsks(r, t, force) ==
  /\ MayStart(visit, r) /\ talk[t] # None
  /\ VisitTo(r, [Visit("counting", t) EXCEPT !.force = force])
  /\ UNCHANGED <<talk, records, regime>>

(* What a delegate did, and the transcript, go only by force.               *)
RemoveCounts(r) ==
  LET v == visit[r] IN
  /\ VisitAt(r, "counting")
  /\ VisitTo(r, IF v.force \/ \A x \in records[v.t] : x[1] = "bookmark"
                THEN [v EXCEPT !.pc = "clearing"] ELSE None)
  /\ UNCHANGED <<talk, records, regime>>

(* Slip: the session goes first.                                           *)
RemoveClearsLater(r) ==
  LET v == visit[r] IN
  /\ VisitAt(r, "clearing")
  /\ talk' = [talk EXCEPT ![v.t] = None]
  /\ IF v.left = <<>>
     THEN VisitTo(r, None) /\ UNCHANGED records
     ELSE /\ records' = [records EXCEPT ![v.t] = {x \in @ : x[1] # Head(v.left)}]
          /\ VisitTo(r, [v EXCEPT !.left = Tail(@)])
  /\ UNCHANGED regime

RemoveClears(r) ==
  LET v == visit[r] IN
  /\ VisitAt(r, "clearing") /\ v.left # <<>>
  /\ records' = [records EXCEPT ![v.t] = {x \in @ : x[1] # Head(v.left)}]
  /\ VisitTo(r, [v EXCEPT !.left = Tail(@)])
  /\ UNCHANGED <<talk, regime>>

RemoveSession(r) ==
  /\ VisitAt(r, "clearing") /\ visit[r].left = <<>>
  /\ talk' = [talk EXCEPT ![visit[r].t] = None]
  /\ VisitTo(r, None)
  /\ UNCHANGED <<records, regime>>

VisitDies(r) ==
  /\ MayDie /\ visit[r] # None
  /\ VisitTo(r, None)
  /\ UNCHANGED <<talk, records, regime>>

SessionRecordsNext ==
  \/ \E r \in RecordCalls :
       \/ RecordAdds(r) \/ StatusSaves(r) \/ RemoveCounts(r) \/ RemoveClears(r)
       \/ RemoveSession(r) \/ VisitDies(r)
       \/ \E t \in Talks :
            \/ \E x \in Records : RecordReads(r, t, x)
            \/ \E status \in Progress : StatusReads(r, t, status)
            \/ \E force \in BOOLEAN : RemoveAsks(r, t, force)
  \/ \E t \in Talks, fan \in Fans : UnbookmarkTalk(t, fan)

SessionRecordsSpec == SessionRecordsInit /\ [][SessionRecordsNext]_recordsVars

-----------------------------------------------------------------------------
SessionRecordsTypeOK ==
  /\ talk \in [Talks -> Progress \cup {None}] /\ records \in [Talks -> SUBSET Records]
  /\ visit \in [RecordCalls -> Visits \cup {None}] /\ regime \in Regimes

(* "they become orphans that still count towards certificates and still     *)
(* surface in delegates' saved lists" (lines 611-615): one request at a     *)
(* time, wherever a removal is lost, nothing is left of a session that is   *)
(* gone.                                                                   *)
RecordsGoWithTheirSession ==
  InTurn => \A t \in Talks : talk[t] = None => records[t] = {}
=============================================================================
