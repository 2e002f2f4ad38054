--------------------------- MODULE Announcements ---------------------------
(***************************************************************************)
(* Announcements and direct notices on their way to phones and inboxes     *)
(* (notifications.service.ts, notifications.processor.ts).  BullMQ is       *)
(* external: a job whose worker is lost is taken again, one that fails is   *)
(* not tried again.                                                        *)
(*                                                                         *)
(* A delegate has one phone, which Apple or Firebase carries; the segment  *)
(* of every announcement is everyone; what open inboxes are told is left   *)
(* out.  An app that is deleted leaves its token behind, and the row of    *)
(* that token goes only when a carrier reports it.                         *)
(* Each "Slip:" is a plausible wrong version of what follows it.           *)
(***************************************************************************)
EXTENDS Naturals, Requests

CONSTANTS Broadcasts, Directs, \* announcements; notices for one delegate
          Phones, Desk, Couriers, \* Desk: slots of announce and remove; workers
          MaxLost \* a bound

Notices == Broadcasts \cup Directs

ASSUME NoticeKinds == Broadcasts \cap Directs = {} /\ MaxLost \in Nat

VARIABLES
  notice, \* of an announcement its row: "none", "saved", "sent", "retracted"
  copies, \* of a direct notice its rows: all of them sent
  parcel, \* its job: "none", "waiting", "active", "done"
  rings,  \* how often each phone rang for it: history
  lost,   \* workers lost between its work and the mark of it: history
  phone,  \* the phones with a registered token
  apple,  \* those of platform ios, picked once
  dead,   \* those whose app was deleted
  desk, courier

rows == <<notice, copies>>
announcementsVars == <<rows, parcel, rings, lost, phone, dead, desk, courier, apple, regime>>

DeskRecords == [pc : {"queueing", "retracting"}, n : Broadcasts]
CourierRecords == [pc : {"reading", "asking", "pushing", "clearing", "stamping", "telling"}, n : Notices, targets : SUBSET Phones]

AnnouncementsInit ==
  /\ notice = [n \in Broadcasts |-> "none"] /\ copies = [n \in Directs |-> 0]
  /\ parcel = [n \in Notices |-> "none"]
  /\ rings = [n \in Notices |-> [p \in Phones |-> 0]] /\ lost = [n \in Notices |-> 0]
  /\ phone = {} /\ apple \in SUBSET Phones /\ dead = {}
  /\ desk = [r \in Desk |-> None] /\ courier = [w \in Couriers |-> None]
  /\ regime \in Regimes

DeskMayStart(r) == MayStart(desk, r) /\ (InTurn => Idle(courier))
CourierAt(w, pc) == courier[w] # None /\ courier[w].pc = pc
CourierTo(w, step) == courier' = [courier EXCEPT ![w] = step]

-----------------------------------------------------------------------------
AnnounceSaves(r, n) ==
  /\ DeskMayStart(r) /\ notice[n] = "none"
  /\ notice' = [notice EXCEPT ![n] = "saved"]
  /\ desk' = [desk EXCEPT ![r] = [pc |-> "queueing", n |-> n]]
  /\ UNCHANGED <<copies, parcel, rings, lost, phone, dead, courier, apple, regime>>

AnnounceQueues(r) ==
  /\ desk[r] # None /\ desk[r].pc = "queueing"
  /\ parcel' = [parcel EXCEPT ![desk[r].n] = "waiting"]
  /\ desk' = [desk EXCEPT ![r] = None]
  /\ UNCHANGED <<rows, rings, lost, phone, dead, courier, apple, regime>>

(* notifyConnection and its like queue the notice itself.                   *)
DirectQueues(n) ==
  /\ n \in Directs /\ parcel[n] = "none"
  /\ parcel' = [parcel EXCEPT ![n] = "waiting"]
  /\ UNCHANGED <<rows, rings, lost, phone, dead, desk, courier, apple, regime>>

RetractReads(r, n) ==
  /\ DeskMayStart(r) /\ notice[n] \in {"saved", "sent"}
  /\ desk' = [desk EXCEPT ![r] = [pc |-> "retracting", n |-> n]]
  /\ UNCHANGED <<rows, parcel, rings, lost, phone, dead, courier, apple, regime>>

RetractDeletes(r) ==
  LET n == desk[r].n IN
  /\ desk[r] # None /\ desk[r].pc = "retracting"
  /\ notice' = [notice EXCEPT ![n] = "retracted"]
  /\ desk' = [desk EXCEPT ![r] = None]
  /\ UNCHANGED <<copies, parcel, rings, lost, phone, dead, courier, apple, regime>>

DeskDies(r) ==
  /\ MayDie /\ desk[r] # None
  /\ desk' = [desk EXCEPT ![r] = None]
  /\ UNCHANGED <<rows, parcel, rings, lost, phone, dead, courier, apple, regime>>

(* An app that is installed again registers another token.                 *)
RegisterDevice(p) ==
  /\ p \notin dead
  /\ phone' = phone \cup {p}
  /\ UNCHANGED <<rows, parcel, rings, lost, dead, desk, courier, apple, regime>>

UnregisterDevice(p) ==
  /\ p \notin dead
  /\ phone' = phone \ {p}
  /\ UNCHANGED <<rows, parcel, rings, lost, dead, desk, courier, apple, regime>>

AppIsDeleted(p) ==
  /\ p \in phone \ dead
  /\ dead' = dead \cup {p}
  /\ UNCHANGED <<rows, parcel, rings, lost, phone, desk, courier, apple, regime>>

-----------------------------------------------------------------------------
CourierTakes(w, n) ==
  /\ courier[w] = None /\ (InTurn => Idle(desk) /\ Idle(courier))
  /\ parcel[n] = "waiting"
  /\ parcel' = [parcel EXCEPT ![n] = "active"]
  /\ CourierTo(w, [pc |-> "reading", n |-> n, targets |-> {}])
  /\ UNCHANGED <<rows, rings, lost, phone, dead, desk, apple, regime>>

JobEnds(w) ==
  /\ parcel' = [parcel EXCEPT ![courier[w].n] = "done"]
  /\ CourierTo(w, None)

(* Slip: whether it was sent already is not asked.                         *)
CourierReadsRow(w) ==
  LET n == courier[w].n IN
  /\ CourierAt(w, "reading") /\ n \in Broadcasts
  /\ IF notice[n] \in {"saved", "sent"}
     THEN CourierTo(w, [courier[w] EXCEPT !.pc = "asking"]) /\ UNCHANGED parcel
     ELSE JobEnds(w)
  /\ UNCHANGED <<rows, rings, lost, phone, dead, desk, apple, regime>>

(* process: an announcement that was retracted, or sent, is left alone.     *)
CourierReads(w) ==
  LET n == courier[w].n IN
  /\ CourierAt(w, "reading") /\ n \in Broadcasts
  /\ IF notice[n] = "saved"
     THEN CourierTo(w, [courier[w] EXCEPT !.pc = "asking"]) /\ UNCHANGED parcel
     ELSE JobEnds(w)
  /\ UNCHANGED <<rows, rings, lost, phone, dead, desk, apple, regime>>

(* sendDirect: a row each time.                                            *)
CourierSaves(w) ==
  LET n == courier[w].n IN
  /\ CourierAt(w, "reading") /\ n \in Directs
  /\ copies' = [copies EXCEPT ![n] = @ + 1]
  /\ CourierTo(w, [courier[w] EXCEPT !.pc = "asking"])
  /\ UNCHANGED <<notice, parcel, rings, lost, phone, dead, desk, apple, regime>>

CourierAsks(w) ==
  /\ CourierAt(w, "asking")
  /\ CourierTo(w, [courier[w] EXCEPT !.pc = "pushing", !.targets = phone])
  /\ UNCHANGED <<rows, parcel, rings, lost, phone, dead, desk, apple, regime>>

(* Apple refuses the token of a deleted app for good; any other refusal may *)
(* pass, and the token is kept.                                            *)
ApnsReports(tokens) == tokens \cap dead

(* The code compared with (line 52) is none of those Firebase answers.      *)
FcmReports(tokens) == {}

(* RoutingPushSender: each token to its carrier, both at once.              *)
InvalidTokens(tokens) == ApnsReports(tokens \cap apple) \cup FcmReports(tokens \ apple)

Rung(n, reached) ==
  [rings EXCEPT ![n] = [p \in Phones |-> @[p] + IF p \in reached THEN 1 ELSE 0]]

AfterPush(n) == IF n \in Broadcasts THEN "stamping" ELSE "telling"

(* A live token may be refused for the moment: its phone does not ring.     *)
CourierPushes(w) ==
  LET c == courier[w]
      invalid == InvalidTokens(c.targets) IN
  /\ CourierAt(w, "pushing")
  /\ \E reached \in SUBSET (c.targets \ dead) : rings' = Rung(c.n, reached)
  /\ CourierTo(w, [c EXCEPT !.pc = IF invalid = {} THEN AfterPush(c.n) ELSE "clearing", !.targets = invalid])
  /\ UNCHANGED <<rows, parcel, lost, phone, dead, desk, apple, regime>>

CourierClears(w) ==
  LET c == courier[w] IN
  /\ CourierAt(w, "clearing")
  /\ phone' = phone \ c.targets
  /\ CourierTo(w, [c EXCEPT !.pc = AfterPush(c.n), !.targets = {}])
  /\ UNCHANGED <<rows, parcel, rings, lost, dead, desk, apple, regime>>

(* Where a carrier's call fails the job has failed, though the other has    *)
(* been asked too, and so were the earlier batches of 500.                  *)
CourierFails(w) ==
  LET c == courier[w] IN
  /\ MayDie /\ CourierAt(w, "pushing") /\ c.targets # {}
  /\ \E reached \in SUBSET (c.targets \ dead) : rings' = Rung(c.n, reached)
  /\ JobEnds(w)
  /\ UNCHANGED <<rows, lost, phone, dead, desk, apple, regime>>

CourierStamps(w) ==
  LET n == courier[w].n IN
  /\ CourierAt(w, "stamping")
  /\ notice' = IF notice[n] = "saved" THEN [notice EXCEPT ![n] = "sent"] ELSE notice
  /\ CourierTo(w, [courier[w] EXCEPT !.pc = "telling"])
  /\ UNCHANGED <<copies, parcel, rings, lost, phone, dead, desk, apple, regime>>

CourierTells(w) ==
  /\ CourierAt(w, "telling")
  /\ JobEnds(w)
  /\ UNCHANGED <<rows, rings, lost, phone, dead, desk, apple, regime>>

(* A row that is not stamped is sent again; a direct notice has no mark.    *)
Unmarked(w) == CourierAt(w, "clearing") \/ CourierAt(w, "stamping") \/ (courier[w].n \in Directs /\ courier[w].pc # "reading")

CourierDies(w) ==
  LET n == courier[w].n IN
  /\ MayDie /\ courier[w] # None
  /\ Unmarked(w) => lost[n] < MaxLost
  /\ lost' = IF Unmarked(w) THEN [lost EXCEPT ![n] = @ + 1] ELSE lost
  /\ parcel' = [parcel EXCEPT ![n] = "waiting"]
  /\ CourierTo(w, None)
  /\ UNCHANGED <<rows, rings, phone, dead, desk, apple, regime>>

AnnouncementsNext ==
  \/ \E r \in Desk : \/ AnnounceQueues(r) \/ RetractDeletes(r) \/ DeskDies(r)
                    \/ \E n \in Broadcasts : AnnounceSaves(r, n) \/ RetractReads(r, n)
  \/ \E n \in Directs : DirectQueues(n)
  \/ \E p \in Phones : RegisterDevice(p) \/ UnregisterDevice(p) \/ AppIsDeleted(p)
  \/ \E w \in Couriers :
       \/ \E n \in Notices : CourierTakes(w, n)
       \/ CourierReads(w) \/ CourierSaves(w) \/ CourierAsks(w) \/ CourierPushes(w) \/ CourierClears(w)
       \/ CourierFails(w) \/ CourierStamps(w) \/ CourierTells(w) \/ CourierDies(w)

AnnouncementsSpec == AnnouncementsInit /\ [][AnnouncementsNext]_announcementsVars

-----------------------------------------------------------------------------
AnnouncementsTypeOK ==
  /\ notice \in [Broadcasts -> {"none", "saved", "sent", "retracted"}] /\ copies \in [Directs -> Nat]
  /\ parcel \in [Notices -> {"none", "waiting", "active", "done"}]
  /\ rings \in [Notices -> [Phones -> Nat]] /\ lost \in [Notices -> Nat]
  /\ phone \subseteq Phones /\ apple \subseteq Phones /\ dead \subseteq Phones
  /\ desk \in [Desk -> DeskRecords \cup {None}]
  /\ courier \in [Couriers -> CourierRecords \cup {None}] /\ regime \in Regimes

(* However announcements, retractions, workers and losses overlap, a phone  *)
(* rings once for a notice, and a direct one is stored once, and once more  *)
(* for each worker that was lost before the mark of it: an announcement     *)
(* whose worker was lost after the stamp is left alone (lines 59-62).       *)
RingsMatchLosses ==
  /\ \A n \in Notices, p \in Phones : rings[n][p] <= 1 + lost[n]
  /\ \A n \in Directs : copies[n] <= 1 + lost[n]
=============================================================================
