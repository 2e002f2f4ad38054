--------------------------- MODULE VotingProperties ---------------------------
(***************************************************************************)
(* What the ballot of Voting.tla must and must not do.  Which of these     *)
(* hold depends on what may overlap: the README tells which run, and which *)
(* theorem, assumes what.                                                  *)
(***************************************************************************)
EXTENDS Voting

Tallies == [Entries -> Nat]
CastPc == {"idle", "checked", "writing", "wrote", "counted", "emitting"}
SavePc == {"saving", "saveTopic", "insertTopic"}
ClosePc == {"closing", "closeSaved"}
MovePc == {"moving", "moveChecked"}
EditPc == {"editing", "saveEntry", "insertEntry"}
RemoveEntryPc == {"rmEntry", "rmEntryVotes", "rmEntryGone"}
TopicPc == SavePc \cup ClosePc \cup {"rmTopic", "rmTopicVotes"}
EntryPc == MovePc \cup EditPc \cup RemoveEntryPc

CastType ==
  [pc : CastPc, delegate : Delegates \cup {None}, entry : Entries \cup {None},
   topic : Topics \cup {None}, prev : Entries \cup {None}, tally : Tallies]
CastSlot == {s \in CastType : s.pc # "idle" => None \notin {s.delegate, s.entry, s.topic}}

AdminType ==
  [pc : {"idle"} \cup TopicPc \cup EntryPc,
   topic : Topics \cup {None}, entry : Entries \cup {None},
   voting : TopicVoting \cup {None}, result : Tallies \cup {None},
   dirty : SUBSET {"voting", "result", "topicId"}]
AdminSlot ==
  {s \in AdminType : /\ s.pc # "idle" => s.topic # None
                     /\ s.pc \in EntryPc => s.entry # None
                     /\ s.pc \in SavePc => s.voting # None
                     /\ s.pc = "closeSaved" => s.result # None}

(* The type invariant: the rows, the payloads sent to the voting room, and *)
(* what each request in flight remembers of them.                          *)
TypeOK ==
  /\ voting \in [Topics -> TopicVoting \cup {None}]
  /\ result \in [Topics -> Tallies \cup {None}]
  /\ entries \in [Entries -> Topics \cup {None}]
  /\ vote \in [Delegates -> [Topics -> Entries \cup {None}]]
  /\ events \subseteq Delegates \X Topics \X Entries
  /\ heard \in [Topics -> Tallies]
  /\ announced \in [Topics -> Tallies \cup {None}]
  /\ used \subseteq Topics \cup Entries
  /\ cast \in [Casts -> CastSlot]
  /\ adm \in [Admins -> AdminSlot]

-----------------------------------------------------------------------------
(* What holds whatever overlaps.                                           *)

(* closeVoting re-checks the row under its FOR UPDATE lock: from the lock  *)
(* to the commit the topic exists and is not closed, and only one request  *)
(* is closing it, so a close never replaces a result (lines 117-123).      *)
CloseHoldsAnOpenRow ==
  \A a \in Admins : adm[a].pc \in ClosePc =>
    /\ voting[adm[a].topic] \in {"pending", "open"}
    /\ \A b \in Admins : adm[b].pc \in ClosePc /\ adm[b].topic = adm[a].topic => a = b

(* No pitch outlives its topic: the foreign key and its cascade hold across *)
(* moves, stale edits and inserts that race a removal (lines 140-145, 227). *)
PitchHasTopic == \A e \in Entries : entries[e] # None => voting[entries[e]] # None

(* Every ballot in the tally is in the audit trail: the upsert and its     *)
(* event are one transaction (lines 282-306).                              *)
BallotsAreAudited ==
  \A d \in Delegates, t \in Topics : vote[d][t] # None => <<d, t, vote[d][t]>> \in events

(* Two transactions of one delegate in one topic never write at once: the  *)
(* unique row serialises them (lines 290-296).                             *)
OneWriterPerBallot ==
  \A b, c \in Casts :
    Wrote(b) /\ HoldsVote(c, cast[b].delegate, cast[b].topic) => b = c

-----------------------------------------------------------------------------
(* What holds while no two admin requests overlap, whatever the voters do.  *)
OneDesk == regime # "shared"

(* The result is "null until then; never recomputed" (pitch-topic.entity): *)
(* a topic has a result exactly when it is closed.                         *)
ResultIffClosed ==
  OneDesk => \A t \in Topics : voting[t] = "closed" <=> result[t] # None

(* A closed topic stays closed, with the result it has, until it is removed. *)
KeepsResults ==
  \A t \in Topics : voting[t] = "closed" =>
    \/ voting'[t] = "closed" /\ result'[t] = result[t]
    \/ voting'[t] = None
ResultFrozen == [][OneDesk => KeepsResults]_vars

(* A removed topic or pitch is not brought back by a save of an entity read *)
(* before the removal (lines 80-84, 219-227).                               *)
RemovedForGood ==
  [][OneDesk =>
       /\ \A t \in Topics : t \in used /\ voting[t] = None => voting'[t] = None
       /\ \A e \in Entries : e \in used /\ entries[e] = None => entries'[e] = None]_vars

(* "What was announced stays retrievable" (lines 113-115): once no close is *)
(* under way, the voting:closed payload of a topic is its stored result, as *)
(* long as no close dies between the broadcast and the commit.              *)
AnnouncedIsStored ==
  OneDesk /\ ~mayDie => \A t \in Topics :
    announced[t] # None /\ voting[t] # None /\ ~TopicLocked(t) =>
      voting[t] = "closed" /\ result[t] = announced[t]

-----------------------------------------------------------------------------
(* What holds while no admin request overlaps anything.                     *)
VotesAlone == regime \in {"serial", "alone"}

(* No "ballot pointing at a pitch that no longer exists" (lines 248-252),   *)
(* and none standing in another topic than its pitch: no pitch "takes       *)
(* votes with it" (lines 186-193).                                          *)
BallotsRest ==
  \A d \in Delegates, t \in Topics : vote[d][t] # None => entries[vote[d][t]] = t
BallotsRestOnTheirPitch == VotesAlone => BallotsRest

(* The result is "the tally as it stood the instant voting closed"          *)
(* (pitch-topic.entity, lines 80-81).                                       *)
ResultIsTheTallyAtClose ==
  [][VotesAlone => \A t \in Topics : voting[t] # "closed" /\ voting'[t] = "closed" =>
       result'[t] = Tally(vote, t)]_vars

(* With one request at a time, and none dying before its broadcast, the     *)
(* last tally every screen was sent is the standing of the topic.           *)
ScreensAreCurrent ==
  regime = "serial" /\ ~mayDie /\ CastsIdle /\ AdminsIdle =>
    \A t \in Topics : voting[t] # None => heard[t] = Tally(vote, t)

-----------------------------------------------------------------------------
(* What the repository says of the ballot without those provisos, and the   *)
(* code's own concurrency breaks.                                           *)

(* "Null until then; never recomputed" (pitch-topic.entity, line 82): no    *)
(* request takes a frozen result back.                                      *)
NeverRecomputed == [][KeepsResults]_vars

-----------------------------------------------------------------------------
(* Voting implements the abstract ballot, table by table.                  *)
Ballot == INSTANCE PitchBallot WITH
  state <- voting, final <- result, home <- entries, ballot <- vote

ImplementsBallot == Ballot!PSpec
=============================================================================
