------------------------------- MODULE Trivia -------------------------------
(***************************************************************************)
(* Live trivia: src/trivia/trivia.service.ts over trivia_questions,        *)
(* trivia_answers and one Redis hash of counters per question.             *)
(*                                                                         *)
(* Requests are slots that move from await to await, as in Voting.tla, but *)
(* no request here opens a transaction or takes a lock: every statement is *)
(* a step of its own, committed at once.  Several API instances may serve  *)
(* the requests, so broadcasts need not leave in the order of the reads.   *)
(***************************************************************************)
EXTENDS Naturals, FiniteSets

CONSTANTS Delegates, Questions, Options,
          Players,   \* slots for answer requests
          Admins,    \* slots for the requests of the admin screens
          Regimes,   \* what may overlap, see "regime" below
          Deaths,    \* whose requests may die between two statements
          Limit,     \* no answer is begun for an option counted so often: a bound
          None

ASSUME NoneIsNoValue ==
  None \notin {"draft", "live", "closed", "push", "close", "update", "remove"}
              \cup Delegates \cup Questions \cup Options
ASSUME RequestsAreFew == IsFiniteSet(Delegates) /\ IsFiniteSet(Players)
ASSUME TriviaSwitches ==
  /\ Regimes \subseteq {"alone", "single", "shared"}
  /\ Deaths \subseteq {"nobody", "players", "admins"} /\ Limit \in Nat

VARIABLES
  status,   \* trivia_questions.status; None where the row does not exist
  chosen,   \* trivia_answers: one row per delegate and question
  counter,  \* the Redis hash of each question
  card,     \* the question on the phones, by the last event of the trivia room
  used,     \* question ids handed out so far
  play, adm,
  mortal,   \* whose requests may die between two statements
  regime    \* "alone": only answers overlap; "single": no two admin requests do;
            \* "shared": the code's own

store == <<status, chosen, counter, used>>
setting == <<mortal, regime>>
vars == <<store, card, play, adm, setting>>

Statuses == {"draft", "live", "closed"}
Zeros == [o \in Options |-> 0]
NoPlay == [pc |-> "idle", delegate |-> None, question |-> None, option |-> None]
NoAdmin == [pc |-> "idle", act |-> None, question |-> None, status |-> None, put |-> "nothing"]

Init ==
  /\ status = [q \in Questions |-> None]
  /\ chosen = [d \in Delegates |-> [q \in Questions |-> None]]
  /\ counter = [q \in Questions |-> Zeros]
  /\ card = None
  /\ used = {}
  /\ play = [p \in Players |-> NoPlay]
  /\ adm = [a \in Admins |-> NoAdmin]
  /\ regime \in Regimes
  /\ mortal \in Deaths

PlayersIdle == \A p \in Players : play[p].pc = "idle"
AdminsIdle == \A a \in Admins : adm[a].pc = "idle"

PlayTo(p, slot) == play' = [play EXCEPT ![p] = slot] /\ UNCHANGED <<adm, setting>>
AdmTo(a, slot) == adm' = [adm EXCEPT ![a] = slot] /\ UNCHANGED <<play, setting>>
AdminMayBegin == /\ regime # "shared" => AdminsIdle
                 /\ regime = "alone" => PlayersIdle

-----------------------------------------------------------------------------
(* answer.  LIVE is checked on a row read beforehand.  Each "Slip:" is a     *)
(* plausible wrong version of the action after it, and no part of Next.      *)
AnswerRead(p, d, q, o) ==
  /\ play[p].pc = "idle"
  /\ regime = "alone" => AdminsIdle
  /\ status[q] = "live" /\ counter[q][o] < Limit
  /\ PlayTo(p, [NoPlay EXCEPT !.pc = "checked", !.delegate = d, !.question = q, !.option = o])
  /\ UNCHANGED <<store, card>>

(* Slip: a second answer of a delegate replaces the first.                  *)
AnswerUpsert(p) ==
  /\ play[p].pc = "checked"
  /\ chosen' = [chosen EXCEPT ![play[p].delegate][play[p].question] = play[p].option]
  /\ PlayTo(p, [play[p] EXCEPT !.pc = "inserted"])
  /\ UNCHANGED <<status, counter, used, card>>

(* INSERT ... ON CONFLICT DO NOTHING; a row that was there is a 409.        *)
AnswerInsert(p) ==
  LET d == play[p].delegate
      q == play[p].question
  IN
  /\ play[p].pc = "checked"
  /\ IF chosen[d][q] = None
     THEN /\ chosen' = [chosen EXCEPT ![d][q] = play[p].option]
          /\ PlayTo(p, [play[p] EXCEPT !.pc = "inserted"])
     ELSE UNCHANGED chosen /\ PlayTo(p, NoPlay)
  /\ UNCHANGED <<status, counter, used, card>>

(* The count of the option, then trivia:distribution, which leaves no state. *)
AnswerCount(p) ==
  /\ play[p].pc = "inserted"
  /\ counter' = [counter EXCEPT ![play[p].question][play[p].option] = @ + 1]
  /\ PlayTo(p, NoPlay)
  /\ UNCHANGED <<status, chosen, used, card>>

-----------------------------------------------------------------------------
(* The admin screens.                                                       *)
Create(q) ==
  /\ AdminMayBegin
  /\ q \notin used
  /\ used' = used \cup {q}
  /\ status' = [status EXCEPT ![q] = "draft"]
  /\ UNCHANGED <<chosen, counter, card, play, adm, setting>>

(* A request begins by reading the question, a 404 if it is gone.           *)
FirstStep == [push |-> "others", close |-> "saving", update |-> "saving", remove |-> "answers"]
EntityStatus(act, q) ==
  IF act = "push" THEN "live" ELSE IF act = "close" THEN "closed" ELSE status[q]

AdminRead(a, act, q) ==
  /\ adm[a].pc = "idle"
  /\ AdminMayBegin
  /\ status[q] # None
  /\ AdmTo(a, [NoAdmin EXCEPT !.pc = FirstStep[act], !.act = act, !.question = q,
                              !.status = EntityStatus(act, q)])
  /\ UNCHANGED <<store, card>>

(* Slip: the current question is left open.                                 *)
PushLeavesOthers(a) ==
  /\ adm[a].pc = "others"
  /\ AdmTo(a, [adm[a] EXCEPT !.pc = "saving"])
  /\ UNCHANGED <<store, card>>

(* pushLive closes the current question, itself too if it is live.          *)
PushClosesOthers(a) ==
  /\ adm[a].pc = "others"
  /\ status' = [q \in Questions |-> IF status[q] = "live" THEN "closed" ELSE status[q]]
  /\ AdmTo(a, [adm[a] EXCEPT !.pc = "saving"])
  /\ UNCHANGED <<chosen, counter, used, card>>

(* Repository.save: the row is read again, then what differs is written; a  *)
(* row that is gone is inserted under its old id.                           *)
SaveReload(a) ==
  LET row == status[adm[a].question] IN
  /\ adm[a].pc = "saving"
  /\ AdmTo(a, [adm[a] EXCEPT !.pc = "writing",
                 !.put = IF row = None THEN "insert"
                         ELSE IF row = adm[a].status THEN "nothing" ELSE "update"])
  /\ UNCHANGED <<store, card>>

SaveWrite(a) ==
  LET q == adm[a].question
      takes == \/ adm[a].put = "update" /\ status[q] # None
               \/ adm[a].put = "insert" /\ status[q] = None
      fails == adm[a].put = "insert" /\ status[q] # None
  IN
  /\ adm[a].pc = "writing"
  /\ status' = [status EXCEPT ![q] = IF takes THEN adm[a].status ELSE @]
  /\ AdmTo(a, IF fails THEN NoAdmin ELSE [adm[a] EXCEPT !.pc = "emitting"])
  /\ UNCHANGED <<chosen, counter, used, card>>

(* Slip: closing a question clears the card, whichever it shows.            *)
AdminEmitClearing(a) ==
  /\ adm[a].pc = "emitting"
  /\ card' = IF adm[a].status = "live" THEN adm[a].question ELSE None
  /\ AdmTo(a, NoAdmin)
  /\ UNCHANGED store

(* The saved entity says what is sent: a live question goes on the card,  *)
(* trivia:closed and trivia:deleted clear the card that shows theirs.       *)
AdminEmit(a) ==
  LET q == adm[a].question IN
  /\ adm[a].pc = "emitting"
  /\ card' = IF adm[a].act \in {"push", "update"} /\ adm[a].status = "live" THEN q
             ELSE IF adm[a].act \in {"close", "remove"} /\ card = q THEN None
             ELSE card
  /\ AdmTo(a, NoAdmin)
  /\ UNCHANGED store

(* remove: the answers, the counters, the question, in no transaction.      *)
RemoveAnswers(a) ==
  LET q == adm[a].question IN
  /\ adm[a].pc = "answers"
  /\ chosen' = [d \in Delegates |-> [chosen[d] EXCEPT ![q] = None]]
  /\ AdmTo(a, [adm[a] EXCEPT !.pc = "counter"])
  /\ UNCHANGED <<status, counter, used, card>>

RemoveCounter(a) ==
  /\ adm[a].pc = "counter"
  /\ counter' = [counter EXCEPT ![adm[a].question] = Zeros]
  /\ AdmTo(a, [adm[a] EXCEPT !.pc = "row"])
  /\ UNCHANGED <<status, chosen, used, card>>

RemoveRow(a) ==
  /\ adm[a].pc = "row"
  /\ status' = [status EXCEPT ![adm[a].question] = None]
  /\ AdmTo(a, [adm[a] EXCEPT !.pc = "emitting"])
  /\ UNCHANGED <<chosen, counter, used, card>>

-----------------------------------------------------------------------------
(* The process is lost: what was done stays done, the rest never happens.   *)
PlayerDies(p) == mortal = "players" /\ play[p].pc # "idle" /\ PlayTo(p, NoPlay) /\ UNCHANGED <<store, card>>
AdminDies(a) == mortal = "admins" /\ adm[a].pc # "idle" /\ AdmTo(a, NoAdmin) /\ UNCHANGED <<store, card>>

Next ==
  \/ \E q \in Questions : Create(q)
  \/ \E p \in Players :
       \/ \E d \in Delegates, q \in Questions, o \in Options : AnswerRead(p, d, q, o)
       \/ AnswerInsert(p) \/ AnswerCount(p)
       \/ PlayerDies(p)
  \/ \E a \in Admins :
       \/ \E act \in {"push", "close", "update", "remove"}, q \in Questions : AdminRead(a, act, q)
       \/ PushClosesOthers(a) \/ SaveReload(a) \/ SaveWrite(a) \/ AdminEmit(a)
       \/ RemoveAnswers(a) \/ RemoveCounter(a) \/ RemoveRow(a)
       \/ AdminDies(a)

Spec == Init /\ [][Next]_vars

-----------------------------------------------------------------------------
PlayType ==
  [pc : {"idle", "checked", "inserted"},
   delegate : Delegates \cup {None}, question : Questions \cup {None},
   option : Options \cup {None}]
PlaySlot == {s \in PlayType : s.pc # "idle" => None \notin {s.delegate, s.question, s.option}}
AdminType ==
  [pc : {"idle", "others", "saving", "writing", "emitting", "answers", "counter", "row"},
   act : {"push", "close", "update", "remove", None}, question : Questions \cup {None},
   status : Statuses \cup {None}, put : {"nothing", "insert", "update"}]
AdminSlot == {s \in AdminType : s.pc # "idle" => None \notin {s.act, s.question, s.status}}

(* The type invariant: rows, counters and what requests in flight remember. *)
TypeOK ==
  /\ status \in [Questions -> Statuses \cup {None}]
  /\ chosen \in [Delegates -> [Questions -> Options \cup {None}]]
  /\ counter \in [Questions -> [Options -> Nat]]
  /\ card \in Questions \cup {None}
  /\ used \subseteq Questions
  /\ play \in [Players -> PlaySlot]
  /\ adm \in [Admins -> AdminSlot]

(* "Only one live question at a time" (lines 181-184).                      *)
OnlyOneLive == \A q, r \in Questions : status[q] = "live" /\ status[r] = "live" => q = r

(* ... which holds while admin requests take turns, also when they die.     *)
OneDesk == regime # "shared"
OneLiveQuestion == OneDesk => OnlyOneLive

(* The Redis counters and the answers table tell the same story of every    *)
(* question, but for the answers inserted and not counted yet, and a removal *)
(* takes both with it (lines 139-150, 244-256), while no admin request runs  *)
(* beside the answers or dies.  An answer that dies may leave its count out; *)
(* none is ever counted that is not there.                                   *)
Answers(q, o) == Cardinality({d \in Delegates : chosen[d][q] = o})
Uncounted(q, o) ==
  Cardinality({p \in Players : /\ play[p].pc = "inserted"
                               /\ play[p].question = q /\ play[p].option = o})
CountsMatchAnswers ==
  regime = "alone" /\ mortal # "admins" =>
    \A q \in Questions, o \in Options :
      \/ \E a \in Admins : adm[a].question = q /\ adm[a].pc = "counter"
      \/ counter[q][o] + Uncounted(q, o) = Answers(q, o)
      \/ counter[q][o] + Uncounted(q, o) < Answers(q, o) /\ mortal = "players"

(* When admin requests take turns, none dies and none is under way, the card *)
(* on the phones is the live question: pushing, correcting, closing and    *)
(* removing each re-broadcast what changed (lines 193, 206, 236, 260).       *)
CardIsTheLiveQuestion ==
  OneDesk /\ mortal # "admins" /\ AdminsIdle => \A q \in Questions : card = q <=> status[q] = "live"

=============================================================================
