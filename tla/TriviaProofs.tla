---------------------------- MODULE TriviaProofs ----------------------------
(***************************************************************************)
(* Trivia, for any numbers of delegates, questions, options and requests:  *)
(* type correctness; one live question, and it on the card, while admin    *)
(* requests take turns; and counters that match the answers while nothing  *)
(* runs beside them.                                                       *)
(***************************************************************************)
EXTENDS Trivia, FiniteSetTheorems, TLAPS

LEMMA IdleSlots == NoPlay \in PlaySlot /\ NoAdmin \in AdminSlot
BY DEF NoPlay, NoAdmin, PlaySlot, AdminSlot, PlayType, AdminType

LEMMA TypeInit == Init => TypeOK
BY IdleSlots DEF Init, TypeOK, Zeros

(* The slot a player's step leaves behind.                                  *)
LEMMA PlayToType ==
  ASSUME NEW p \in Players, NEW slot \in PlaySlot, TypeOK, PlayTo(p, slot)
  PROVE  play' \in [Players -> PlaySlot] /\ adm' \in [Admins -> AdminSlot]
BY DEF TypeOK, PlayTo

LEMMA AdmToType ==
  ASSUME NEW a \in Admins, NEW slot \in AdminSlot, TypeOK, AdmTo(a, slot)
  PROVE  play' \in [Players -> PlaySlot] /\ adm' \in [Admins -> AdminSlot]
BY DEF TypeOK, AdmTo

(* A step of a request under way keeps its slot well formed.                 *)
LEMMA SlotMoves ==
  ASSUME NEW s \in AdminSlot, s.pc # "idle"
  PROVE  /\ \A pc \in {"saving", "counter", "row", "emitting"} : [s EXCEPT !.pc = pc] \in AdminSlot
         /\ \A put \in {"nothing", "insert", "update"} :
              [s EXCEPT !.pc = "writing", !.put = put] \in AdminSlot
         /\ s.question \in Questions /\ s.status \in Statuses
         /\ s.act \in {"push", "close", "update", "remove"}
BY DEF AdminSlot, AdminType

LEMMA TypeStep == TypeOK /\ [Next]_vars => TypeOK'
<1> SUFFICES ASSUME TypeOK, [Next]_vars PROVE TypeOK'
  OBVIOUS
<1> USE DEF vars, store, setting
<1>1. ASSUME NEW q \in Questions, Create(q) PROVE TypeOK'
  BY <1>1 DEF Create, TypeOK, Statuses
<1>2. ASSUME NEW p \in Players, NEW d \in Delegates, NEW q \in Questions, NEW o \in Options,
             AnswerRead(p, d, q, o)
      PROVE  TypeOK'
  <2>1. [NoPlay EXCEPT !.pc = "checked", !.delegate = d, !.question = q, !.option = o] \in PlaySlot
    BY NoneIsNoValue DEF NoPlay, PlaySlot, PlayType
  <2> QED  BY <1>2, <2>1, PlayToType DEF AnswerRead, TypeOK
<1>3. ASSUME NEW p \in Players, play[p].pc # "idle"
      PROVE  /\ [play[p] EXCEPT !.pc = "inserted"] \in PlaySlot
             /\ play[p].delegate \in Delegates /\ play[p].question \in Questions
             /\ play[p].option \in Options
  <2>1. play[p] \in PlaySlot
    BY DEF TypeOK
  <2> QED  BY <1>3, <2>1 DEF PlaySlot, PlayType
<1>4. ASSUME NEW p \in Players, AnswerInsert(p) PROVE TypeOK'
  <2>1. CASE chosen[play[p].delegate][play[p].question] = None
    <3>1. /\ play[p].delegate \in Delegates /\ play[p].question \in Questions
          /\ play[p].option \in Options /\ [play[p] EXCEPT !.pc = "inserted"] \in PlaySlot
      BY <1>3, <1>4 DEF AnswerInsert
    <3>2. chosen' = [chosen EXCEPT ![play[p].delegate][play[p].question] = play[p].option]
      BY <1>4, <2>1 DEF AnswerInsert
    <3>3. chosen' \in [Delegates -> [Questions -> Options \cup {None}]]
      BY <3>1, <3>2 DEF TypeOK
    <3> QED  BY <1>4, <2>1, <3>1, <3>3, PlayToType DEF AnswerInsert, TypeOK
  <2>2. CASE chosen[play[p].delegate][play[p].question] # None
    BY <1>4, <2>2, PlayToType, IdleSlots DEF AnswerInsert, TypeOK
  <2> QED  BY <2>1, <2>2
<1>5. ASSUME NEW p \in Players, AnswerCount(p) PROVE TypeOK'
  <2>0. play[p].question \in Questions /\ play[p].option \in Options
    BY <1>3, <1>5 DEF AnswerCount
  <2>1. counter' \in [Questions -> [Options -> Nat]]
    BY <1>5, <2>0 DEF AnswerCount, TypeOK
  <2> QED  BY <1>5, <2>1, PlayToType, IdleSlots DEF AnswerCount, TypeOK
<1>6. ASSUME NEW p \in Players, PlayerDies(p) PROVE TypeOK'
  BY <1>6, PlayToType, IdleSlots DEF PlayerDies, TypeOK
<1>7. ASSUME NEW a \in Admins, NEW act \in {"push", "close", "update", "remove"},
             NEW q \in Questions, AdminRead(a, act, q)
      PROVE  TypeOK'
  <2>1. status[q] \in Statuses
    BY <1>7 DEF AdminRead, TypeOK
  <2>2. [NoAdmin EXCEPT !.pc = FirstStep[act], !.act = act, !.question = q,
                        !.status = EntityStatus(act, q)] \in AdminSlot
    <3>1. /\ FirstStep[act] \in {"others", "saving", "answers"}
          /\ EntityStatus(act, q) \in Statuses
      BY <2>1 DEF FirstStep, EntityStatus, Statuses
    <3> QED  BY <3>1, NoneIsNoValue DEF NoAdmin, AdminSlot, AdminType, Statuses
  <2> QED  BY <1>7, <2>2, AdmToType DEF AdminRead, TypeOK
<1>8. ASSUME NEW a \in Admins PROVE adm[a] \in AdminSlot
  BY DEF TypeOK
<1>9. ASSUME NEW a \in Admins, PushClosesOthers(a) PROVE TypeOK'
  BY <1>8, <1>9, SlotMoves, AdmToType DEF PushClosesOthers, TypeOK, Statuses
<1>10. ASSUME NEW a \in Admins, SaveReload(a) PROVE TypeOK'
  BY <1>8, <1>10, SlotMoves, AdmToType DEF SaveReload, TypeOK
<1>11. ASSUME NEW a \in Admins, SaveWrite(a) PROVE TypeOK'
  BY <1>8, <1>11, SlotMoves, AdmToType, IdleSlots DEF SaveWrite, TypeOK
<1>12. ASSUME NEW a \in Admins, AdminEmit(a) PROVE TypeOK'
  BY <1>8, <1>12, SlotMoves, AdmToType, IdleSlots DEF AdminEmit, TypeOK
<1>13. ASSUME NEW a \in Admins, RemoveAnswers(a) PROVE TypeOK'
  BY <1>8, <1>13, SlotMoves, AdmToType DEF RemoveAnswers, TypeOK
<1>14. ASSUME NEW a \in Admins, RemoveCounter(a) PROVE TypeOK'
  BY <1>8, <1>14, SlotMoves, AdmToType DEF RemoveCounter, TypeOK, Zeros
<1>15. ASSUME NEW a \in Admins, RemoveRow(a) PROVE TypeOK'
  BY <1>8, <1>15, SlotMoves, AdmToType DEF RemoveRow, TypeOK
<1>16. ASSUME NEW a \in Admins, AdminDies(a) PROVE TypeOK'
  BY <1>16, AdmToType, IdleSlots DEF AdminDies, TypeOK
<1>17. CASE UNCHANGED vars
  BY <1>17 DEF TypeOK
<1> QED
  BY <1>1, <1>2, <1>4, <1>5, <1>6, <1>7, <1>9, <1>10, <1>11, <1>12, <1>13, <1>14, <1>15, <1>16,
     <1>17 DEF Next

(* Every reachable state is well typed.                                     *)
THEOREM TypeCorrect == Spec => []TypeOK
BY TypeInit, TypeStep, PTL DEF Spec

-----------------------------------------------------------------------------
(* One live question.  What needs remembering between two steps is that an  *)
(* entity about to be saved as live finds no other question live.           *)
AtDesk == \A a, b \in Admins : adm[a].pc # "idle" /\ adm[b].pc # "idle" => a = b
SavesAlone ==
  \A a \in Admins : adm[a].pc \in {"saving", "writing"} /\ adm[a].status = "live" =>
    \A q \in Questions : status[q] = "live" => q = adm[a].question
(* Before pushLive closes the others nothing is promised: "others".         *)
Live == AtDesk /\ OnlyOneLive /\ SavesAlone
LiveInv == TypeOK /\ (OneDesk => Live)

LEMMA LiveInit == Init => LiveInv
<1> SUFFICES ASSUME Init PROVE LiveInv
  OBVIOUS
<1>1. TypeOK
  BY TypeInit
<1>2. Live
  BY NoneIsNoValue DEF Init, Live, AtDesk, OnlyOneLive, SavesAlone, NoAdmin
<1> QED  BY <1>1, <1>2 DEF LiveInv

(* A step of request a, while the others are idle.                          *)
DeskMove(a) ==
  \/ \E act \in {"push", "close", "update", "remove"}, q \in Questions : AdminRead(a, act, q)
  \/ PushClosesOthers(a) \/ SaveReload(a) \/ SaveWrite(a) \/ AdminEmit(a)
  \/ RemoveAnswers(a) \/ RemoveCounter(a) \/ RemoveRow(a)
  \/ AdminDies(a)

LEMMA AloneAtDesk ==
  ASSUME TypeOK, OneDesk, AtDesk, NEW a \in Admins, DeskMove(a)
  PROVE  /\ \A b \in Admins \ {a} : adm[b].pc = "idle" /\ adm'[b] = adm[b]
         /\ AtDesk'
<1>1. \A b \in Admins \ {a} : adm'[b] = adm[b]
  BY DEF DeskMove, AdminRead, PushClosesOthers, SaveReload, SaveWrite, AdminEmit,
         RemoveAnswers, RemoveCounter, RemoveRow, AdminDies, AdmTo, TypeOK
<1>2. CASE \E act \in {"push", "close", "update", "remove"}, q \in Questions : AdminRead(a, act, q)
  BY <1>1, <1>2 DEF AdminRead, AdminMayBegin, AdminsIdle, OneDesk, AtDesk
<1>3. CASE adm[a].pc # "idle"
  BY <1>1, <1>3 DEF AtDesk
<1> QED
  BY <1>2, <1>3 DEF DeskMove, PushClosesOthers, SaveReload, SaveWrite, AdminEmit,
     RemoveAnswers, RemoveCounter, RemoveRow, AdminDies

LEMMA LiveMove ==
  ASSUME TypeOK, OneDesk, Live, NEW a \in Admins, DeskMove(a)
  PROVE  Live'
<1>1. /\ AtDesk' /\ \A b \in Admins \ {a} : adm[b].pc = "idle" /\ adm'[b] = adm[b]
      /\ OnlyOneLive /\ SavesAlone
  BY AloneAtDesk DEF Live
<1>2. adm[a] \in AdminType /\ (adm[a].pc # "idle" => adm[a].question \in Questions)
  BY DEF TypeOK, AdminSlot, AdminType
<1> USE DEF OnlyOneLive, SavesAlone
<1>3. ASSUME UNCHANGED status,
             adm'[a].pc \in {"saving", "writing"} /\ adm'[a].status = "live" =>
               \A q \in Questions : status[q] = "live" => q = adm'[a].question
      PROVE  Live'
  BY <1>1, <1>3 DEF Live
<1>4. ASSUME NEW act \in {"push", "close", "update", "remove"}, NEW q \in Questions,
             AdminRead(a, act, q)
      PROVE  Live'
  <2>1. /\ UNCHANGED status
        /\ adm'[a].pc = FirstStep[act] /\ adm'[a].question = q
        /\ adm'[a].status = EntityStatus(act, q)
    BY <1>4 DEF AdminRead, AdmTo, TypeOK, NoAdmin, store
  <2>2. adm'[a].pc = "saving" /\ adm'[a].status = "live" => status[q] = "live"
    BY <2>1 DEF FirstStep, EntityStatus
  <2>3. adm'[a].pc # "writing"
    BY <2>1 DEF FirstStep
  <2> QED  BY <1>1, <1>3, <2>1, <2>2, <2>3
<1>5. CASE PushClosesOthers(a)
  <2>1. /\ \A q \in Questions : status'[q] # "live"
        /\ adm'[a].pc = "saving"
    BY <1>2, <1>5 DEF PushClosesOthers, AdmTo, TypeOK, AdminType
  <2> QED  BY <1>1, <2>1 DEF Live
<1>6. CASE SaveReload(a)
  <2>1. /\ UNCHANGED status /\ adm[a].pc = "saving"
        /\ adm'[a].question = adm[a].question /\ adm'[a].status = adm[a].status
    BY <1>2, <1>6 DEF SaveReload, AdmTo, TypeOK, AdminType, store
  <2> QED  BY <1>1, <1>3, <2>1
<1>7. CASE SaveWrite(a)
  <2>1. /\ adm[a].pc = "writing" /\ adm[a].question \in Questions
        /\ adm'[a].pc \in {"idle", "emitting"}
    BY <1>2, <1>7 DEF SaveWrite, AdmTo, TypeOK, AdminType, NoAdmin
  <2>2. \A q \in Questions :
          \/ status'[q] = status[q]
          \/ q = adm[a].question /\ status'[q] = adm[a].status
    BY <1>7, <2>1 DEF SaveWrite, TypeOK
  <2>3. OnlyOneLive'
    BY <1>1, <2>1, <2>2
  <2> QED  BY <1>1, <2>1, <2>3 DEF Live
<1>8. CASE AdminEmit(a) \/ RemoveAnswers(a) \/ RemoveCounter(a) \/ AdminDies(a)
  <2>1. UNCHANGED status /\ adm'[a].pc \notin {"saving", "writing"}
    BY <1>2, <1>8 DEF AdminEmit, RemoveAnswers, RemoveCounter, AdminDies, AdmTo, TypeOK,
                      AdminType, NoAdmin, store
  <2> QED  BY <1>3, <2>1
<1>9. CASE RemoveRow(a)
  <2>1. /\ \A q \in Questions : status'[q] = status[q] \/ status'[q] = None
        /\ adm'[a].pc = "emitting"
    BY <1>2, <1>9 DEF RemoveRow, AdmTo, TypeOK, AdminType
  <2> QED  BY <1>1, <2>1, NoneIsNoValue DEF Live
<1> QED  BY <1>4, <1>5, <1>6, <1>7, <1>8, <1>9 DEF DeskMove

LEMMA LiveStep == LiveInv /\ [Next]_vars => LiveInv'
<1> SUFFICES ASSUME LiveInv, [Next]_vars PROVE LiveInv'
  OBVIOUS
<1>1. TypeOK /\ (OneDesk => Live) /\ TypeOK'
  BY TypeStep DEF LiveInv
<1>2. CASE \E a \in Admins : DeskMove(a)
  <2>1. UNCHANGED setting
    BY <1>2 DEF DeskMove, AdminRead, PushClosesOthers, SaveReload, SaveWrite, AdminEmit,
                RemoveAnswers, RemoveCounter, RemoveRow, AdminDies, AdmTo
  <2> QED  BY <1>1, <1>2, <2>1, LiveMove DEF LiveInv, OneDesk, setting
<1>3. ASSUME UNCHANGED <<status, adm, setting>> PROVE LiveInv'
  BY <1>1, <1>3 DEF LiveInv, OneDesk, Live, AtDesk, OnlyOneLive, SavesAlone, setting
<1>4. ASSUME NEW q \in Questions, Create(q) PROVE LiveInv'
  <2>1. /\ status' = [status EXCEPT ![q] = "draft"] /\ UNCHANGED <<adm, setting>>
    BY <1>4 DEF Create
  <2>2. \A r \in Questions : status'[r] = "live" => status[r] = "live"
    BY <1>1, <2>1 DEF TypeOK
  <2> QED
    BY <1>1, <2>1, <2>2 DEF LiveInv, OneDesk, Live, AtDesk, OnlyOneLive, SavesAlone, setting
<1>5. ASSUME NEW p \in Players,
             \/ \E d \in Delegates, q \in Questions, o \in Options : AnswerRead(p, d, q, o)
             \/ AnswerInsert(p) \/ AnswerCount(p) \/ PlayerDies(p)
      PROVE  UNCHANGED <<status, adm, setting>>
  BY <1>5 DEF AnswerRead, AnswerInsert, AnswerCount, PlayerDies, PlayTo, store
<1>6. CASE UNCHANGED vars
  BY <1>3, <1>6 DEF vars, store
<1> QED  BY <1>2, <1>3, <1>4, <1>5, <1>6 DEF Next, DeskMove

(* While admin requests take turns, never are two questions live, whatever  *)
(* stale entity is saved and wherever a request dies.                       *)
THEOREM OneLiveAtATime == Spec => []OneLiveQuestion
<1>1. LiveInv => OneLiveQuestion
  BY DEF LiveInv, Live, OneLiveQuestion
<1> QED  BY <1>1, LiveInit, LiveStep, PTL DEF Spec

-----------------------------------------------------------------------------
(* The card.  Between two steps of the one request at the desk, the card    *)
(* shows the live question, but for the question the request has already    *)
(* closed or removed and not yet told the room about; while pushLive runs    *)
(* the card is anything, and set when it ends.                              *)
CardShows(Q) == \A q \in Q : card = q <=> status[q] = "live"

(* What the entity is written over, as the request read it again.           *)
PutStands(s) ==
  /\ s.put = "insert" => status[s.question] = None
  /\ s.put = "update" => status[s.question] # None
  /\ s.put = "nothing" => status[s.question] = s.status

Scene(s) ==
  /\ s.pc \in {"others", "saving", "writing"} => s.act \in {"push", "close", "update"}
  /\ s.pc = "writing" => PutStands(s)
  /\ s.pc \in {"others", "saving", "writing", "emitting"} /\ s.act = "push" =>
       s.status = "live" /\ (s.pc = "emitting" => status[s.question] = "live")
  /\ s.pc \in {"saving", "writing"} /\ s.act = "close" => s.status = "closed" /\ CardShows(Questions)
  /\ s.pc \in {"saving", "writing", "emitting"} /\ s.act = "update" =>
       s.status = status[s.question] /\ CardShows(Questions)
  /\ s.pc \in {"answers", "counter", "row"} => s.act = "remove" /\ CardShows(Questions)
  /\ s.pc = "emitting" /\ s.act \in {"close", "remove"} =>
       status[s.question] # "live" /\ CardShows(Questions \ {s.question})
  /\ s.pc = "others" => s.act = "push"

Scenes ==
  /\ AdminsIdle => CardShows(Questions)
  /\ \A a \in Admins : Scene(adm[a])
(* Ids come from nowhere else: what has a row, or is in a request, is used. *)
IdsAreUsed ==
  /\ \A q \in Questions : status[q] # None => q \in used
  /\ \A a \in Admins : adm[a].pc # "idle" => adm[a].question \in used
CardInv == LiveInv /\ IdsAreUsed /\ (OneDesk /\ mortal # "admins" => Scenes)

LEMMA CardInit == Init => CardInv
<1> SUFFICES ASSUME Init PROVE CardInv
  OBVIOUS
<1>1. LiveInv
  BY LiveInit
<1>2. IdsAreUsed /\ Scenes
  BY NoneIsNoValue DEF Init, IdsAreUsed, Scenes, Scene, CardShows, NoAdmin
<1> QED  BY <1>1, <1>2 DEF CardInv

LEMMA IdsStep ==
  ASSUME TypeOK, IdsAreUsed, [Next]_vars
  PROVE  IdsAreUsed'
<1> USE DEF vars, store, setting
<1>1. \A a \in Admins : adm[a].pc # "idle" => adm[a].question \in Questions
  BY DEF TypeOK, AdminSlot, AdminType
<1>2. ASSUME NEW a \in Admins, DeskMove(a) PROVE IdsAreUsed'
  <2>1. /\ used' = used /\ \A b \in Admins \ {a} : adm'[b] = adm[b]
    BY <1>2 DEF DeskMove, AdminRead, PushClosesOthers, SaveReload, SaveWrite, AdminEmit,
         RemoveAnswers, RemoveCounter, RemoveRow, AdminDies, AdmTo, TypeOK
  <2>2. /\ adm'[a].pc # "idle" => adm'[a].question \in used
        /\ \A q \in Questions : status'[q] # None => q \in used
    <3>0. adm[a] \in AdminType
      BY DEF TypeOK, AdminSlot
    <3>7. ASSUME NEW x \in AdminType, adm' = [adm EXCEPT ![a] = x], x.question = adm[a].question,
                  adm[a].pc # "idle", \A q \in Questions : status'[q] # None => q = adm[a].question \/ status[q] # None
           PROVE  /\ adm'[a].pc # "idle" => adm'[a].question \in used
                  /\ \A q \in Questions : status'[q] # None => q \in used
      BY <3>7 DEF IdsAreUsed, TypeOK
    <3> USE <1>1, <1>2 DEF AdmTo, TypeOK, IdsAreUsed, NoAdmin
    <3>1. CASE \E act \in {"push", "close", "update", "remove"}, q \in Questions : AdminRead(a, act, q)
      BY <3>1 DEF AdminRead
    <3>2. CASE AdminEmit(a) \/ AdminDies(a)
      BY <3>2 DEF AdminEmit, AdminDies
    <3>3. CASE PushClosesOthers(a)
      <4>1. PICK x : x = [adm[a] EXCEPT !.pc = "saving"]
        OBVIOUS
      <4>2. x \in AdminType /\ x.question = adm[a].question
        BY <3>0, <4>1 DEF AdminType
      <4>3. adm[a].pc # "idle" /\ adm' = [adm EXCEPT ![a] = x]
        BY <3>3, <4>1 DEF PushClosesOthers
      <4>4. \A q \in Questions : status'[q] # None => status[q] # None
        BY <3>3, NoneIsNoValue DEF PushClosesOthers
      <4> QED  BY <3>7, <4>2, <4>3, <4>4
    <3>4. CASE SaveReload(a)
      <4>1. PICK put \in {"nothing", "insert", "update"} :
              adm' = [adm EXCEPT ![a] = [adm[a] EXCEPT !.pc = "writing", !.put = put]]
        BY <3>4 DEF SaveReload
      <4>2. PICK x : x = [adm[a] EXCEPT !.pc = "writing", !.put = put]
        OBVIOUS
      <4>3. x \in AdminType /\ x.question = adm[a].question
        BY <3>0, <4>2 DEF AdminType
      <4>4. adm[a].pc # "idle" /\ status' = status /\ adm' = [adm EXCEPT ![a] = x]
        BY <3>4, <4>1, <4>2 DEF SaveReload
      <4> QED  BY <3>7, <4>3, <4>4
    <3>5. CASE SaveWrite(a)
      BY <3>5 DEF SaveWrite, AdminSlot, AdminType
    <3>6. CASE RemoveAnswers(a) \/ RemoveCounter(a) \/ RemoveRow(a)
      <4>1. PICK pc \in {"counter", "row", "emitting"} : adm' = [adm EXCEPT ![a] = [adm[a] EXCEPT !.pc = pc]]
        BY <3>6 DEF RemoveAnswers, RemoveCounter, RemoveRow
      <4>2. PICK x : x = [adm[a] EXCEPT !.pc = pc]
        OBVIOUS
      <4>3. x \in AdminType /\ x.question = adm[a].question
        BY <3>0, <4>2 DEF AdminType
      <4>4. adm[a].pc # "idle" /\ \A q \in Questions : status'[q] # None => status[q] # None
        BY <3>6 DEF RemoveAnswers, RemoveCounter, RemoveRow
      <4> QED  BY <3>7, <4>1, <4>2, <4>3, <4>4
    <3> QED  BY <3>1, <3>2, <3>3, <3>4, <3>5, <3>6 DEF DeskMove
  <2> QED  BY <2>1, <2>2 DEF IdsAreUsed
<1>3. ASSUME NEW q \in Questions, Create(q) PROVE IdsAreUsed'
  BY <1>3 DEF Create, IdsAreUsed, TypeOK
<1>4. ASSUME NEW p \in Players,
             \/ \E d \in Delegates, q \in Questions, o \in Options : AnswerRead(p, d, q, o)
             \/ AnswerInsert(p) \/ AnswerCount(p) \/ PlayerDies(p)
      PROVE  IdsAreUsed'
  BY <1>4 DEF AnswerRead, AnswerInsert, AnswerCount, PlayerDies, PlayTo, IdsAreUsed
<1>5. CASE UNCHANGED vars
  BY <1>5 DEF IdsAreUsed
<1> QED  BY <1>2, <1>3, <1>4, <1>5 DEF Next, DeskMove

LEMMA CardMove ==
  ASSUME TypeOK, OneDesk, Live, mortal # "admins", Scenes, OnlyOneLive', NEW a \in Admins, DeskMove(a)
  PROVE  Scenes'
<1> DEFINE s == adm[a]
           q == s.question
<1>1. /\ \A b \in Admins \ {a} : adm[b].pc = "idle" /\ adm'[b] = adm[b]
      /\ Scene(s) /\ (s.pc = "idle" => CardShows(Questions))
  BY AloneAtDesk DEF Live, Scenes, AdminsIdle
<1>2. SUFFICES Scene(s)' /\ (adm'[a].pc = "idle" => CardShows(Questions)')
  <2>1. \A b \in Admins \ {a} : adm'[b].pc = "idle" /\ Scene(adm[b])'
    BY <1>1 DEF Scene
  <2> QED  BY <2>1 DEF Scenes, AdminsIdle
<1>3. s \in AdminSlot /\ (s.pc # "idle" => q \in Questions /\ s.status \in Statuses)
  BY DEF TypeOK, AdminSlot, AdminType
<1> USE DEF AdmTo, TypeOK, store
<1>4. ASSUME NEW act \in {"push", "close", "update", "remove"}, NEW r \in Questions, AdminRead(a, act, r)
      PROVE  Scene(s)' /\ adm'[a].pc # "idle"
  <2>1. /\ s.pc = "idle" /\ UNCHANGED <<status, card>>
        /\ adm'[a].pc = FirstStep[act] /\ adm'[a].act = act /\ adm'[a].question = r
        /\ adm'[a].status = EntityStatus(act, r)
    BY <1>4 DEF AdminRead, NoAdmin
  <2> QED  BY <1>1, <2>1 DEF Scene, CardShows, FirstStep, EntityStatus
<1>5. ASSUME NEW pc \in {"saving", "counter", "row", "emitting"}, adm' = [adm EXCEPT ![a] = [s EXCEPT !.pc = pc]]
      PROVE  /\ adm'[a].pc = pc /\ adm'[a].act = s.act /\ adm'[a].question = q
             /\ adm'[a].status = s.status /\ adm'[a].put = s.put
  BY <1>3, <1>5 DEF AdminSlot, AdminType
<1>6. CASE PushClosesOthers(a)
  <2>1. s.pc = "others" /\ adm'[a].pc = "saving" /\ adm'[a].act = s.act /\ adm'[a].status = s.status
    BY <1>5, <1>6 DEF PushClosesOthers
  <2> QED  BY <1>1, <2>1 DEF Scene
<1>7. CASE SaveReload(a)
  <2>1. PICK x : adm' = [adm EXCEPT ![a] = [s EXCEPT !.pc = "writing", !.put = x]]
                 /\ x = IF status[q] = None THEN "insert" ELSE IF status[q] = s.status THEN "nothing" ELSE "update"
    BY <1>7 DEF SaveReload
  <2>2. /\ adm'[a].pc = "writing" /\ adm'[a].act = s.act /\ adm'[a].question = q
        /\ adm'[a].status = s.status /\ adm'[a].put = x
    BY <1>3, <2>1 DEF AdminSlot, AdminType
  <2>3. s.pc = "saving" /\ UNCHANGED <<status, card>>
    BY <1>7 DEF SaveReload
  <2> QED  BY <1>1, <2>1, <2>2, <2>3 DEF Scene, PutStands, CardShows
<1>8. CASE SaveWrite(a)
  <2>1. s.pc = "writing" /\ card' = card /\ q \in Questions /\ s.put \in {"nothing", "insert", "update"}
    BY <1>3, <1>8 DEF SaveWrite, AdminSlot, AdminType
  <2>2. PutStands(s) /\ s.act \in {"push", "close", "update"}
    BY <1>1, <2>1 DEF Scene
  <2>3. status' = [status EXCEPT ![q] = s.status] /\ adm' = [adm EXCEPT ![a] = [s EXCEPT !.pc = "emitting"]]
    BY <1>8, <2>1, <2>2 DEF SaveWrite, PutStands
  <2>4. /\ adm'[a].pc = "emitting" /\ adm'[a].act = s.act /\ adm'[a].question = q /\ adm'[a].status = s.status
        /\ status'[q] = s.status /\ \A r \in Questions \ {q} : status'[r] = status[r]
    BY <1>5, <2>1, <2>3
  <2> QED  BY <1>1, <2>1, <2>2, <2>4 DEF Scene, CardShows
<1>9. CASE AdminEmit(a)
  <2>1. /\ s.pc = "emitting" /\ q \in Questions /\ adm'[a].pc = "idle" /\ status' = status
        /\ s.act \in {"push", "close", "update", "remove"}
        /\ card' = IF s.act \in {"push", "update"} /\ s.status = "live" THEN q
                   ELSE IF s.act \in {"close", "remove"} /\ card = q THEN None
                   ELSE card
    BY <1>3, <1>9 DEF AdminEmit, NoAdmin, AdminSlot, AdminType
  <2>2. CASE s.act = "push"
    BY <1>1, <2>1, <2>2 DEF Scene, CardShows, Live, OnlyOneLive
  <2>3. CASE s.act = "update"
    BY <1>1, <2>1, <2>3 DEF Scene, CardShows
  <2>4. CASE s.act \in {"close", "remove"}
    BY <1>1, <2>1, <2>4, NoneIsNoValue DEF Scene, CardShows
  <2>5. CardShows(Questions)'
    BY <2>1, <2>2, <2>3, <2>4 DEF CardShows
  <2> QED  BY <2>1, <2>5 DEF Scene
<1>10. CASE RemoveAnswers(a)
  <2>1. s.pc = "answers" /\ adm'[a].pc = "counter" /\ adm'[a].act = s.act /\ UNCHANGED <<status, card>>
    BY <1>5, <1>10 DEF RemoveAnswers
  <2> QED  BY <1>1, <2>1 DEF Scene, CardShows
<1>11. CASE RemoveCounter(a)
  <2>1. s.pc = "counter" /\ adm'[a].pc = "row" /\ adm'[a].act = s.act /\ UNCHANGED <<status, card>>
    BY <1>5, <1>11 DEF RemoveCounter
  <2> QED  BY <1>1, <2>1 DEF Scene, CardShows
<1>12. CASE RemoveRow(a)
  <2>1. /\ s.pc = "row" /\ adm'[a].pc = "emitting" /\ adm'[a].act = s.act /\ adm'[a].question = q
        /\ card' = card /\ q \in Questions /\ status'[q] = None
        /\ \A r \in Questions \ {q} : status'[r] = status[r]
    BY <1>3, <1>5, <1>12 DEF RemoveRow
  <2> QED  BY <1>1, <2>1, NoneIsNoValue DEF Scene, CardShows
<1>13. ~AdminDies(a)
  BY DEF AdminDies
<1> QED  BY <1>4, <1>6, <1>7, <1>8, <1>9, <1>10, <1>11, <1>12, <1>13 DEF DeskMove

LEMMA CardStep == CardInv /\ [Next]_vars => CardInv'
<1> SUFFICES ASSUME CardInv, [Next]_vars PROVE CardInv'
  OBVIOUS
<1>1. LiveInv /\ LiveInv' /\ TypeOK /\ IdsAreUsed /\ IdsAreUsed'
  BY LiveStep, IdsStep DEF CardInv, LiveInv
<1>2. UNCHANGED setting
  BY DEF Next, vars, Create, AnswerRead, AnswerInsert, AnswerCount, PlayerDies, PlayTo, AdminRead,
         PushClosesOthers, SaveReload, SaveWrite, AdminEmit, RemoveAnswers, RemoveCounter, RemoveRow,
         AdminDies, AdmTo
<1> SUFFICES ASSUME OneDesk, mortal # "admins", Scenes PROVE Scenes'
  BY <1>1, <1>2 DEF CardInv, OneDesk, setting
<1>3. Live /\ OnlyOneLive'
  BY <1>1, <1>2 DEF LiveInv, Live, OneDesk, setting
<1>4. ASSUME UNCHANGED <<status, adm, card>> PROVE Scenes'
  BY <1>4 DEF Scenes, AdminsIdle, Scene, PutStands, CardShows
<1>5. ASSUME NEW q \in Questions, Create(q) PROVE Scenes'
  <2>1. /\ AdminsIdle /\ q \notin used /\ UNCHANGED <<adm, card>>
        /\ status' = [status EXCEPT ![q] = "draft"]
    BY <1>5 DEF Create, AdminMayBegin, OneDesk
  <2>2. status[q] # "live"
    BY <1>1, <2>1, NoneIsNoValue DEF IdsAreUsed
  <2>3. CardShows(Questions)'
    BY <1>1, <2>1, <2>2 DEF CardShows, Scenes, TypeOK
  <2> QED  BY <2>1, <2>3 DEF Scenes, AdminsIdle, Scene
<1>6. ASSUME NEW p \in Players,
             \/ \E d \in Delegates, q \in Questions, o \in Options : AnswerRead(p, d, q, o)
             \/ AnswerInsert(p) \/ AnswerCount(p) \/ PlayerDies(p)
      PROVE  Scenes'
  BY <1>4, <1>6 DEF AnswerRead, AnswerInsert, AnswerCount, PlayerDies, PlayTo, store
<1>7. CASE UNCHANGED vars
  BY <1>4, <1>7 DEF vars, store
<1> QED  BY <1>1, <1>3, <1>5, <1>6, <1>7, CardMove DEF Next, DeskMove

(* Pushing, correcting, closing and removing each re-broadcast what changed: *)
(* while admin requests take turns, none dies and none is under way, the     *)
(* card on the phones is the live question, however many answers run beside. *)
THEOREM CardIsRight == Spec => []CardIsTheLiveQuestion
<1>1. CardInv => CardIsTheLiveQuestion
  BY DEF CardInv, Scenes, CardShows, CardIsTheLiveQuestion
<1> QED  BY <1>1, CardInit, CardStep, PTL DEF Spec

-----------------------------------------------------------------------------
(* The counters.  Answers and admin requests never overlap, and a removal   *)
(* has taken the answers when it is about to reset the counters.            *)
Counted(q, o) ==
  \/ counter[q][o] + Uncounted(q, o) = Answers(q, o)
  \/ counter[q][o] + Uncounted(q, o) < Answers(q, o) /\ mortal = "players"
Resetting(q) == \E a \in Admins : adm[a].question = q /\ adm[a].pc = "counter"
Tallied ==
  /\ AdminsIdle \/ PlayersIdle
  /\ \A q \in Questions : Resetting(q) => \A d \in Delegates : chosen[d][q] = None
  /\ \A q \in Questions, o \in Options : Resetting(q) \/ Counted(q, o)
CountInv == LiveInv /\ (regime = "alone" /\ mortal # "admins" => Tallied)

Holders(q, o) == {d \in Delegates : chosen[d][q] = o}
Pending(q, o) == {p \in Players : play[p].pc = "inserted" /\ play[p].question = q /\ play[p].option = o}

LEMMA CountsAreNumbers ==
  /\ \A q \in Questions, o \in Options :
       /\ IsFiniteSet(Holders(q, o)) /\ Answers(q, o) = Cardinality(Holders(q, o)) /\ Answers(q, o) \in Nat
       /\ IsFiniteSet(Pending(q, o)) /\ Uncounted(q, o) = Cardinality(Pending(q, o)) /\ Uncounted(q, o) \in Nat
  /\ \A q \in Questions, o \in Options :
       /\ Answers(q, o)' = Cardinality(Holders(q, o)') /\ Uncounted(q, o)' = Cardinality(Pending(q, o)')
<1>1. \A q \in Questions, o \in Options : Holders(q, o) \subseteq Delegates /\ Pending(q, o) \subseteq Players
  BY DEF Holders, Pending
<1>2. \A q \in Questions, o \in Options : IsFiniteSet(Holders(q, o)) /\ IsFiniteSet(Pending(q, o))
  BY <1>1, RequestsAreFew, FS_Subset
<1> QED  BY <1>2, FS_CardinalityType DEF Holders, Pending, Answers, Uncounted

LEMMA NoneCounted == Cardinality({}) = 0
BY FS_EmptySet

LEMMA CountInit == Init => CountInv
<1> SUFFICES ASSUME Init PROVE CountInv
  OBVIOUS
<1>1. LiveInv /\ AdminsIdle
  BY LiveInit DEF Init, AdminsIdle, NoAdmin
<1>2. \A q \in Questions, o \in Options : Holders(q, o) = {} /\ Pending(q, o) = {} /\ counter[q][o] = 0
  BY NoneIsNoValue DEF Init, Holders, Pending, NoPlay, Zeros
<1>3. \A q \in Questions, o \in Options : Counted(q, o)
  BY <1>2, CountsAreNumbers, NoneCounted DEF Counted
<1> QED  BY <1>1, <1>3 DEF CountInv, Tallied, Resetting, AdminsIdle

(* Answers run while no admin request does, so nothing is being reset.       *)
LEMMA CountPlay ==
  ASSUME TypeOK, regime = "alone", Tallied, NEW p \in Players,
         \/ \E d \in Delegates, q \in Questions, o \in Options : AnswerRead(p, d, q, o)
         \/ AnswerInsert(p) \/ AnswerCount(p) \/ PlayerDies(p)
  PROVE  Tallied'
<1> USE DEF PlayTo, store
<1>1. /\ AdminsIdle /\ adm' = adm /\ mortal' = mortal
      /\ \A v \in Players \ {p} : play'[v] = play[v]
  BY DEF Tallied, PlayersIdle, AnswerRead, AnswerInsert, AnswerCount, PlayerDies, TypeOK, setting
<1>2. \A q \in Questions : ~Resetting(q) /\ ~Resetting(q)'
  BY <1>1 DEF AdminsIdle, Resetting
<1>3. SUFFICES \A q \in Questions, o \in Options : Counted(q, o)'
  BY <1>1, <1>2 DEF Tallied, AdminsIdle
<1>4. \A q \in Questions, o \in Options : counter[q][o] \in Nat /\ Counted(q, o)
  BY <1>2 DEF TypeOK, Tallied
<1>5. play[p] \in PlaySlot
  BY DEF TypeOK
<1>6. ASSUME UNCHANGED <<chosen, counter>>, play[p].pc # "inserted", play'[p].pc # "inserted",
             NEW q \in Questions, NEW o \in Options
      PROVE  Counted(q, o)'
  <2>1. Pending(q, o)' = Pending(q, o) /\ Holders(q, o)' = Holders(q, o)
    BY <1>1, <1>6 DEF Pending, Holders
  <2> QED  BY <1>1, <1>4, <1>6, <2>1, CountsAreNumbers DEF Counted
<1>7. CASE \E d \in Delegates, q \in Questions, o \in Options : AnswerRead(p, d, q, o)
  BY <1>6, <1>7 DEF AnswerRead, TypeOK, NoPlay
(* The answer under way, and the pair of question and option it counts for. *)
<1>8. ASSUME play[p].pc # "idle"
      PROVE  play[p].delegate \in Delegates /\ play[p].question \in Questions /\ play[p].option \in Options
  BY <1>5, <1>8 DEF PlaySlot, PlayType
<1>9. CASE AnswerInsert(p)
  <2>1. PICK d \in Delegates, q \in Questions, o \in Options :
          d = play[p].delegate /\ q = play[p].question /\ o = play[p].option
    BY <1>8, <1>9 DEF AnswerInsert
  <2>2. play[p].pc = "checked" /\ counter' = counter
    BY <1>9 DEF AnswerInsert
  <2>3. CASE chosen[d][q] # None
    BY <1>6, <1>9, <2>1, <2>2, <2>3 DEF AnswerInsert, TypeOK, NoPlay
  <2>4. CASE chosen[d][q] = None
    <3>1. /\ \A e \in Delegates, r \in Questions :
               chosen'[e][r] = IF e = d /\ r = q THEN o ELSE chosen[e][r]
          /\ play' = [play EXCEPT ![p] = [play[p] EXCEPT !.pc = "inserted"]]
      BY <1>9, <2>1, <2>4 DEF AnswerInsert, TypeOK
    <3>2. play'[p].pc = "inserted" /\ play'[p].question = q /\ play'[p].option = o
      BY <1>5, <2>1, <3>1 DEF TypeOK, PlaySlot, PlayType
    <3>3. o # None /\ \A x \in Options : x # None
      BY NoneIsNoValue
    <3>4. /\ Holders(q, o)' = Holders(q, o) \cup {d} /\ d \notin Holders(q, o)
          /\ Pending(q, o)' = Pending(q, o) \cup {p} /\ p \notin Pending(q, o)
      BY <1>1, <2>2, <2>4, <3>1, <3>2, <3>3 DEF Holders, Pending
    <3>5. \A r \in Questions, x \in Options : r # q \/ x # o =>
            Holders(r, x)' = Holders(r, x) /\ Pending(r, x)' = Pending(r, x)
      BY <1>1, <2>2, <2>4, <3>1, <3>2, <3>3 DEF Holders, Pending
    <3>6. Answers(q, o)' = Answers(q, o) + 1 /\ Uncounted(q, o)' = Uncounted(q, o) + 1
      BY <3>4, CountsAreNumbers, FS_AddElement
    <3>7. \A r \in Questions, x \in Options : r # q \/ x # o =>
            Answers(r, x)' = Answers(r, x) /\ Uncounted(r, x)' = Uncounted(r, x)
      BY <3>5, CountsAreNumbers
    <3>8. Counted(q, o)'
      BY <1>1, <1>4, <2>2, <3>6, CountsAreNumbers DEF Counted
    <3>9. \A r \in Questions, x \in Options : r # q \/ x # o => Counted(r, x)'
      BY <1>1, <1>4, <2>2, <3>7, CountsAreNumbers DEF Counted
    <3> QED  BY <3>8, <3>9
  <2> QED  BY <2>3, <2>4
(* An inserted answer is done with: counted, or dead.                       *)
<1>10. ASSUME play[p].pc = "inserted", play'[p].pc = "idle", chosen' = chosen,
              NEW q \in Questions, NEW o \in Options, q = play[p].question, o = play[p].option
       PROVE  /\ Uncounted(q, o)' + 1 = Uncounted(q, o) /\ Uncounted(q, o)' \in Nat
              /\ Answers(q, o)' = Answers(q, o)
              /\ \A r \in Questions, x \in Options : r # q \/ x # o =>
                   Answers(r, x)' = Answers(r, x) /\ Uncounted(r, x)' = Uncounted(r, x)
  <2>2. Pending(q, o)' = Pending(q, o) \ {p} /\ p \in Pending(q, o)
    BY <1>1, <1>10 DEF Pending
  <2>3. \A r \in Questions, x \in Options : r # q \/ x # o => Pending(r, x)' = Pending(r, x)
    BY <1>1, <1>10 DEF Pending
  <2>4. \A r \in Questions, x \in Options : Holders(r, x)' = Holders(r, x)
    BY <1>10 DEF Holders
  <2>5. Cardinality(Pending(q, o) \ {p}) = Cardinality(Pending(q, o)) - 1
    BY <2>2, CountsAreNumbers, FS_RemoveElement
  <2>6. Cardinality(Pending(q, o) \ {p}) \in Nat
    BY <2>2, CountsAreNumbers, FS_RemoveElement, FS_CardinalityType
  <2>7. Uncounted(q, o)' + 1 = Uncounted(q, o) /\ Uncounted(q, o)' \in Nat
    BY <2>2, <2>5, <2>6, CountsAreNumbers
  <2>8. Answers(q, o)' = Answers(q, o)
    BY <2>4, CountsAreNumbers
  <2>9. \A r \in Questions, x \in Options : r # q \/ x # o =>
          Answers(r, x)' = Answers(r, x) /\ Uncounted(r, x)' = Uncounted(r, x)
    BY <2>3, <2>4, CountsAreNumbers
  <2> QED  BY <2>7, <2>8, <2>9
<1>11. CASE AnswerCount(p)
  <2>1. PICK q \in Questions, o \in Options : q = play[p].question /\ o = play[p].option
    BY <1>8, <1>11 DEF AnswerCount
  <2>2. /\ play[p].pc = "inserted" /\ play'[p].pc = "idle" /\ chosen' = chosen
        /\ counter' = [counter EXCEPT ![q][o] = @ + 1]
    BY <1>11, <2>1 DEF AnswerCount, TypeOK, NoPlay
  <2>3. /\ Uncounted(q, o)' + 1 = Uncounted(q, o) /\ Uncounted(q, o)' \in Nat
        /\ Answers(q, o)' = Answers(q, o)
        /\ \A r \in Questions, x \in Options : r # q \/ x # o =>
             Answers(r, x)' = Answers(r, x) /\ Uncounted(r, x)' = Uncounted(r, x)
    BY <1>10, <2>1, <2>2
  <2>4. /\ counter'[q][o] = counter[q][o] + 1
        /\ \A r \in Questions, x \in Options : r # q \/ x # o => counter'[r][x] = counter[r][x]
    BY <2>2, <2>3 DEF TypeOK
  <2>5. Counted(q, o)'
    BY <1>1, <1>4, <2>3, <2>4, CountsAreNumbers DEF Counted
  <2>6. \A r \in Questions, x \in Options : r # q \/ x # o => Counted(r, x)'
    BY <1>1, <1>4, <2>3, <2>4, CountsAreNumbers DEF Counted
  <2> QED  BY <2>5, <2>6
<1>12. CASE PlayerDies(p)
  <2>1. /\ mortal = "players" /\ UNCHANGED <<chosen, counter>>
        /\ play'[p].pc = "idle" /\ play[p].pc \in {"checked", "inserted"}
    BY <1>5, <1>12 DEF PlayerDies, TypeOK, NoPlay, PlaySlot, PlayType
  <2>2. CASE play[p].pc = "checked"
    BY <1>6, <2>1, <2>2
  <2>3. CASE play[p].pc = "inserted"
    <3>1. PICK q \in Questions, o \in Options : q = play[p].question /\ o = play[p].option
      BY <1>8, <2>3
    <3>2. /\ Uncounted(q, o)' + 1 = Uncounted(q, o) /\ Uncounted(q, o)' \in Nat
          /\ Answers(q, o)' = Answers(q, o)
          /\ \A r \in Questions, x \in Options : r # q \/ x # o =>
               Answers(r, x)' = Answers(r, x) /\ Uncounted(r, x)' = Uncounted(r, x)
      BY <1>10, <2>1, <2>3, <3>1
    <3>3. Counted(q, o)'
      BY <1>1, <1>4, <2>1, <3>2, CountsAreNumbers DEF Counted
    <3>4. \A r \in Questions, x \in Options : r # q \/ x # o => Counted(r, x)'
      BY <1>1, <1>4, <2>1, <3>2, CountsAreNumbers DEF Counted
    <3> QED  BY <3>3, <3>4
  <2> QED  BY <2>1, <2>2, <2>3
<1> QED  BY <1>7, <1>9, <1>11, <1>12

(* A removal takes the answers, then resets the counters.                   *)
LEMMA CountDesk ==
  ASSUME TypeOK, regime = "alone", AtDesk, mortal # "admins", Tallied, NEW a \in Admins, DeskMove(a)
  PROVE  Tallied'
<1> DEFINE s == adm[a]
<1> USE DEF AdmTo, store
<1>1. /\ PlayersIdle /\ play' = play /\ mortal' = mortal
      /\ \A b \in Admins \ {a} : adm[b].pc = "idle" /\ adm'[b] = adm[b]
  <2>1. PlayersIdle
    <3>1. CASE s.pc = "idle"
      BY <3>1 DEF DeskMove, AdminRead, AdminMayBegin, PushClosesOthers, SaveReload, SaveWrite, AdminEmit,
                  RemoveAnswers, RemoveCounter, RemoveRow, AdminDies
    <3> QED  BY <3>1 DEF Tallied, AdminsIdle
  <2>2. play' = play /\ mortal' = mortal
    BY DEF DeskMove, AdminRead, PushClosesOthers, SaveReload, SaveWrite, AdminEmit,
           RemoveAnswers, RemoveCounter, RemoveRow, AdminDies, setting
  <2> QED  BY <2>1, <2>2, AloneAtDesk DEF OneDesk
<1>2. \A q \in Questions : /\ Resetting(q) <=> s.pc = "counter" /\ s.question = q
                           /\ Resetting(q)' <=> adm'[a].pc = "counter" /\ adm'[a].question = q
  BY <1>1 DEF Resetting
<1>3. s \in AdminType /\ (s.pc # "idle" => s.question \in Questions)
  BY DEF TypeOK, AdminSlot, AdminType
<1>4. ASSUME \A r \in Questions : Resetting(r)' => \A d \in Delegates : chosen'[d][r] = None,
             \A r \in Questions, o \in Options : Resetting(r)' \/ Counted(r, o)'
      PROVE  Tallied'
  BY <1>1, <1>4 DEF Tallied, PlayersIdle
<1>5. ASSUME NEW r \in Questions, NEW o \in Options, \A d \in Delegates : chosen'[d][r] = chosen[d][r],
             counter'[r] = counter[r], Counted(r, o)
      PROVE  Counted(r, o)'
  <2>1. Holders(r, o)' = Holders(r, o) /\ Pending(r, o)' = Pending(r, o)
    BY <1>1, <1>5 DEF Holders, Pending
  <2> QED  BY <1>1, <1>5, <2>1, CountsAreNumbers DEF Counted
<1>6. CASE RemoveAnswers(a)
  <2>1. PICK q \in Questions : q = s.question
    BY <1>3, <1>6 DEF RemoveAnswers
  <2>2. /\ s.pc = "answers" /\ counter' = counter
        /\ adm' = [adm EXCEPT ![a] = [s EXCEPT !.pc = "counter"]]
        /\ chosen' = [d \in Delegates |-> [chosen[d] EXCEPT ![q] = None]]
    BY <1>6, <2>1 DEF RemoveAnswers
  <2>3. adm'[a].pc = "counter" /\ adm'[a].question = q
    BY <1>3, <2>1, <2>2 DEF TypeOK, AdminType
  <2>4. \A d \in Delegates : chosen'[d][q] = None /\ \A r \in Questions \ {q} : chosen'[d][r] = chosen[d][r]
    BY <2>2 DEF TypeOK
  <2>5. \A r \in Questions, o \in Options : Counted(r, o)
    BY <1>2, <2>2 DEF Tallied
  <2> QED  BY <1>2, <1>4, <1>5, <2>2, <2>3, <2>4, <2>5
<1>7. CASE RemoveCounter(a)
  <2>1. PICK q \in Questions : q = s.question
    BY <1>3, <1>7 DEF RemoveCounter
  <2>2. /\ s.pc = "counter" /\ chosen' = chosen /\ counter' = [counter EXCEPT ![q] = Zeros]
        /\ adm' = [adm EXCEPT ![a] = [s EXCEPT !.pc = "row"]]
    BY <1>7, <2>1 DEF RemoveCounter
  <2>3. adm'[a].pc = "row"
    BY <1>3, <2>2 DEF TypeOK, AdminType
  <2>4. \A o \in Options : Counted(q, o)'
    <3> SUFFICES ASSUME NEW o \in Options PROVE Counted(q, o)'
      OBVIOUS
    <3>1. Holders(q, o)' = {}
      BY <1>2, <2>1, <2>2, NoneIsNoValue DEF Tallied, Holders
    <3>2. Pending(q, o)' = {}
      BY <1>1 DEF PlayersIdle, Pending
    <3>3. counter'[q][o] = 0
      BY <2>2 DEF TypeOK, Zeros
    <3> QED  BY <3>1, <3>2, <3>3, CountsAreNumbers, NoneCounted DEF Counted
  <2>5. \A r \in Questions \ {q} : counter'[r] = counter[r]
    BY <2>2 DEF TypeOK
  <2>6. \A r \in Questions \ {q}, o \in Options : Counted(r, o)
    BY <1>2, <2>1 DEF Tallied
  <2>7. \A r \in Questions \ {q}, o \in Options : Counted(r, o)'
    BY <1>5, <2>2, <2>5, <2>6
  <2> QED  BY <1>2, <1>4, <2>3, <2>4, <2>7
<1>8. ASSUME s.pc # "counter", adm'[a].pc # "counter", UNCHANGED <<chosen, counter>> PROVE Tallied'
  <2>1. \A r \in Questions, o \in Options : Counted(r, o)
    BY <1>2, <1>8 DEF Tallied
  <2> QED  BY <1>2, <1>4, <1>5, <1>8, <2>1
<1>9. ~AdminDies(a)
  BY DEF AdminDies
<1>10. CASE \E act \in {"push", "close", "update", "remove"}, q \in Questions : AdminRead(a, act, q)
  BY <1>8, <1>10 DEF AdminRead, TypeOK, NoAdmin, FirstStep
<1>11. CASE PushClosesOthers(a) \/ SaveReload(a) \/ SaveWrite(a) \/ AdminEmit(a) \/ RemoveRow(a)
  <2>1. s.pc # "counter" /\ UNCHANGED <<chosen, counter>>
    BY <1>11 DEF PushClosesOthers, SaveReload, SaveWrite, AdminEmit, RemoveRow
  <2>2. \/ \E pc \in {"saving", "emitting"} : adm' = [adm EXCEPT ![a] = [s EXCEPT !.pc = pc]]
        \/ \E put : adm' = [adm EXCEPT ![a] = [s EXCEPT !.pc = "writing", !.put = put]]
        \/ adm' = [adm EXCEPT ![a] = NoAdmin]
    BY <1>11 DEF PushClosesOthers, SaveReload, SaveWrite, AdminEmit, RemoveRow
  <2>3. adm'[a].pc # "counter"
    <3>1. \A x : adm' = [adm EXCEPT ![a] = x] => adm'[a] = x
      BY DEF TypeOK
    <3>2. \A pc \in {"saving", "emitting"} : [s EXCEPT !.pc = pc].pc # "counter"
      BY <1>3 DEF AdminType
    <3>3. \A put : [s EXCEPT !.pc = "writing", !.put = put].pc # "counter"
      BY <1>3 DEF AdminType
    <3>4. NoAdmin.pc # "counter"
      BY DEF NoAdmin
    <3> QED  BY <2>2, <3>1, <3>2, <3>3, <3>4
  <2> QED  BY <1>8, <2>1, <2>3
<1> QED  BY <1>6, <1>7, <1>9, <1>10, <1>11 DEF DeskMove

LEMMA CountStep == CountInv /\ [Next]_vars => CountInv'
<1> SUFFICES ASSUME CountInv, [Next]_vars PROVE CountInv'
  OBVIOUS
<1>1. LiveInv /\ LiveInv' /\ TypeOK
  BY LiveStep DEF CountInv, LiveInv
<1>2. UNCHANGED setting
  BY DEF Next, vars, Create, AnswerRead, AnswerInsert, AnswerCount, PlayerDies, PlayTo, AdminRead,
         PushClosesOthers, SaveReload, SaveWrite, AdminEmit, RemoveAnswers, RemoveCounter, RemoveRow,
         AdminDies, AdmTo
<1> SUFFICES ASSUME regime = "alone", mortal # "admins", Tallied PROVE Tallied'
  BY <1>1, <1>2 DEF CountInv, setting
<1>3. AtDesk
  BY <1>1 DEF LiveInv, Live, OneDesk
<1>4. ASSUME UNCHANGED <<chosen, counter, play, adm, mortal>> PROVE Tallied'
  BY <1>4 DEF Tallied, AdminsIdle, PlayersIdle, Resetting, Counted, Uncounted, Answers
<1>5. ASSUME NEW q \in Questions, Create(q) PROVE Tallied'
  BY <1>4, <1>5 DEF Create, setting
<1>6. CASE UNCHANGED vars
  BY <1>4, <1>6 DEF vars, store, setting
<1> QED  BY <1>1, <1>3, <1>5, <1>6, CountPlay, CountDesk DEF Next, DeskMove

(* answer and remove keep Redis and the answers table in step, whichever    *)
(* answers overlap and die, while no admin request runs beside them.        *)
THEOREM CountersAreAnswers == Spec => []CountsMatchAnswers
<1>1. CountInv => CountsMatchAnswers
  BY DEF CountInv, Tallied, Counted, Resetting, CountsMatchAnswers
<1> QED  BY <1>1, CountInit, CountStep, PTL DEF Spec
=============================================================================
