----------------------------- MODULE VotingProofs -----------------------------
(***************************************************************************)
(* Proofs about the ballot, for any number of delegates, topics, pitches   *)
(* and requests in flight.  The second half is about the time when no admin *)
(* request overlaps anything: where ballots stand, what a close counts,     *)
(* what the screens show, and that Voting implements the abstract ballot of *)
(* PitchBallot.                                                            *)
(***************************************************************************)
EXTENDS VotingProperties, FiniteSetTheorems, TLAPS

(* A tally counts a finite set of votes for each pitch.                    *)
LEMMA TallyType ==
  ASSUME NEW v, NEW t
  PROVE  Tally(v, t) \in Tallies
<1>1. \A e \in Entries : Cardinality({d \in Delegates : v[d][t] = e}) \in Nat
  <2> TAKE e \in Entries
  <2>1. IsFiniteSet({d \in Delegates : v[d][t] = e})
    BY DelegatesFinite, FS_Subset
  <2> QED  BY <2>1, FS_CardinalityType
<1> QED  BY <1>1 DEF Tally, Tallies

LEMMA NoneIsNoTally == None \notin Tallies
BY NoneIsNothing DEF Tallies

(* The slots a request passes through are well formed.                     *)
LEMMA IdleSlots == NoCast \in CastSlot /\ NoAdmin \in AdminSlot
BY DEF NoCast, NoAdmin, CastSlot, AdminSlot, CastType, AdminType, CastPc, TopicPc,
       EntryPc, SavePc, ClosePc, MovePc, EditPc, RemoveEntryPc, NoVotes, Tallies

LEMMA CastToType ==
  ASSUME NEW c \in Casts, NEW slot \in CastSlot, TypeOK, CastTo(c, slot)
  PROVE  cast' \in [Casts -> CastSlot] /\ adm' \in [Admins -> AdminSlot]
BY DEF TypeOK, CastTo

LEMMA AdmToType ==
  ASSUME NEW a \in Admins, NEW slot \in AdminSlot, TypeOK, AdmTo(a, slot)
  PROVE  cast' \in [Casts -> CastSlot] /\ adm' \in [Admins -> AdminSlot]
BY DEF TypeOK, AdmTo

(* Every admin request begins with a well formed slot.                      *)
LEMMA StartOfAdmin ==
  ASSUME TypeOK, NEW a \in Admins, AdminStart(a)
  PROVE  \E slot \in AdminSlot : Begin(a, slot)
<1> USE NoneIsNothing
    DEF TypeOK, NoAdmin, AdminSlot, AdminType, TopicEntity, EntryEntity, TopicPc, EntryPc,
        SavePc, ClosePc, MovePc, EditPc, RemoveEntryPc, TopicVoting
<1>1. ASSUME NEW t \in Topics, voting[t] # None
      PROVE  /\ TopicEntity("saving", t) \in AdminSlot
             /\ [TopicEntity("saving", t) EXCEPT !.voting = "open"] \in AdminSlot
  <2>1. PICK x : x = TopicEntity("saving", t)
    OBVIOUS
  <2>2. x \in AdminSlot /\ x.pc = "saving"
    BY <1>1, <2>1
  <2>3. [x EXCEPT !.voting = "open"] \in AdminSlot
    BY <2>2
  <2> QED  BY <2>1, <2>2, <2>3
<1>2. \A pc \in {"editing", "rmEntry"}, e \in Entries :
        entries[e] # None => EntryEntity(pc, e) \in AdminSlot
  OBVIOUS
<1>3. \A pc \in {"closing", "rmTopic"}, t \in Topics :
        [NoAdmin EXCEPT !.pc = pc, !.topic = t] \in AdminSlot
  OBVIOUS
<1>4. \A e \in Entries, t \in Topics :
        [NoAdmin EXCEPT !.pc = "moving", !.entry = e, !.topic = t] \in AdminSlot
  OBVIOUS
<1> HIDE DEF AdminSlot
<1> QED
  BY <1>1, <1>2, <1>3, <1>4
     DEF AdminStart, UpdateTopicRead, OpenVotingRead, CloseVotingLock, RemoveTopicRead,
         EditEntryRead, RemoveEntryRead, MoveEntryLock

-----------------------------------------------------------------------------
(* Type correctness, one step per action.                                   *)
LEMMA TypeInit == Init => TypeOK
BY IdleSlots DEF Init, TypeOK, NoVotes, Tallies

LEMMA TypeStep == TypeOK /\ [Next]_vars => TypeOK'
<1> SUFFICES ASSUME TypeOK, [Next]_vars PROVE TypeOK'
  OBVIOUS
<1> USE DEF vars, tables, topicRows, ballots, rooms, setting
<1>1. ASSUME NEW t \in Topics, CreateTopic(t) PROVE TypeOK'
  BY <1>1 DEF CreateTopic, TypeOK, TopicVoting
<1>2. ASSUME NEW e \in Entries, NEW t \in Topics, CreateEntry(e, t) PROVE TypeOK'
  BY <1>2 DEF CreateEntry, TypeOK
<1>3. ASSUME NEW c \in Casts, NEW d \in Delegates, NEW e \in Entries, CastRead(c, d, e)
      PROVE  TypeOK'
  <2>1. [NoCast EXCEPT !.pc = "checked", !.delegate = d, !.entry = e, !.topic = entries[e]]
          \in CastSlot
    BY <1>3, IdleSlots, NoneIsNothing DEF CastRead, TypeOK, CastSlot, CastType, CastPc, NoCast
  <2> QED  BY <1>3, <2>1, CastToType DEF CastRead, TypeOK
<1>4. ASSUME NEW c \in Casts, CastStep(c) PROVE TypeOK'
  <2> DEFINE s == cast[c]
  <2>0. /\ s \in CastSlot
        /\ s.pc # "idle" => s.delegate \in Delegates /\ s.entry \in Entries /\ s.topic \in Topics
    BY DEF TypeOK, CastSlot, CastType
  <2>1. CASE CastPrevious(c)
    <3>1. \A p \in Entries \cup {None}, pc \in {"wrote", "writing"} :
            [s EXCEPT !.prev = p, !.pc = pc] \in CastSlot
      BY <2>0, <2>1 DEF CastPrevious, CastSlot, CastType, CastPc
    <3>2. vote[s.delegate][s.topic] \in Entries \cup {None}
      BY <2>0, <2>1 DEF CastPrevious, TypeOK
    <3>3. PICK slot \in CastSlot : CastTo(c, slot)
      BY <2>1, <3>1, <3>2 DEF CastPrevious
    <3> QED  BY <2>1, <3>3, CastToType DEF CastPrevious, TypeOK
  <2>2. CASE CastUpsert(c)
    <3>1. [s EXCEPT !.pc = "wrote"] \in CastSlot
      BY <2>0, <2>2 DEF CastUpsert, CastSlot, CastType, CastPc
    <3> QED  BY <2>2, <3>1, CastToType DEF CastUpsert, TypeOK
  <2>3. CASE CastCount(c)
    <3>1. [s EXCEPT !.pc = "counted", !.tally = Tally(OwnView(c), s.topic)] \in CastSlot
      BY <2>0, <2>3, TallyType DEF CastCount, CastSlot, CastType, CastPc
    <3> QED  BY <2>3, <3>1, CastToType DEF CastCount, TypeOK
  <2>4. CASE CastCommit(c)
    <3>1. [s EXCEPT !.pc = "emitting"] \in CastSlot
      BY <2>0, <2>4 DEF CastCommit, CastSlot, CastType, CastPc
    <3>2. vote' \in [Delegates -> [Topics -> Entries \cup {None}]]
      BY <2>0, <2>4 DEF CastCommit, TypeOK, OwnView
    <3>3. events' \subseteq Delegates \X Topics \X Entries
      BY <2>0, <2>4 DEF CastCommit, TypeOK
    <3> QED  BY <2>4, <3>1, <3>2, <3>3, CastToType DEF CastCommit, TypeOK
  <2>5. CASE CastEmit(c)
    <3>1. heard' \in [Topics -> Tallies]
      BY <2>0, <2>5 DEF CastEmit, TypeOK, CastSlot, CastType
    <3> QED  BY <2>5, <3>1, IdleSlots, CastToType DEF CastEmit, TypeOK
  <2> QED  BY <1>4, <2>1, <2>2, <2>3, <2>4, <2>5 DEF CastStep
<1>5. ASSUME NEW c \in Casts, CastDies(c) PROVE TypeOK'
  BY <1>5, IdleSlots, CastToType DEF CastDies, TypeOK
<1>6. ASSUME NEW a \in Admins, AdminStart(a) PROVE TypeOK'
  <2>1. \E slot \in AdminSlot : Begin(a, slot)
    BY <1>6, StartOfAdmin
  <2> QED  BY <2>1, AdmToType DEF Begin, TypeOK
<1>7. ASSUME NEW a \in Admins, AdminStep(a) PROVE TypeOK'
  <2> DEFINE s == adm[a]
  <2>0. /\ s \in AdminSlot
        /\ s.pc # "idle" => s.topic \in Topics
        /\ s.pc \in EntryPc => s.entry \in Entries
        /\ s.pc \in SavePc => s.voting \in TopicVoting
    BY DEF TypeOK, AdminSlot, AdminType
  <2> USE DEF EntryPc, TopicPc, SavePc, ClosePc, MovePc, EditPc, RemoveEntryPc
  <2>1. CASE SaveTopicReload(a)
    <3>1. \A pc \in {"insertTopic", "saveTopic"}, D \in SUBSET {"voting", "result", "topicId"} :
            [s EXCEPT !.pc = pc, !.dirty = D] \in AdminSlot
      BY <2>0, <2>1 DEF SaveTopicReload, AdminSlot, AdminType
    <3>2. PICK slot \in AdminSlot : AdmTo(a, slot)
      BY <2>1, <3>1 DEF SaveTopicReload
    <3> QED  BY <2>1, <3>2, AdmToType DEF SaveTopicReload, TypeOK
  <2>2. CASE SaveTopicWrite(a)
    <3>1. /\ voting' \in [Topics -> TopicVoting \cup {None}]
          /\ result' \in [Topics -> Tallies \cup {None}]
      BY <2>0, <2>2 DEF SaveTopicWrite, TypeOK, AdminSlot, AdminType
    <3> QED  BY <2>2, <3>1, IdleSlots, AdmToType DEF SaveTopicWrite, TypeOK
  <2>3. CASE CloseVotingAnnounce(a)
    <3>0. \A r \in Tallies : [s EXCEPT !.pc = "closeSaved", !.result = r] \in AdminSlot
      BY <2>0, <2>3, NoneIsNoTally DEF CloseVotingAnnounce, AdminSlot, AdminType
    <3>1. [s EXCEPT !.pc = "closeSaved", !.result = Tally(vote, s.topic)] \in AdminSlot
      BY <3>0, TallyType
    <3>2. announced' \in [Topics -> Tallies \cup {None}]
      BY <2>0, <2>3, TallyType DEF CloseVotingAnnounce, TypeOK
    <3> QED  BY <2>3, <3>1, <3>2, AdmToType DEF CloseVotingAnnounce, TypeOK
  <2>4. CASE CloseVotingCommit(a)
    <3>1. /\ voting' \in [Topics -> TopicVoting \cup {None}]
          /\ result' \in [Topics -> Tallies \cup {None}]
      BY <2>0, <2>4 DEF CloseVotingCommit, TypeOK, AdminSlot, AdminType, TopicVoting
    <3> QED  BY <2>4, <3>1, IdleSlots, AdmToType DEF CloseVotingCommit, TypeOK
  <2>5. CASE RemoveTopicVotes(a)
    <3>1. [s EXCEPT !.pc = "rmTopicVotes"] \in AdminSlot
      BY <2>0, <2>5 DEF RemoveTopicVotes, AdminSlot, AdminType
    <3> QED  BY <2>0, <2>5, <3>1, AdmToType DEF RemoveTopicVotes, TypeOK
  <2>6. CASE RemoveTopicRow(a)
    BY <2>0, <2>6, IdleSlots, AdmToType DEF RemoveTopicRow, TypeOK, NoVotes, Tallies
  <2>7. CASE SaveEntryReload(a)
    <3>1. \A pc \in {"insertEntry", "saveEntry"}, D \in SUBSET {"voting", "result", "topicId"} :
            [s EXCEPT !.pc = pc, !.dirty = D] \in AdminSlot
      BY <2>0, <2>7 DEF SaveEntryReload, AdminSlot, AdminType
    <3>2. PICK slot \in AdminSlot : AdmTo(a, slot)
      BY <2>7, <3>1 DEF SaveEntryReload
    <3> QED  BY <2>7, <3>2, AdmToType DEF SaveEntryReload, TypeOK
  <2>8. CASE SaveEntryWrite(a)
    <3>1. entries' \in [Entries -> Topics \cup {None}]
      BY <2>0, <2>8 DEF SaveEntryWrite, TypeOK
    <3> QED  BY <2>8, <3>1, IdleSlots, AdmToType DEF SaveEntryWrite, TypeOK
  <2>9. CASE MoveEntryCheck(a)
    <3>1. [s EXCEPT !.pc = "moveChecked"] \in AdminSlot
      BY <2>0, <2>9 DEF MoveEntryCheck, AdminSlot, AdminType
    <3>2. PICK slot \in AdminSlot : AdmTo(a, slot)
      BY <2>9, <3>1, IdleSlots DEF MoveEntryCheck
    <3> QED  BY <2>9, <3>2, AdmToType DEF MoveEntryCheck, TypeOK
  <2>10. CASE MoveEntrySave(a)
    <3>1. entries' \in [Entries -> Topics \cup {None}]
      BY <2>0, <2>10 DEF MoveEntrySave, TypeOK
    <3> QED  BY <2>10, <3>1, IdleSlots, AdmToType DEF MoveEntrySave, TypeOK
  <2>11. CASE RemoveEntryVotes(a)
    <3>1. [s EXCEPT !.pc = "rmEntryVotes"] \in AdminSlot
      BY <2>0, <2>11 DEF RemoveEntryVotes, AdminSlot, AdminType
    <3> QED  BY <2>0, <2>11, <3>1, AdmToType DEF RemoveEntryVotes, TypeOK
  <2>12. CASE RemoveEntryRow(a)
    <3>1. [s EXCEPT !.pc = "rmEntryGone"] \in AdminSlot
      BY <2>0, <2>12 DEF RemoveEntryRow, AdminSlot, AdminType
    <3> QED  BY <2>0, <2>12, <3>1, AdmToType DEF RemoveEntryRow, TypeOK
  <2>13. CASE RemoveEntryEmit(a)
    <3>1. heard' \in [Topics -> Tallies]
      BY <2>0, <2>13, TallyType DEF RemoveEntryEmit, TypeOK
    <3> QED  BY <2>13, <3>1, IdleSlots, AdmToType DEF RemoveEntryEmit, TypeOK
  <2> QED  BY <1>7, <2>1, <2>2, <2>3, <2>4, <2>5, <2>6, <2>7, <2>8, <2>9, <2>10, <2>11,
              <2>12, <2>13 DEF AdminStep
<1>8. ASSUME NEW a \in Admins, AdminDies(a) PROVE TypeOK'
  BY <1>8, IdleSlots, AdmToType DEF AdminDies, TypeOK
<1>9. CASE UNCHANGED vars
  BY <1>9 DEF TypeOK
<1> QED  BY <1>1, <1>2, <1>3, <1>4, <1>5, <1>6, <1>7, <1>8, <1>9 DEF Next

(* Every reachable state is well typed.                                     *)
THEOREM TypeCorrect == Spec => []TypeOK
BY TypeInit, TypeStep, PTL DEF Spec

-----------------------------------------------------------------------------
(* The life of an admin request: which step leads from where to where.      *)
Moves ==
  {<<"saving", "saveTopic">>, <<"saving", "insertTopic">>, <<"saveTopic", "idle">>,
   <<"insertTopic", "idle">>, <<"closing", "closeSaved">>, <<"closeSaved", "idle">>,
   <<"rmTopic", "rmTopicVotes">>, <<"rmTopicVotes", "idle">>, <<"editing", "saveEntry">>,
   <<"editing", "insertEntry">>, <<"saveEntry", "idle">>, <<"insertEntry", "idle">>,
   <<"moving", "moveChecked">>, <<"moving", "idle">>, <<"moveChecked", "idle">>,
   <<"rmEntry", "rmEntryVotes">>, <<"rmEntryVotes", "rmEntryGone">>, <<"rmEntryGone", "idle">>}

LEMMA OthersStay ==
  ASSUME TypeOK, NEW a \in Admins, AdminStart(a) \/ AdminStep(a) \/ AdminDies(a)
  PROVE  /\ adm' = [adm EXCEPT ![a] = adm'[a]]
         /\ \A b \in Admins \ {a} : adm'[b] = adm[b]
         /\ UNCHANGED <<cast, setting>>
<1>1. \E slot : AdmTo(a, slot)
  <2>1. CASE AdminStart(a)
    BY <2>1 DEF AdminStart, UpdateTopicRead, OpenVotingRead, CloseVotingLock, RemoveTopicRead,
                EditEntryRead, RemoveEntryRead, MoveEntryLock, Begin
  <2>2. CASE AdminStep(a)
    BY <2>2 DEF AdminStep, SaveTopicReload, SaveTopicWrite, CloseVotingAnnounce,
         CloseVotingCommit, RemoveTopicVotes, RemoveTopicRow, SaveEntryReload, SaveEntryWrite,
         MoveEntryCheck, MoveEntrySave, RemoveEntryVotes, RemoveEntryRow, RemoveEntryEmit
  <2>3. CASE AdminDies(a)
    BY <2>3 DEF AdminDies
  <2> QED  BY <2>1, <2>2, <2>3
<1> QED  BY <1>1 DEF AdmTo, TypeOK, setting

LEMMA BeginMoves ==
  ASSUME TypeOK, NEW a \in Admins, AdminStart(a)
  PROVE  /\ adm[a].pc = "idle"
         /\ AdminMayBegin
         /\ UNCHANGED <<tables, rooms>>
         /\ adm'[a].pc \in {"saving", "closing", "rmTopic", "editing", "rmEntry", "moving"}
<1> USE DEF Begin, AdmTo, TypeOK, NoAdmin, TopicEntity, EntryEntity
<1>1. CASE \E t \in Topics : UpdateTopicRead(a, t)
  BY <1>1 DEF UpdateTopicRead
<1>2. CASE \E t \in Topics : OpenVotingRead(a, t)
  BY <1>2 DEF OpenVotingRead
<1>3. CASE \E t \in Topics : CloseVotingLock(a, t)
  BY <1>3 DEF CloseVotingLock
<1>4. CASE \E t \in Topics : RemoveTopicRead(a, t)
  BY <1>4 DEF RemoveTopicRead
<1>5. CASE \E e \in Entries : EditEntryRead(a, e)
  BY <1>5 DEF EditEntryRead
<1>6. CASE \E e \in Entries : RemoveEntryRead(a, e)
  BY <1>6 DEF RemoveEntryRead
<1>7. CASE \E e \in Entries, t \in Topics : MoveEntryLock(a, e, t)
  BY <1>7 DEF MoveEntryLock
<1> QED  BY <1>1, <1>2, <1>3, <1>4, <1>5, <1>6, <1>7 DEF AdminStart

LEMMA StepMoves ==
  ASSUME TypeOK, NEW a \in Admins, AdminStep(a)
  PROVE  <<adm[a].pc, adm'[a].pc>> \in Moves
<1> USE DEF AdmTo, TypeOK, NoAdmin, Moves
<1>0. adm[a] \in AdminType
  BY DEF AdminSlot
<1> HIDE DEF AdminType
<1>1. CASE SaveTopicReload(a)
  BY <1>0, <1>1 DEF SaveTopicReload, AdminType
<1>2. CASE SaveTopicWrite(a)
  BY <1>0, <1>2 DEF SaveTopicWrite, AdminType
<1>3. CASE CloseVotingAnnounce(a)
  BY <1>0, <1>3 DEF CloseVotingAnnounce, AdminType
<1>4. CASE CloseVotingCommit(a)
  BY <1>0, <1>4 DEF CloseVotingCommit, AdminType
<1>5. CASE RemoveTopicVotes(a)
  BY <1>0, <1>5 DEF RemoveTopicVotes, AdminType
<1>6. CASE RemoveTopicRow(a)
  BY <1>0, <1>6 DEF RemoveTopicRow, AdminType
<1>7. CASE SaveEntryReload(a)
  BY <1>0, <1>7 DEF SaveEntryReload, AdminType
<1>8. CASE SaveEntryWrite(a)
  BY <1>0, <1>8 DEF SaveEntryWrite, AdminType
<1>9. CASE MoveEntryCheck(a)
  BY <1>0, <1>9 DEF MoveEntryCheck, AdminType
<1>10. CASE MoveEntrySave(a)
  BY <1>0, <1>10 DEF MoveEntrySave, AdminType
<1>11. CASE RemoveEntryVotes(a)
  BY <1>0, <1>11 DEF RemoveEntryVotes, AdminType
<1>12. CASE RemoveEntryRow(a)
  BY <1>0, <1>12 DEF RemoveEntryRow, AdminType
<1>13. CASE RemoveEntryEmit(a)
  BY <1>0, <1>13 DEF RemoveEntryEmit, AdminType
<1> QED
  BY <1>1, <1>2, <1>3, <1>4, <1>5, <1>6, <1>7, <1>8, <1>9, <1>10, <1>11, <1>12, <1>13 DEF AdminStep

-----------------------------------------------------------------------------
(* Row locks.  A request that closes a topic keeps every other writer of    *)
(* the row out, so the status it checked under the lock is still there when *)
(* it commits.  Inductive together with the types.                          *)
LEMMA CloseStep == TypeOK /\ CloseHoldsAnOpenRow /\ [Next]_vars => CloseHoldsAnOpenRow'
<1> SUFFICES ASSUME TypeOK, CloseHoldsAnOpenRow, [Next]_vars PROVE CloseHoldsAnOpenRow'
  OBVIOUS
<1> USE DEF vars, tables, topicRows, ballots, rooms, setting, ClosePc
<1>1. ASSUME NEW t \in Topics, CreateTopic(t) PROVE CloseHoldsAnOpenRow'
  BY <1>1 DEF CreateTopic, TypeOK, CloseHoldsAnOpenRow, AdminSlot, AdminType
<1>2. ASSUME UNCHANGED <<voting, adm>> PROVE CloseHoldsAnOpenRow'
  BY <1>2 DEF CloseHoldsAnOpenRow
<1>3. ASSUME NEW e \in Entries, NEW t \in Topics, CreateEntry(e, t) PROVE UNCHANGED <<voting, adm>>
  BY <1>3 DEF CreateEntry
<1>4. ASSUME NEW c \in Casts,
             (\E d \in Delegates, e \in Entries : CastRead(c, d, e)) \/ CastStep(c) \/ CastDies(c)
      PROVE  UNCHANGED <<voting, adm>>
  BY <1>4 DEF CastRead, CastStep, CastDies, CastTo, CastPrevious, CastUpsert, CastCount,
              CastCommit, CastEmit
<1>5. ASSUME NEW a \in Admins, AdminStart(a) \/ AdminStep(a) \/ AdminDies(a),
             adm'[a].pc \notin ClosePc, UNCHANGED voting
      PROVE  CloseHoldsAnOpenRow'
  BY <1>5, OthersStay DEF CloseHoldsAnOpenRow
<1>6. ASSUME NEW a \in Admins, AdminStart(a) PROVE CloseHoldsAnOpenRow'
  <2>1. CASE \E t \in Topics : CloseVotingLock(a, t)
    BY <2>1 DEF CloseVotingLock, Begin, AdmTo, TypeOK, CloseHoldsAnOpenRow, TopicLocked,
                HoldsTopic, NoAdmin
  <2>2. CASE ~\E t \in Topics : CloseVotingLock(a, t)
    <3>1. \/ \E t \in Topics : UpdateTopicRead(a, t) \/ OpenVotingRead(a, t) \/ RemoveTopicRead(a, t)
          \/ \E e \in Entries : EditEntryRead(a, e) \/ RemoveEntryRead(a, e)
          \/ \E e \in Entries, t \in Topics : MoveEntryLock(a, e, t)
      BY <1>6, <2>2 DEF AdminStart
    <3>2. adm'[a].pc # "closing"
      <4> USE DEF Begin, AdmTo, TypeOK, NoAdmin
      <4>1. CASE \E t \in Topics : UpdateTopicRead(a, t) \/ OpenVotingRead(a, t)
        <5>1. PICK t \in Topics : UpdateTopicRead(a, t) \/ OpenVotingRead(a, t)
          BY <4>1
        <5> DEFINE x == TopicEntity("saving", t)
        <5>2. Begin(a, x) \/ Begin(a, [x EXCEPT !.voting = "open"])
          BY <5>1 DEF UpdateTopicRead, OpenVotingRead
        <5>3. x.pc = "saving" /\ [x EXCEPT !.voting = "open"].pc = "saving"
          BY DEF TopicEntity
        <5> HIDE DEF x
        <5> QED  BY <5>2, <5>3
      <4>2. CASE \E t \in Topics : RemoveTopicRead(a, t)
        BY <4>2 DEF RemoveTopicRead
      <4>3. CASE \E e \in Entries : EditEntryRead(a, e) \/ RemoveEntryRead(a, e)
        <5>1. PICK e \in Entries, pc \in {"editing", "rmEntry"} : Begin(a, EntryEntity(pc, e))
          BY <4>3 DEF EditEntryRead, RemoveEntryRead
        <5> DEFINE x == EntryEntity(pc, e)
        <5>2. Begin(a, x)
          BY <5>1
        <5>3. x.pc = pc
          BY DEF EntryEntity
        <5> HIDE DEF x
        <5> QED  BY <5>2, <5>3
      <4>4. CASE \E e \in Entries, t \in Topics : MoveEntryLock(a, e, t)
        BY <4>4 DEF MoveEntryLock
      <4> QED  BY <3>1, <4>1, <4>2, <4>3, <4>4
    <3> QED  BY <1>5, <1>6, <3>2, BeginMoves DEF tables, topicRows
  <2> QED  BY <2>1, <2>2
<1>7. ASSUME NEW a \in Admins, AdminStep(a) PROVE CloseHoldsAnOpenRow'
  <2>1. CASE SaveTopicWrite(a)
    BY <2>1 DEF SaveTopicWrite, AdmTo, TypeOK, AdminSlot, AdminType, CloseHoldsAnOpenRow,
                TopicLocked, HoldsTopic, NoAdmin
  <2>2. CASE CloseVotingAnnounce(a)
    BY <2>2 DEF CloseVotingAnnounce, AdmTo, TypeOK, CloseHoldsAnOpenRow
  <2>3. CASE CloseVotingCommit(a)
    BY <2>3 DEF CloseVotingCommit, AdmTo, TypeOK, AdminSlot, AdminType, CloseHoldsAnOpenRow, NoAdmin
  <2>4. CASE RemoveTopicRow(a)
    BY <2>4 DEF RemoveTopicRow, AdmTo, TypeOK, AdminSlot, AdminType, CloseHoldsAnOpenRow,
                TopicLocked, HoldsTopic, NoAdmin
  <2>5. CASE \/ SaveTopicReload(a) \/ RemoveTopicVotes(a) \/ SaveEntryReload(a)
             \/ SaveEntryWrite(a) \/ MoveEntryCheck(a) \/ MoveEntrySave(a)
             \/ RemoveEntryVotes(a) \/ RemoveEntryRow(a) \/ RemoveEntryEmit(a)
    <3>1. UNCHANGED voting /\ adm[a].pc \notin ClosePc
      BY <2>5 DEF SaveTopicReload, RemoveTopicVotes, SaveEntryReload, SaveEntryWrite,
           MoveEntryCheck, MoveEntrySave, RemoveEntryVotes, RemoveEntryRow, RemoveEntryEmit
    <3>2. adm'[a].pc \notin ClosePc
      BY <1>7, <3>1, StepMoves DEF Moves
    <3> QED  BY <1>5, <1>7, <3>1, <3>2
  <2> QED  BY <1>7, <2>1, <2>2, <2>3, <2>4, <2>5 DEF AdminStep
<1>8. ASSUME NEW a \in Admins, AdminDies(a) PROVE CloseHoldsAnOpenRow'
  BY <1>5, <1>8 DEF AdminDies, AdmTo, TypeOK, NoAdmin
<1> QED
  BY <1>1, <1>2, <1>3, <1>4, <1>6, <1>7, <1>8 DEF Next

(* A close never replaces a result, whatever else is in flight.             *)
THEOREM CloseIsExclusive == Spec => []CloseHoldsAnOpenRow
<1>1. Init => CloseHoldsAnOpenRow
  BY DEF Init, CloseHoldsAnOpenRow, NoAdmin, ClosePc
<1> QED  BY <1>1, CloseStep, TypeCorrect, PTL DEF Spec

(* A step of a vote leaves the rows of topics and pitches alone, and every  *)
(* admin step but these leaves them alone too.                              *)
LEMMA CastsTouchNoRow ==
  ASSUME NEW c \in Casts,
         (\E d \in Delegates, e \in Entries : CastRead(c, d, e)) \/ CastStep(c) \/ CastDies(c)
  PROVE  UNCHANGED <<voting, result, entries, used, announced, adm, setting>>
BY DEF CastRead, CastStep, CastDies, CastTo, CastPrevious, CastUpsert, CastCount,
       CastCommit, CastEmit, tables, topicRows, rooms

RowWriter(a) ==
  \/ SaveTopicWrite(a) \/ CloseVotingCommit(a) \/ RemoveTopicRow(a)
  \/ SaveEntryWrite(a) \/ MoveEntrySave(a) \/ RemoveEntryRow(a)

LEMMA RowsStay ==
  ASSUME NEW a \in Admins, AdminStart(a) \/ AdminStep(a) \/ AdminDies(a), TypeOK, ~RowWriter(a)
  PROVE  UNCHANGED <<voting, result, entries, used>>
<1>1. CASE AdminStart(a)
  BY <1>1, BeginMoves DEF tables, topicRows
<1>2. CASE AdminStep(a)
  BY <1>2 DEF AdminStep, RowWriter, SaveTopicReload, CloseVotingAnnounce, RemoveTopicVotes,
     SaveEntryReload, MoveEntryCheck, RemoveEntryVotes, RemoveEntryEmit, tables, topicRows
<1>3. CASE AdminDies(a)
  BY <1>3 DEF AdminDies, tables, topicRows
<1> QED  BY <1>1, <1>2, <1>3

(* No pitch outlives its topic, though stale entities are saved around it.  *)
LEMMA PitchStep == TypeOK /\ PitchHasTopic /\ [Next]_vars => PitchHasTopic'
<1> SUFFICES ASSUME TypeOK, PitchHasTopic, [Next]_vars PROVE PitchHasTopic'
  OBVIOUS
<1>1. ASSUME NEW t \in Topics, CreateTopic(t) PROVE PitchHasTopic'
  BY <1>1, NoneIsNothing DEF CreateTopic, TypeOK, PitchHasTopic
<1>2. ASSUME UNCHANGED <<voting, entries>> PROVE PitchHasTopic'
  BY <1>2 DEF PitchHasTopic
<1>3. ASSUME NEW e \in Entries, NEW t \in Topics, CreateEntry(e, t) PROVE PitchHasTopic'
  BY <1>3 DEF CreateEntry, TopicKey, TypeOK, PitchHasTopic, topicRows
<1>4. ASSUME NEW a \in Admins, RowWriter(a) PROVE PitchHasTopic'
  <2>0. adm[a] \in AdminSlot
    BY DEF TypeOK
  <2>1. CASE SaveTopicWrite(a)
    BY <2>0, <2>1 DEF SaveTopicWrite, TypeOK, PitchHasTopic, AdminSlot, AdminType, SavePc
  <2>2. CASE CloseVotingCommit(a)
    BY <2>0, <2>2, NoneIsNothing DEF CloseVotingCommit, TypeOK, PitchHasTopic
  <2>3. CASE RemoveTopicRow(a)
    BY <2>0, <2>3 DEF RemoveTopicRow, TypeOK, PitchHasTopic
  <2>4. CASE SaveEntryWrite(a)
    BY <2>0, <2>4 DEF SaveEntryWrite, TopicKey, TypeOK, PitchHasTopic, topicRows
  <2>5. CASE MoveEntrySave(a)
    BY <2>0, <2>5 DEF MoveEntrySave, TopicKey, TypeOK, PitchHasTopic, topicRows
  <2>6. CASE RemoveEntryRow(a)
    BY <2>0, <2>6 DEF RemoveEntryRow, TypeOK, PitchHasTopic, topicRows
  <2> QED  BY <1>4, <2>1, <2>2, <2>3, <2>4, <2>5, <2>6 DEF RowWriter
<1>5. ASSUME NEW a \in Admins, AdminStart(a) \/ AdminStep(a) \/ AdminDies(a) PROVE PitchHasTopic'
  BY <1>2, <1>4, <1>5, RowsStay
<1>6. CASE UNCHANGED vars
  BY <1>2, <1>6 DEF vars, tables, topicRows
<1> QED
  BY <1>1, <1>2, <1>3, <1>5, <1>6, CastsTouchNoRow DEF Next

THEOREM PitchesHaveTopics == Spec => []PitchHasTopic
<1>1. Init => PitchHasTopic
  BY DEF Init, PitchHasTopic
<1> QED  BY <1>1, PitchStep, TypeCorrect, PTL DEF Spec

-----------------------------------------------------------------------------
(* One admin request at a time.  What such a request remembers of a row is  *)
(* still the row when it writes; this is what overlapping requests break,   *)
(* and what the results depend on.                                          *)
AtDesk == \A a, b \in Admins : adm[a].pc # "idle" /\ adm[b].pc # "idle" => a = b
NullUntilClosed == \A t \in Topics : voting[t] = "closed" <=> result[t] # None
FreshTopic ==
  \A a \in Admins : adm[a].pc \in SavePc =>
    /\ adm[a].pc # "insertTopic"
    /\ voting[adm[a].topic] # None
    /\ adm[a].result = result[adm[a].topic]
    /\ \/ adm[a].voting = voting[adm[a].topic]
       \/ adm[a].voting = "open" /\ voting[adm[a].topic] = "pending"
FreshEntry ==
  \A a \in Admins : adm[a].pc \in EditPc \cup MovePc =>
    /\ adm[a].pc # "insertEntry"
    /\ entries[adm[a].entry] # None
Known ==
  /\ \A t \in Topics : voting[t] # None \/ announced[t] # None => t \in used
  /\ \A a \in Admins : adm[a].pc # "idle" /\ adm[a].pc \notin EntryPc => adm[a].topic \in used
Stored ==
  ~mayDie =>
    /\ \A t \in Topics : announced[t] # None /\ voting[t] # None /\ ~TopicLocked(t) =>
         voting[t] = "closed" /\ result[t] = announced[t]
    /\ \A a \in Admins : adm[a].pc = "closeSaved" => announced[adm[a].topic] = adm[a].result
Desk == AtDesk /\ NullUntilClosed /\ FreshTopic /\ FreshEntry /\ Known /\ Stored
DeskInv == TypeOK /\ CloseHoldsAnOpenRow /\ (OneDesk => Desk)

LEMMA DeskInit == Init => DeskInv
<1> SUFFICES ASSUME Init PROVE DeskInv
  OBVIOUS
<1>1. TypeOK
  BY TypeInit
<1>2. CloseHoldsAnOpenRow
  BY DEF Init, CloseHoldsAnOpenRow, NoAdmin, ClosePc
<1>3. Desk
  BY NoneIsNothing
     DEF Init, Desk, AtDesk, NullUntilClosed, FreshTopic, FreshEntry, Known, Stored, NoAdmin,
         SavePc, EditPc, MovePc, TopicLocked, HoldsTopic
<1> QED  BY <1>1, <1>2, <1>3 DEF DeskInv

(* At one desk, a beginning request finds every other request idle.          *)
LEMMA AtDeskStep ==
  ASSUME TypeOK, OneDesk, AtDesk, NEW a \in Admins,
         AdminStart(a) \/ AdminStep(a) \/ AdminDies(a)
  PROVE  AtDesk' /\ \A b \in Admins \ {a} : adm[b].pc = "idle" /\ adm'[b] = adm[b]
<1>1. CASE AdminStart(a)
  BY <1>1, BeginMoves, OthersStay DEF AdminMayBegin, AdminsIdle, OneDesk, AtDesk
<1>2. CASE AdminStep(a)
  <2>1. adm[a].pc # "idle"
    BY <1>2, StepMoves DEF Moves
  <2> QED  BY <1>2, <2>1, OthersStay DEF AtDesk
<1>3. CASE AdminDies(a)
  BY <1>3, OthersStay DEF AtDesk, AdminDies
<1> QED  BY <1>1, <1>2, <1>3

(* What a request has read when it begins.                                  *)
LEMMA StartShape ==
  ASSUME TypeOK, NEW a \in Admins, AdminStart(a)
  PROVE  \/ \E t \in Topics :
              /\ adm'[a].pc = "saving" /\ adm'[a].topic = t /\ voting[t] # None
              /\ adm'[a].result = result[t]
              /\ \/ adm'[a].voting = voting[t]
                 \/ adm'[a].voting = "open" /\ voting[t] = "pending"
         \/ \E t \in Topics :
              adm'[a].pc \in {"rmTopic", "closing"} /\ adm'[a].topic = t /\ voting[t] # None
         \/ \E e \in Entries :
              /\ adm'[a].pc \in {"editing", "rmEntry"}
              /\ adm'[a].entry = e /\ entries[e] # None /\ adm'[a].topic = entries[e]
         \/ \E e \in Entries :
              adm'[a].pc = "moving" /\ adm'[a].entry = e /\ entries[e] # None
<1> USE DEF Begin, AdmTo, TypeOK, NoAdmin
<1>1. CASE \E t \in Topics : UpdateTopicRead(a, t)
  BY <1>1 DEF UpdateTopicRead, TopicEntity
<1>2. CASE \E t \in Topics : OpenVotingRead(a, t)
  BY <1>2, NoneIsNothing DEF OpenVotingRead, TopicEntity
<1>3. CASE \E t \in Topics : RemoveTopicRead(a, t)
  BY <1>3 DEF RemoveTopicRead
<1>4. CASE \E t \in Topics : CloseVotingLock(a, t)
  BY <1>4, NoneIsNothing DEF CloseVotingLock
<1>5. CASE \E e \in Entries : EditEntryRead(a, e)
  BY <1>5 DEF EditEntryRead, EntryEntity
<1>6. CASE \E e \in Entries : RemoveEntryRead(a, e)
  BY <1>6 DEF RemoveEntryRead, EntryEntity
<1>7. CASE \E e \in Entries, t \in Topics : MoveEntryLock(a, e, t)
  BY <1>7 DEF MoveEntryLock
<1> QED  BY <1>1, <1>2, <1>3, <1>4, <1>5, <1>6, <1>7 DEF AdminStart

LEMMA DeskStart ==
  ASSUME TypeOK, OneDesk, Desk, NEW a \in Admins, AdminStart(a)
  PROVE  Desk'
<1>0. /\ \A b \in Admins \ {a} : adm[b].pc = "idle" /\ adm'[b] = adm[b]
      /\ AtDesk' /\ adm[a].pc = "idle" /\ UNCHANGED <<voting, result, entries, used, announced>>
      /\ UNCHANGED setting
  BY AtDeskStep, OthersStay, BeginMoves DEF Desk, tables, topicRows, rooms
<1> USE DEF EntryPc, SavePc, ClosePc, MovePc, EditPc, RemoveEntryPc
<1>1. NullUntilClosed'
  BY <1>0 DEF Desk, NullUntilClosed
<1>3. FreshTopic'
  BY <1>0, StartShape DEF FreshTopic
<1>4. FreshEntry'
  BY <1>0, StartShape DEF FreshEntry
<1>5. Known'
  BY <1>0, StartShape DEF Known, Desk
<1>6. Stored'
  BY <1>0, BeginMoves DEF Stored, Desk, TopicLocked, HoldsTopic, setting
<1> QED  BY <1>0, <1>1, <1>3, <1>4, <1>5, <1>6 DEF Desk

LEMMA DeskWork ==
  ASSUME TypeOK, CloseHoldsAnOpenRow, OneDesk, Desk, NEW a \in Admins, AdminStep(a)
  PROVE  Desk'
<1> DEFINE s == adm[a]
<1>0. /\ \A b \in Admins \ {a} : adm[b].pc = "idle" /\ adm'[b] = adm[b]
      /\ AtDesk' /\ UNCHANGED setting /\ <<s.pc, adm'[a].pc>> \in Moves
  BY AtDeskStep, OthersStay, StepMoves DEF Desk
<1>1. /\ s \in AdminSlot
      /\ s.pc # "idle" => s.topic \in Topics
      /\ s.pc \in EntryPc => s.entry \in Entries
      /\ s.pc \in SavePc => s.voting \in TopicVoting
  <2>1. s \in AdminSlot
    BY DEF TypeOK
  <2> QED  BY <2>1 DEF AdminSlot, AdminType, EntryPc, SavePc, MovePc, EditPc, RemoveEntryPc
<1>2. AtDesk /\ NullUntilClosed /\ FreshTopic /\ FreshEntry /\ Known /\ Stored
  BY DEF Desk
<1> USE DEF EntryPc, SavePc, ClosePc, MovePc, EditPc, RemoveEntryPc, tables, topicRows, rooms, setting
(* A step that ends the request leaves nobody at the desk.                   *)
<1>3. ASSUME adm'[a].pc = "idle"
      PROVE  FreshTopic' /\ FreshEntry' /\ \A t \in Topics : ~TopicLocked(t)'
  BY <1>0, <1>3 DEF FreshTopic, FreshEntry, TopicLocked, HoldsTopic
<1>4. CASE SaveTopicReload(a)
  <2>1. /\ s.pc = "saving" /\ adm'[a].topic = s.topic /\ adm'[a].voting = s.voting
        /\ adm'[a].result = s.result /\ adm'[a].pc = "saveTopic"
    BY <1>1, <1>2, <1>4 DEF SaveTopicReload, AdmTo, TypeOK, AdminSlot, AdminType, FreshTopic
  <2>2. UNCHANGED <<voting, result, entries, used, announced>>
    BY <1>4 DEF SaveTopicReload
  <2> QED
    BY <1>0, <1>1, <1>2, <2>1, <2>2
       DEF Desk, NullUntilClosed, FreshTopic, FreshEntry, Known, Stored, TopicLocked, HoldsTopic
<1>5. CASE SaveTopicWrite(a)
  <2>1. /\ adm'[a].pc = "idle" /\ UNCHANGED <<entries, used, announced>>
        /\ s.pc = "saveTopic" /\ ~TopicLocked(s.topic)
        /\ voting' = [voting EXCEPT ![s.topic] = IF "voting" \in s.dirty THEN s.voting ELSE @]
        /\ result' = result
    <3>1. /\ s.pc = "saveTopic" /\ voting[s.topic] # None /\ s.result = result[s.topic]
          /\ s.topic \in Topics
      BY <1>1, <1>2, <1>5 DEF SaveTopicWrite, FreshTopic
    <3>2. adm'[a].pc = "idle" /\ UNCHANGED <<entries, used, announced>> /\ ~TopicLocked(s.topic)
      BY <1>5 DEF SaveTopicWrite, AdmTo, TypeOK, NoAdmin
    <3>3. voting' = [voting EXCEPT ![s.topic] = IF "voting" \in s.dirty THEN s.voting ELSE @]
      BY <1>5, <3>1 DEF SaveTopicWrite
    <3>4. result' = [result EXCEPT ![s.topic] = IF "result" \in s.dirty THEN s.result ELSE @]
      BY <1>5, <3>1 DEF SaveTopicWrite
    <3>5. result' = result
      BY <3>1, <3>4 DEF TypeOK
    <3> QED  BY <3>1, <3>2, <3>3, <3>5
  <2>2. \A t \in Topics : \/ voting'[t] = voting[t]
                          \/ voting'[t] = "open" /\ voting[t] = "pending"
    <3>1. \/ s.voting = voting[s.topic]
          \/ s.voting = "open" /\ voting[s.topic] = "pending"
      BY <1>2, <2>1 DEF FreshTopic
    <3>2. voting \in [Topics -> TopicVoting \cup {None}] /\ s.topic \in Topics
      BY <1>1, <2>1 DEF TypeOK
    <3>3. \A t \in Topics : voting'[t] = IF t = s.topic /\ "voting" \in s.dirty THEN s.voting
                                         ELSE voting[t]
      BY <2>1, <3>2
    <3> QED  BY <3>1, <3>3
  <2>3. NullUntilClosed' /\ Known'
    BY <1>0, <1>2, <2>1, <2>2, NoneIsNothing DEF NullUntilClosed, Known
  <2>4. \A t \in Topics : ~TopicLocked(t)
    BY <1>0, <2>1 DEF TopicLocked, HoldsTopic
  <2>5. Stored'
    BY <1>0, <1>2, <2>1, <2>2, <2>4, NoneIsNothing DEF Stored
  <2> QED  BY <1>0, <1>3, <2>1, <2>3, <2>5 DEF Desk
<1>6. CASE CloseVotingAnnounce(a)
  <2>1. /\ s.pc = "closing" /\ adm'[a].pc = "closeSaved" /\ adm'[a].topic = s.topic
        /\ adm'[a].result = announced'[s.topic]
        /\ \A t \in Topics \ {s.topic} : announced'[t] = announced[t]
        /\ UNCHANGED <<voting, result, entries, used>>
    BY <1>1, <1>6 DEF CloseVotingAnnounce, AdmTo, TypeOK, AdminSlot, AdminType
  <2>2. s.topic \in used
    BY <1>2, <2>1 DEF Known
  <2>3. Known'
    BY <1>0, <1>2, <2>1, <2>2 DEF Known
  <2>4. \A t \in Topics \ {s.topic} : ~TopicLocked(t)
    BY <1>0, <2>1 DEF TopicLocked, HoldsTopic
  <2>5. TopicLocked(s.topic)'
    BY <2>1 DEF TopicLocked, HoldsTopic
  <2>6. Stored'
    BY <1>0, <1>2, <2>1, <2>4, <2>5 DEF Stored
  <2> QED
    BY <1>0, <1>2, <2>1, <2>3, <2>6 DEF Desk, NullUntilClosed, FreshTopic, FreshEntry
<1>7. CASE CloseVotingCommit(a)
  <2>1. /\ s.pc = "closeSaved" /\ adm'[a].pc = "idle" /\ UNCHANGED <<entries, used, announced>>
        /\ voting' = [voting EXCEPT ![s.topic] = "closed"]
        /\ result' = [result EXCEPT ![s.topic] = s.result]
        /\ s.result # None
    BY <1>1, <1>7 DEF CloseVotingCommit, AdmTo, TypeOK, NoAdmin, AdminSlot
  <2>2. NullUntilClosed' /\ Known'
    BY <1>0, <1>1, <1>2, <2>1 DEF NullUntilClosed, Known, TypeOK
  <2>3. \A t \in Topics \ {s.topic} : ~TopicLocked(t)
    BY <1>0, <2>1 DEF TopicLocked, HoldsTopic
  <2>4. Stored'
    BY <1>0, <1>1, <1>2, <2>1, <2>3 DEF Stored, TypeOK
  <2> QED  BY <1>0, <1>3, <2>1, <2>2, <2>4 DEF Desk
<1>8. CASE RemoveTopicRow(a)
  <2>1. /\ s.pc = "rmTopicVotes" /\ adm'[a].pc = "idle" /\ UNCHANGED <<used, announced>>
        /\ voting' = [voting EXCEPT ![s.topic] = None]
        /\ result' = [result EXCEPT ![s.topic] = None]
    BY <1>1, <1>8 DEF RemoveTopicRow, AdmTo, TypeOK, NoAdmin
  <2>2. NullUntilClosed' /\ Known'
    BY <1>0, <1>1, <1>2, <2>1, NoneIsNothing DEF NullUntilClosed, Known, TypeOK
  <2>3. \A t \in Topics : ~TopicLocked(t)
    BY <1>0, <2>1 DEF TopicLocked, HoldsTopic
  <2>4. Stored'
    BY <1>0, <1>1, <1>2, <2>1, <2>3 DEF Stored, TypeOK
  <2> QED  BY <1>0, <1>3, <2>1, <2>2, <2>4 DEF Desk
<1>9. ASSUME adm'[a].pc = "idle", UNCHANGED <<voting, result, used, announced>>, s.pc \notin ClosePc
      PROVE  Desk'
  <2>1. \A t \in Topics : ~TopicLocked(t)
    BY <1>0, <1>9 DEF TopicLocked, HoldsTopic
  <2>2. Stored'
    BY <1>0, <1>2, <1>9, <2>1 DEF Stored
  <2> QED  BY <1>0, <1>2, <1>3, <1>9, <2>2 DEF Desk, NullUntilClosed, Known
<1>10. CASE SaveEntryWrite(a) \/ MoveEntrySave(a) \/ RemoveEntryEmit(a)
  BY <1>0, <1>9, <1>10 DEF SaveEntryWrite, MoveEntrySave, RemoveEntryEmit, AdmTo, TypeOK, NoAdmin
<1>11. ASSUME UNCHANGED <<voting, result, used, announced>>, s.pc \notin ClosePc,
              adm'[a].pc \notin SavePc \cup ClosePc, s.pc # "idle",
              adm'[a].pc \in EntryPc <=> s.pc \in EntryPc, adm'[a].topic = s.topic, FreshEntry'
       PROVE  Desk'
  BY <1>0, <1>2, <1>11 DEF Desk, NullUntilClosed, FreshTopic, Known, Stored, TopicLocked, HoldsTopic
<1>12. CASE RemoveTopicVotes(a)
  <2>1. /\ s.pc = "rmTopic" /\ adm'[a].pc = "rmTopicVotes" /\ adm'[a].topic = s.topic
        /\ UNCHANGED <<voting, result, used, announced>>
    BY <1>1, <1>12 DEF RemoveTopicVotes, AdmTo, TypeOK, AdminSlot, AdminType
  <2>2. FreshEntry'
    BY <1>0, <2>1 DEF FreshEntry
  <2> QED  BY <1>11, <2>1, <2>2
<1>13. CASE SaveEntryReload(a)
  <2>1. /\ s.pc = "editing" /\ adm'[a].pc = "saveEntry" /\ adm'[a].topic = s.topic
        /\ adm'[a].entry = s.entry /\ UNCHANGED <<voting, result, entries, used, announced>>
    BY <1>1, <1>2, <1>13 DEF SaveEntryReload, AdmTo, TypeOK, AdminSlot, AdminType, FreshEntry
  <2>2. FreshEntry'
    BY <1>0, <1>2, <2>1 DEF FreshEntry
  <2> QED  BY <1>11, <2>1, <2>2
<1>14. CASE MoveEntryCheck(a)
  <2>1. /\ s.pc = "moving" /\ UNCHANGED <<voting, result, entries, used, announced>>
        /\ \/ adm'[a].pc = "idle"
           \/ adm'[a].pc = "moveChecked" /\ adm'[a].topic = s.topic /\ adm'[a].entry = s.entry
    BY <1>1, <1>14 DEF MoveEntryCheck, AdmTo, TypeOK, AdminSlot, AdminType, NoAdmin
  <2>2. CASE adm'[a].pc = "idle"
    BY <1>9, <2>1, <2>2
  <2>3. CASE adm'[a].pc = "moveChecked"
    <3>1. FreshEntry'
      BY <1>0, <1>2, <2>1, <2>3 DEF FreshEntry
    <3> QED  BY <1>11, <2>1, <2>3, <3>1
  <2> QED  BY <2>1, <2>2, <2>3
<1>15. CASE RemoveEntryVotes(a) \/ RemoveEntryRow(a)
  <2>1. /\ s.pc \in {"rmEntry", "rmEntryVotes"} /\ adm'[a].pc \in {"rmEntryVotes", "rmEntryGone"}
        /\ adm'[a].topic = s.topic /\ UNCHANGED <<voting, result, used, announced>>
    BY <1>1, <1>15 DEF RemoveEntryVotes, RemoveEntryRow, AdmTo, TypeOK, AdminSlot, AdminType
  <2>2. FreshEntry'
    BY <1>0, <2>1 DEF FreshEntry
  <2> QED  BY <1>11, <2>1, <2>2
<1> QED
  BY <1>4, <1>5, <1>6, <1>7, <1>8, <1>10, <1>12, <1>13, <1>14, <1>15 DEF AdminStep

LEMMA DeskStep == DeskInv /\ [Next]_vars => DeskInv'
<1> SUFFICES ASSUME DeskInv, [Next]_vars PROVE DeskInv'
  OBVIOUS
<1>1. TypeOK /\ CloseHoldsAnOpenRow /\ (OneDesk => Desk)
  BY DEF DeskInv
<1>2. TypeOK' /\ CloseHoldsAnOpenRow' /\ regime' = regime /\ mayDie' = mayDie
  <2>1. UNCHANGED setting
    BY <1>1, CastsTouchNoRow, OthersStay DEF Next, vars, CreateTopic, CreateEntry
  <2> QED  BY <1>1, <2>1, TypeStep, CloseStep DEF setting
<1> SUFFICES ASSUME OneDesk, Desk PROVE Desk'
  BY <1>1, <1>2 DEF OneDesk, DeskInv
<1> USE DEF Desk, AtDesk, FreshTopic, FreshEntry, TopicLocked, HoldsTopic
<1>3. ASSUME UNCHANGED <<voting, result, entries, used, announced, adm, setting>> PROVE Desk'
  BY <1>3 DEF setting, NullUntilClosed, Known, Stored
<1>4. ASSUME AdminMayBegin, UNCHANGED <<adm, announced, setting>>
      PROVE  /\ \A a \in Admins : adm'[a].pc = "idle"
             /\ AtDesk' /\ FreshTopic' /\ FreshEntry'
  BY <1>4 DEF AdminMayBegin, AdminsIdle, OneDesk, SavePc, EditPc, MovePc
<1>5. ASSUME NEW t \in Topics, CreateTopic(t) PROVE Desk'
  <2>1. /\ t \notin used /\ used' = used \cup {t} /\ voting' = [voting EXCEPT ![t] = "pending"]
        /\ AdminMayBegin /\ UNCHANGED <<result, adm, announced, setting>>
    BY <1>5 DEF CreateTopic, rooms
  <2>2. voting[t] = None /\ announced[t] = None
    BY <2>1 DEF Known
  <2>3. NullUntilClosed' /\ Known'
    BY <1>1, <1>4, <2>1, <2>2, NoneIsNothing DEF NullUntilClosed, Known, TypeOK
  <2>4. Stored'
    BY <1>1, <1>4, <2>1, <2>2 DEF Stored, TypeOK, setting
  <2> QED  BY <1>4, <2>1, <2>3, <2>4
<1>6. ASSUME NEW e \in Entries, NEW t \in Topics, CreateEntry(e, t) PROVE Desk'
  <2>1. /\ used' = used \cup {e} /\ AdminMayBegin
        /\ UNCHANGED <<voting, result, adm, announced, setting>>
    BY <1>6 DEF CreateEntry, rooms, topicRows
  <2> QED  BY <1>4, <2>1 DEF NullUntilClosed, Known, Stored, setting
<1>7. ASSUME NEW a \in Admins, AdminDies(a) PROVE Desk'
  <2>1. /\ AtDesk' /\ \A b \in Admins \ {a} : adm[b].pc = "idle" /\ adm'[b] = adm[b]
        /\ adm'[a].pc = "idle" /\ mayDie
        /\ UNCHANGED <<voting, result, entries, used, announced>>
    BY <1>1, <1>7, AtDeskStep DEF AdminDies, AdmTo, NoAdmin, TypeOK, tables, topicRows, rooms
  <2> QED  BY <1>2, <2>1 DEF NullUntilClosed, Known, Stored, SavePc, EditPc, MovePc
<1>8. ASSUME NEW a \in Admins, AdminStart(a) \/ AdminStep(a) PROVE Desk'
  BY <1>1, <1>8, DeskStart, DeskWork
<1>9. CASE UNCHANGED vars
  BY <1>3, <1>9 DEF vars, tables, topicRows, rooms
<1>10. ASSUME NEW c \in Casts,
              (\E d \in Delegates, e \in Entries : CastRead(c, d, e)) \/ CastStep(c) \/ CastDies(c)
       PROVE  Desk'
  BY <1>3, <1>10, CastsTouchNoRow
<1> QED  BY <1>5, <1>6, <1>7, <1>8, <1>9, <1>10 DEF Next

LEMMA DeskHolds == Spec => []DeskInv
BY DeskInit, DeskStep, PTL DEF Spec

(* While admin requests take turns, a topic has a result exactly when it is *)
(* closed: no stale entity writes one column without the other.             *)
THEOREM ResultsComeWithClosing == Spec => []ResultIffClosed
<1>1. DeskInv => ResultIffClosed
  BY DEF DeskInv, Desk, NullUntilClosed, ResultIffClosed
<1> QED  BY <1>1, DeskHolds, PTL

(* ... what was announced is what is stored, if nothing dies in between.     *)
THEOREM AnnouncementsAreKept == Spec => []AnnouncedIsStored
<1>1. DeskInv => AnnouncedIsStored
  BY DEF DeskInv, Desk, Stored, AnnouncedIsStored
<1> QED  BY <1>1, DeskHolds, PTL

(* What an admin step at one desk may write: the save of a topic it read    *)
(* writes back what the row holds, or opens a pending topic; the save of a  *)
(* pitch finds it where it was.                                             *)
LEMMA DeskWrites ==
  ASSUME DeskInv, OneDesk, NEW a \in Admins, AdminStart(a) \/ AdminStep(a) \/ AdminDies(a)
  PROVE  /\ \A t \in Topics : \/ voting'[t] = voting[t] /\ result'[t] = result[t]
                              \/ voting'[t] = "open" /\ voting[t] = "pending"
                              \/ voting[t] \in {"pending", "open"} /\ voting'[t] = "closed"
                              \/ voting'[t] = None
         /\ \A e \in Entries : entries[e] = None => entries'[e] = None
<1> DEFINE s == adm[a]
<1>1. /\ TypeOK /\ CloseHoldsAnOpenRow /\ FreshTopic /\ FreshEntry
      /\ s.pc # "idle" => s.topic \in Topics
      /\ s.pc \in EntryPc => s.entry \in Entries
  <2>1. TypeOK /\ CloseHoldsAnOpenRow /\ FreshTopic /\ FreshEntry
    BY DEF DeskInv, Desk
  <2>2. s \in AdminSlot
    BY <2>1 DEF TypeOK
  <2> QED  BY <2>1, <2>2 DEF AdminSlot, AdminType
<1> USE DEF SavePc, ClosePc, EntryPc, MovePc, EditPc, RemoveEntryPc
<1>2. CASE UNCHANGED <<voting, result, entries, used>>
  BY <1>2
<1>3. CASE SaveTopicWrite(a)
  <2>1. /\ s.pc = "saveTopic" /\ voting[s.topic] # None /\ s.result = result[s.topic]
        /\ s.topic \in Topics
        /\ \/ s.voting = voting[s.topic]
           \/ s.voting = "open" /\ voting[s.topic] = "pending"
    BY <1>1, <1>3 DEF SaveTopicWrite, FreshTopic
  <2>2. /\ voting' = [voting EXCEPT ![s.topic] = IF "voting" \in s.dirty THEN s.voting ELSE @]
        /\ result' = [result EXCEPT ![s.topic] = IF "result" \in s.dirty THEN s.result ELSE @]
        /\ UNCHANGED entries
    BY <1>3, <2>1 DEF SaveTopicWrite
  <2>3. result' = result
    BY <1>1, <2>1, <2>2 DEF TypeOK
  <2>4. \A t \in Topics : voting'[t] = IF t = s.topic /\ "voting" \in s.dirty THEN s.voting
                                       ELSE voting[t]
    BY <1>1, <2>1, <2>2 DEF TypeOK
  <2> QED  BY <2>1, <2>2, <2>3, <2>4
<1>4. CASE CloseVotingCommit(a)
  BY <1>1, <1>4 DEF CloseVotingCommit, TypeOK, CloseHoldsAnOpenRow
<1>5. CASE RemoveTopicRow(a)
  BY <1>1, <1>5 DEF RemoveTopicRow, TypeOK
<1>6. CASE SaveEntryWrite(a)
  BY <1>1, <1>6 DEF SaveEntryWrite, TypeOK, FreshEntry, topicRows
<1>7. CASE MoveEntrySave(a)
  BY <1>1, <1>7 DEF MoveEntrySave, TypeOK, FreshEntry, topicRows
<1>8. CASE RemoveEntryRow(a)
  BY <1>1, <1>8 DEF RemoveEntryRow, TypeOK, topicRows
<1> QED  BY <1>1, <1>2, <1>3, <1>4, <1>5, <1>6, <1>7, <1>8, RowsStay DEF RowWriter

(* A closed topic keeps its result for as long as it exists.                *)
THEOREM ResultsAreFrozen == Spec => ResultFrozen
<1>1. DeskInv /\ [Next]_vars => (OneDesk => KeepsResults)
  <2> SUFFICES ASSUME DeskInv, [Next]_vars, OneDesk PROVE KeepsResults
    OBVIOUS
  <2>0. TypeOK /\ Known
    BY DEF DeskInv, Desk
  <2>1. ASSUME NEW t \in Topics, CreateTopic(t) PROVE KeepsResults
    BY <2>0, <2>1, NoneIsNothing DEF CreateTopic, KeepsResults, TypeOK, Known
  <2>2. ASSUME UNCHANGED <<voting, result>> PROVE KeepsResults
    BY <2>2 DEF KeepsResults
  <2>3. ASSUME NEW a \in Admins, AdminStart(a) \/ AdminStep(a) \/ AdminDies(a) PROVE KeepsResults
    BY <2>3, DeskWrites, NoneIsNothing DEF KeepsResults
  <2>4. ASSUME NEW e \in Entries, NEW t \in Topics, CreateEntry(e, t) PROVE KeepsResults
    BY <2>2, <2>4 DEF CreateEntry, topicRows
  <2>5. CASE UNCHANGED vars
    BY <2>2, <2>5 DEF vars, tables, topicRows
  <2> QED  BY <2>1, <2>2, <2>3, <2>4, <2>5, CastsTouchNoRow DEF Next
<1> QED  BY <1>1, DeskHolds, PTL DEF Spec, ResultFrozen

(* A topic or pitch whose row is gone does not come back.                   *)
THEOREM RemovalsAreForGood == Spec => RemovedForGood
<1> DEFINE StaysGone ==
      /\ \A t \in Topics : t \in used /\ voting[t] = None => voting'[t] = None
      /\ \A e \in Entries : e \in used /\ entries[e] = None => entries'[e] = None
<1>1. DeskInv /\ [Next]_vars => (OneDesk => StaysGone)
  <2> SUFFICES ASSUME DeskInv, [Next]_vars, OneDesk PROVE StaysGone
    OBVIOUS
  <2>0. TypeOK
    BY DEF DeskInv
  <2>1. ASSUME NEW t \in Topics, CreateTopic(t) PROVE StaysGone
    BY <2>0, <2>1 DEF CreateTopic, TypeOK
  <2>2. ASSUME UNCHANGED <<voting, entries>> PROVE StaysGone
    BY <2>2
  <2>3. ASSUME NEW a \in Admins, AdminStart(a) \/ AdminStep(a) \/ AdminDies(a) PROVE StaysGone
    BY <2>0, <2>3, DeskWrites, NoneIsNothing DEF TypeOK
  <2>4. ASSUME NEW e \in Entries, NEW t \in Topics, CreateEntry(e, t) PROVE StaysGone
    BY <2>0, <2>4 DEF CreateEntry, TypeOK, topicRows
  <2>5. CASE UNCHANGED vars
    BY <2>2, <2>5 DEF vars, tables, topicRows
  <2> QED  BY <2>1, <2>2, <2>3, <2>4, <2>5, CastsTouchNoRow DEF Next
<1> QED  BY <1>1, DeskHolds, PTL DEF Spec, RemovedForGood

-----------------------------------------------------------------------------
(* Ballots, whatever overlaps.                                              *)

LEMMA AdminsTouchNoBallot ==
  ASSUME NEW a \in Admins, AdminStart(a) \/ AdminStep(a) \/ AdminDies(a), TypeOK
  PROVE  /\ \/ UNCHANGED vote
            \/ \A d \in Delegates, t \in Topics : vote'[d][t] \in {None, vote[d][t]}
         /\ UNCHANGED events
<1>1. CASE AdminStart(a)
  BY <1>1, BeginMoves DEF tables, ballots
<1>2. CASE RemoveTopicVotes(a)
  BY <1>2 DEF RemoveTopicVotes, TypeOK
<1>3. CASE RemoveEntryVotes(a)
  BY <1>3 DEF RemoveEntryVotes, TypeOK
<1>4. CASE AdminStep(a) /\ ~RemoveTopicVotes(a) /\ ~RemoveEntryVotes(a)
  BY <1>4 DEF AdminStep, SaveTopicReload, SaveTopicWrite, CloseVotingAnnounce,
     CloseVotingCommit, RemoveTopicRow, SaveEntryReload, SaveEntryWrite, MoveEntryCheck,
     MoveEntrySave, RemoveEntryRow, RemoveEntryEmit, tables, ballots
<1>5. CASE AdminDies(a)
  BY <1>5 DEF AdminDies, tables, ballots
<1> QED  BY <1>1, <1>2, <1>3, <1>4, <1>5

(* Every ballot has its line in the audit trail.                            *)
LEMMA AuditStep == TypeOK /\ BallotsAreAudited /\ [Next]_vars => BallotsAreAudited'
<1> SUFFICES ASSUME TypeOK, BallotsAreAudited, [Next]_vars PROVE BallotsAreAudited'
  OBVIOUS
<1>1. ASSUME UNCHANGED <<vote, events>> PROVE BallotsAreAudited'
  BY <1>1 DEF BallotsAreAudited
<1>2. ASSUME NEW a \in Admins, AdminStart(a) \/ AdminStep(a) \/ AdminDies(a)
      PROVE  BallotsAreAudited'
  BY <1>2, AdminsTouchNoBallot DEF BallotsAreAudited
<1>3. ASSUME NEW c \in Casts, CastCommit(c) PROVE BallotsAreAudited'
  <2>1. CASE Wrote(c)
    <3>1. cast[c] \in CastSlot /\ cast[c].pc # "idle"
      BY <2>1 DEF TypeOK, Wrote
    <3>2. cast[c].delegate \in Delegates /\ cast[c].topic \in Topics
      BY <3>1 DEF CastSlot, CastType
    <3>3. \A d \in Delegates, t \in Topics :
            vote'[d][t] = IF d = cast[c].delegate /\ t = cast[c].topic THEN cast[c].entry
                          ELSE vote[d][t]
      BY <1>3, <2>1, <3>2 DEF CastCommit, OwnView, TypeOK
    <3>4. events' = events \cup {<<cast[c].delegate, cast[c].topic, cast[c].entry>>}
      BY <1>3, <2>1 DEF CastCommit
    <3> QED  BY <3>3, <3>4 DEF BallotsAreAudited
  <2>2. CASE ~Wrote(c)
    BY <1>1, <1>3, <2>2 DEF CastCommit, OwnView
  <2> QED  BY <2>1, <2>2
<1>4. ASSUME NEW c \in Casts,
             \/ \E d \in Delegates, e \in Entries : CastRead(c, d, e)
             \/ CastStep(c) /\ ~CastCommit(c)
             \/ CastDies(c)
      PROVE  UNCHANGED <<vote, events>>
  BY <1>4 DEF CastRead, CastStep, CastPrevious, CastUpsert, CastCount, CastEmit, CastDies,
              tables, ballots
<1>5. ASSUME NEW t \in Topics, CreateTopic(t) \/ \E e \in Entries : CreateEntry(e, t)
      PROVE  UNCHANGED <<vote, events>>
  BY <1>5 DEF CreateEntry, CreateTopic, ballots
<1>6. CASE UNCHANGED vars
  BY <1>1, <1>6 DEF vars, tables, ballots
<1> QED  BY <1>1, <1>2, <1>3, <1>4, <1>5, <1>6 DEF Next

THEOREM AuditIsComplete == Spec => []BallotsAreAudited
<1>1. Init => BallotsAreAudited
  BY DEF Init, BallotsAreAudited
<1> QED  BY <1>1, AuditStep, TypeCorrect, PTL DEF Spec

(* One uncommitted write per delegate and topic.                            *)
LEMMA WriterStep == TypeOK /\ OneWriterPerBallot /\ [Next]_vars => OneWriterPerBallot'
<1> SUFFICES ASSUME TypeOK, OneWriterPerBallot, [Next]_vars PROVE OneWriterPerBallot'
  OBVIOUS
<1> USE DEF OneWriterPerBallot, HoldsVote, Wrote
<1>1. ASSUME UNCHANGED cast PROVE OneWriterPerBallot'
  BY <1>1
(* A step that starts no write leaves each slot's hold as it is, or ends it. *)
<1>2. ASSUME NEW c \in Casts, \A b \in Casts \ {c} : cast'[b] = cast[b],
             Wrote(c)' => Wrote(c) /\ cast'[c].delegate = cast[c].delegate
                                   /\ cast'[c].topic = cast[c].topic
      PROVE  OneWriterPerBallot'
  BY <1>2
<1>3. ASSUME NEW c \in Casts, NEW d \in Delegates, NEW e \in Entries, CastRead(c, d, e)
      PROVE  OneWriterPerBallot'
  BY <1>2, <1>3 DEF CastRead, CastTo, TypeOK, NoCast
<1>4. ASSUME NEW c \in Casts, CastStep(c) PROVE OneWriterPerBallot'
  <2>0. cast[c] \in CastType
    BY DEF TypeOK, CastSlot
  <2>1. CASE CastPrevious(c)
    <3>1. /\ \A b \in Casts \ {c} : cast'[b] = cast[b]
          /\ cast'[c].pc \in {"wrote", "writing"}
          /\ cast'[c].pc = "wrote" => cast'[c].prev = cast'[c].entry
      BY <2>0, <2>1 DEF CastPrevious, CastTo, TypeOK, CastType
    <3> QED  BY <1>2, <3>1
  <2>2. CASE CastUpsert(c)
    <3>1. /\ \A b \in Casts \ {c} : cast'[b] = cast[b]
          /\ cast'[c].delegate = cast[c].delegate /\ cast'[c].topic = cast[c].topic
      BY <2>0, <2>2 DEF CastUpsert, CastTo, TypeOK, CastType
    <3> QED  BY <2>2, <3>1 DEF CastUpsert, VoteLocked
  <2>3. CASE CastCount(c)
    <3>1. /\ \A b \in Casts \ {c} : cast'[b] = cast[b]
          /\ cast'[c].delegate = cast[c].delegate /\ cast'[c].topic = cast[c].topic
          /\ cast'[c].prev = cast[c].prev /\ cast'[c].entry = cast[c].entry
          /\ cast[c].pc = "wrote"
      BY <2>0, <2>3 DEF CastCount, CastTo, TypeOK, CastType
    <3> QED  BY <1>2, <3>1
  <2>4. CASE CastCommit(c)
    <3>1. (\A b \in Casts \ {c} : cast'[b] = cast[b]) /\ cast'[c].pc = "emitting"
      BY <2>0, <2>4 DEF CastCommit, CastTo, TypeOK, CastType
    <3> QED  BY <1>2, <3>1
  <2>5. CASE CastEmit(c)
    BY <1>2, <2>5 DEF CastEmit, CastTo, TypeOK, NoCast
  <2> QED  BY <1>4, <2>1, <2>2, <2>3, <2>4, <2>5 DEF CastStep
<1>5. ASSUME NEW c \in Casts, CastDies(c) PROVE OneWriterPerBallot'
  BY <1>2, <1>5 DEF CastDies, CastTo, TypeOK, NoCast
<1>6. ASSUME NEW a \in Admins, AdminStart(a) \/ AdminStep(a) \/ AdminDies(a)
      PROVE  OneWriterPerBallot'
  BY <1>1, <1>6, OthersStay
<1>7. ASSUME NEW t \in Topics, CreateTopic(t) \/ \E e \in Entries : CreateEntry(e, t)
      PROVE  OneWriterPerBallot'
  BY <1>1, <1>7 DEF CreateTopic, CreateEntry
<1>8. CASE UNCHANGED vars
  BY <1>1, <1>8 DEF vars
<1> QED  BY <1>3, <1>4, <1>5, <1>6, <1>7, <1>8 DEF Next

THEOREM WritersTakeTurns == Spec => []OneWriterPerBallot
<1>1. Init => OneWriterPerBallot
  BY DEF Init, OneWriterPerBallot, Wrote, NoCast
<1> QED  BY <1>1, WriterStep, TypeCorrect, PTL DEF Spec

-----------------------------------------------------------------------------
(* Voters and admins keep apart: what a vote checked of its pitch stands    *)
(* until it commits, and what an admin request counted or cleared stands    *)
(* until it writes.                                                        *)
Apart == AdminsIdle \/ CastsIdle
Voted == {"checked", "writing", "wrote", "counted"}
CastSound ==
  \A c \in Casts : cast[c].pc \in Voted =>
    voting[cast[c].topic] = "open" /\ entries[cast[c].entry] = cast[c].topic
EntriesKnown == \A e \in Entries : entries[e] # None => e \in used
Unvoted(e) == \A d \in Delegates, t \in Topics : vote[d][t] # e
SoundDesk(s) ==
  /\ s.pc = "closeSaved" => s.result = Tally(vote, s.topic)
  /\ s.pc \in {"rmTopic", "rmTopicVotes"} => voting[s.topic] # None
  /\ s.pc = "rmTopicVotes" => \A d \in Delegates : vote[d][s.topic] = None
  /\ s.pc \in EditPc \cup {"rmEntry", "rmEntryVotes"} => entries[s.entry] = s.topic
  /\ s.pc \in {"moveChecked", "rmEntryVotes"} => Unvoted(s.entry)

Alone ==
  /\ Apart /\ BallotsRest /\ CastSound /\ EntriesKnown
  /\ \A a \in Admins : SoundDesk(adm[a])
AloneInv == DeskInv /\ PitchHasTopic /\ (VotesAlone => Alone)

LEMMA AloneIsOneDesk == VotesAlone => OneDesk
BY DEF VotesAlone, OneDesk

LEMMA SameTally ==
  ASSUME NEW v, NEW w, NEW t, \A d \in Delegates : v[d][t] = w[d][t]
  PROVE  Tally(v, t) = Tally(w, t)
<1>1. \A e \in Entries : {d \in Delegates : v[d][t] = e} = {d \in Delegates : w[d][t] = e}
  OBVIOUS
<1> QED  BY <1>1 DEF Tally

(* The votes as the transaction of a vote sees them.                        *)
LEMMA OwnViewIs ==
  ASSUME TypeOK, NEW c \in Casts, cast[c].pc # "idle"
  PROVE  /\ cast[c].delegate \in Delegates /\ cast[c].topic \in Topics /\ cast[c].entry \in Entries
         /\ \A d \in Delegates, t \in Topics :
              OwnView(c)[d][t] = IF Wrote(c) /\ d = cast[c].delegate /\ t = cast[c].topic
                                 THEN cast[c].entry ELSE vote[d][t]
<1>1. cast[c] \in CastSlot
  BY DEF TypeOK
<1>2. cast[c].delegate \in Delegates /\ cast[c].topic \in Topics /\ cast[c].entry \in Entries
  BY <1>1 DEF CastSlot, CastType
<1>3. vote \in [Delegates -> [Topics -> Entries \cup {None}]]
  BY DEF TypeOK
<1> QED  BY <1>2, <1>3 DEF OwnView

(* The life of a vote.                                                      *)
LEMMA CastShape ==
  ASSUME TypeOK, NEW c \in Casts, CastStep(c)
  PROVE  /\ \A b \in Casts \ {c} : cast'[b] = cast[b]
         /\ cast[c].pc # "idle" /\ UNCHANGED <<adm, setting>>
         /\ \/ cast[c].pc = "emitting" /\ cast'[c].pc = "idle"
            \/ /\ cast'[c].pc # "idle" /\ cast'[c].topic = cast[c].topic
               /\ cast'[c].entry = cast[c].entry /\ cast'[c].delegate = cast[c].delegate
               /\ cast[c].pc \in Voted
<1>1. cast \in [Casts -> CastSlot] /\ cast[c] \in CastType
  BY DEF TypeOK, CastSlot
<1> USE DEF CastTo, Voted
<1>2. CASE CastPrevious(c)
  BY <1>1, <1>2 DEF CastPrevious, CastType
<1>3. CASE CastUpsert(c)
  BY <1>1, <1>3 DEF CastUpsert, CastType
<1>4. CASE CastCount(c)
  BY <1>1, <1>4 DEF CastCount, CastType
<1>5. CASE CastCommit(c)
  BY <1>1, <1>5 DEF CastCommit, CastType
<1>6. CASE CastEmit(c)
  BY <1>1, <1>6 DEF CastEmit, NoCast
<1> QED  BY <1>2, <1>3, <1>4, <1>5, <1>6 DEF CastStep

(* Who may move while the others wait.                                      *)
LEMMA CastsMoveAlone ==
  ASSUME TypeOK, VotesAlone, Apart, NEW c \in Casts,
         (\E d \in Delegates, e \in Entries : CastRead(c, d, e)) \/ CastStep(c) \/ CastDies(c)
  PROVE  AdminsIdle /\ AdminsIdle' /\ \A b \in Casts \ {c} : cast'[b] = cast[b]
<1>1. AdminsIdle
  BY CastShape DEF Apart, CastsIdle, CastRead, CastMayBegin, VotesAlone, CastDies
<1>2. UNCHANGED adm
  BY CastsTouchNoRow
<1>3. \A b \in Casts \ {c} : cast'[b] = cast[b]
  BY CastShape DEF CastRead, CastDies, CastTo, TypeOK
<1> QED  BY <1>1, <1>2, <1>3 DEF AdminsIdle

LEMMA AdminsMoveAlone ==
  ASSUME TypeOK, VotesAlone, Apart, NEW a \in Admins, AdminStart(a) \/ AdminStep(a) \/ AdminDies(a)
  PROVE  CastsIdle /\ CastsIdle'
<1>1. adm[a].pc # "idle" \/ AdminMayBegin
  BY BeginMoves, StepMoves DEF Moves, AdminDies
<1>2. CastsIdle
  BY <1>1 DEF Apart, AdminsIdle, AdminMayBegin, VotesAlone
<1> QED  BY <1>2, OthersStay DEF CastsIdle

-----------------------------------------------------------------------------
LEMMA AloneCasts ==
  ASSUME TypeOK, VotesAlone, Alone, NEW c \in Casts,
         (\E d \in Delegates, e \in Entries : CastRead(c, d, e)) \/ CastStep(c) \/ CastDies(c)
  PROVE  Alone'
<1>1. /\ AdminsIdle' /\ \A b \in Casts \ {c} : cast'[b] = cast[b]
      /\ UNCHANGED <<voting, entries, used, adm>>
  BY CastsMoveAlone, CastsTouchNoRow DEF Alone
<1>2. \A a \in Admins : SoundDesk(adm[a])'
  BY <1>1 DEF AdminsIdle, SoundDesk, EditPc
<1>3. Apart' /\ EntriesKnown'
  BY <1>1 DEF Apart, Alone, EntriesKnown
<1>4. cast'[c].pc \in Voted => voting[cast'[c].topic] = "open" /\ entries[cast'[c].entry] = cast'[c].topic
  <2>1. ASSUME NEW d \in Delegates, NEW e \in Entries, CastRead(c, d, e)
        PROVE  voting[cast'[c].topic] = "open" /\ entries[cast'[c].entry] = cast'[c].topic
    BY <2>1 DEF CastRead, CastTo, TypeOK, NoCast
  <2>2. CASE CastStep(c)
    BY <2>2, CastShape DEF Alone, CastSound, Voted
  <2>3. CASE CastDies(c)
    BY <2>3 DEF CastDies, CastTo, TypeOK, NoCast, Voted
  <2> QED  BY <2>1, <2>2, <2>3
<1>5. CastSound'
  BY <1>1, <1>4 DEF Alone, CastSound
<1>6. BallotsRest'
  <2>1. CASE CastCommit(c)
    <3>1. cast[c].pc = "counted" /\ vote' = OwnView(c)
      BY <2>1 DEF CastCommit
    <3>2. entries[cast[c].entry] = cast[c].topic
      BY <3>1 DEF Alone, CastSound, Voted
    <3> QED  BY <1>1, <3>1, <3>2, OwnViewIs DEF Alone, BallotsRest
  <2>2. CASE ~CastCommit(c)
    <3>1. UNCHANGED vote
      BY <2>2 DEF CastRead, CastStep, CastPrevious, CastUpsert, CastCount, CastEmit, CastDies, tables, ballots
    <3> QED  BY <1>1, <3>1 DEF Alone, BallotsRest
  <2> QED  BY <2>1, <2>2
<1> QED  BY <1>2, <1>3, <1>5, <1>6 DEF Alone

LEMMA AloneStart ==
  ASSUME TypeOK, VotesAlone, Desk, Alone, NEW a \in Admins, AdminStart(a) \/ AdminDies(a)
  PROVE  Alone'
<1>1. /\ CastsIdle' /\ UNCHANGED <<voting, entries, used, vote>>
      /\ \A b \in Admins \ {a} : adm'[b] = adm[b]
  BY AdminsMoveAlone, BeginMoves, OthersStay DEF Alone, AdminDies, tables, topicRows, ballots
<1>2. /\ adm'[a].pc \notin {"closeSaved", "rmTopicVotes", "moveChecked", "rmEntryVotes"}
      /\ adm'[a].pc = "rmTopic" => voting[adm'[a].topic] # None
      /\ adm'[a].pc \in EditPc \cup {"rmEntry"} => entries[adm'[a].entry] = adm'[a].topic
  <2>1. CASE AdminStart(a)
    BY <2>1, StartShape, BeginMoves DEF EditPc
  <2>2. CASE AdminDies(a)
    BY <2>2 DEF AdminDies, AdmTo, TypeOK, NoAdmin, EditPc
  <2> QED  BY <2>1, <2>2
<1>3. \A b \in Admins : SoundDesk(adm[b])'
  <2>1. SoundDesk(adm[a])'
    BY <1>1, <1>2 DEF SoundDesk
  <2>2. \A b \in Admins \ {a} : SoundDesk(adm[b])'
    BY <1>1 DEF Alone, SoundDesk, Unvoted
  <2> QED  BY <2>1, <2>2
<1> QED  BY <1>1, <1>3 DEF Alone, Apart, BallotsRest, CastSound, EntriesKnown, CastsIdle, Voted

LEMMA AloneWork ==
  ASSUME TypeOK, VotesAlone, OneDesk, Desk, Alone, NEW a \in Admins, AdminStep(a)
  PROVE  Alone'
<1> DEFINE s == adm[a]
<1>0. /\ CastsIdle /\ CastsIdle' /\ \A b \in Admins \ {a} : adm'[b].pc = "idle"
      /\ \A c \in Casts : ~Wrote(c)
  BY AdminsMoveAlone, AtDeskStep DEF Alone, Desk, CastsIdle, Wrote
<1>1. /\ s \in AdminType /\ s.pc # "idle" /\ SoundDesk(s) /\ BallotsRest /\ EntriesKnown
      /\ s.topic \in Topics /\ (s.pc \in EntryPc => s.entry \in Entries)
  <2>1. s \in AdminSlot /\ s.pc # "idle"
    BY StepMoves DEF TypeOK, Moves
  <2> QED  BY <2>1 DEF AdminSlot, AdminType, Alone
(* What is left to show of each step.                                       *)
<1>2. ASSUME BallotsRest', EntriesKnown', SoundDesk(adm[a])' PROVE Alone'
  <2>1. \A b \in Admins : SoundDesk(adm[b])'
    BY <1>0, <1>2 DEF SoundDesk, EditPc
  <2> QED  BY <1>0, <1>2, <2>1 DEF Alone, Apart, CastSound, CastsIdle, Voted
<1>3. ASSUME adm'[a].pc = "idle", UNCHANGED <<entries, used, vote>> PROVE Alone'
  BY <1>1, <1>2, <1>3 DEF SoundDesk, EditPc, BallotsRest, EntriesKnown
<1>4. ASSUME UNCHANGED <<voting, entries, used, vote>>, SoundDesk(adm[a])' PROVE Alone'
  BY <1>1, <1>2, <1>4 DEF BallotsRest, EntriesKnown
<1> USE DEF AdmTo, tables, topicRows, ballots
<1>5. CASE SaveTopicReload(a)
  BY <1>1, <1>4, <1>5 DEF SaveTopicReload, TypeOK, AdminType, SoundDesk, EditPc
<1>6. CASE SaveTopicWrite(a) \/ CloseVotingCommit(a)
  BY <1>3, <1>6 DEF SaveTopicWrite, CloseVotingCommit, TypeOK, NoAdmin
<1>7. CASE CloseVotingAnnounce(a)
  <2>1. /\ adm'[a].pc = "closeSaved" /\ adm'[a].topic = s.topic /\ adm'[a].result = Tally(vote, s.topic)
        /\ UNCHANGED <<voting, entries, used, vote>>
    BY <1>1, <1>7 DEF CloseVotingAnnounce, TypeOK, AdminType
  <2> QED  BY <1>4, <2>1 DEF SoundDesk, EditPc
<1>8. CASE RemoveTopicVotes(a)
  <2>1. /\ s.pc = "rmTopic" /\ adm'[a].pc = "rmTopicVotes" /\ adm'[a].topic = s.topic
        /\ vote' = [d \in Delegates |-> [vote[d] EXCEPT ![s.topic] = None]] /\ UNCHANGED <<voting, entries, used>>
    BY <1>1, <1>8 DEF RemoveTopicVotes, TypeOK, AdminType
  <2>2. \A d \in Delegates, t \in Topics : vote'[d][t] = IF t = s.topic THEN None ELSE vote[d][t]
    BY <1>1, <2>1 DEF TypeOK
  <2>3. BallotsRest' /\ EntriesKnown'
    BY <1>1, <2>1, <2>2 DEF BallotsRest, EntriesKnown
  <2>4. SoundDesk(adm[a])'
    BY <1>1, <2>1, <2>2 DEF SoundDesk, EditPc
  <2> QED  BY <1>2, <2>3, <2>4
<1>9. CASE RemoveTopicRow(a)
  <2>1. /\ s.pc = "rmTopicVotes" /\ adm'[a].pc = "idle" /\ UNCHANGED <<used, vote>>
        /\ entries' = [e \in Entries |-> IF entries[e] = s.topic THEN None ELSE entries[e]]
    BY <1>1, <1>9 DEF RemoveTopicRow, TypeOK, NoAdmin
  <2>2. \A d \in Delegates : vote[d][s.topic] = None
    BY <1>1, <2>1 DEF SoundDesk
  <2>3. BallotsRest'
    BY <1>1, <2>1, <2>2 DEF BallotsRest, TypeOK
  <2>4. EntriesKnown' /\ SoundDesk(adm[a])'
    BY <1>1, <2>1 DEF EntriesKnown, SoundDesk, EditPc
  <2> QED  BY <1>2, <2>3, <2>4
<1>10. CASE SaveEntryReload(a)
  <2>1. /\ s.pc = "editing" /\ adm'[a].pc \in {"saveEntry", "insertEntry"} /\ adm'[a].topic = s.topic
        /\ adm'[a].entry = s.entry /\ UNCHANGED <<voting, entries, used, vote>>
    BY <1>1, <1>10 DEF SaveEntryReload, TypeOK, AdminType
  <2> QED  BY <1>1, <1>4, <2>1 DEF SoundDesk, EditPc
<1>11. CASE SaveEntryWrite(a)
  <2>1. /\ s.pc \in {"saveEntry", "insertEntry"} /\ adm'[a].pc = "idle" /\ UNCHANGED <<used, vote>>
        /\ entries' = [entries EXCEPT ![s.entry] = s.topic] \/ entries' = entries
    BY <1>11 DEF SaveEntryWrite, TypeOK, NoAdmin
  <2>2. s.entry \in Entries /\ entries[s.entry] = s.topic
    BY <1>1, <2>1 DEF SoundDesk, EditPc, EntryPc
  <2>3. entries' = entries
    BY <2>1, <2>2 DEF TypeOK
  <2> QED  BY <1>3, <2>1, <2>3
<1>12. CASE MoveEntryCheck(a)
  <2>1. /\ s.pc = "moving" /\ UNCHANGED <<voting, entries, used, vote>>
        /\ \/ adm'[a].pc = "idle"
           \/ adm'[a].pc = "moveChecked" /\ adm'[a].entry = s.entry /\ Unvoted(s.entry)
    BY <1>1, <1>12 DEF MoveEntryCheck, TypeOK, AdminType, NoAdmin, Unvoted
  <2>2. SoundDesk(adm[a])'
    BY <2>1 DEF SoundDesk, EditPc, Unvoted
  <2> QED  BY <1>4, <2>1, <2>2
<1>13. CASE MoveEntrySave(a)
  <2>1. /\ s.pc = "moveChecked" /\ adm'[a].pc = "idle" /\ UNCHANGED <<used, vote>>
        /\ entries' = [entries EXCEPT ![s.entry] = s.topic] \/ entries' = entries
    BY <1>13 DEF MoveEntrySave, TypeOK, NoAdmin
  <2>2. s.entry \in Entries /\ entries[s.entry] # None /\ Unvoted(s.entry)
    BY <1>1, <2>1 DEF SoundDesk, EntryPc, MovePc, Desk, FreshEntry
  <2>3. \A e \in Entries : e # s.entry => entries'[e] = entries[e]
    BY <2>1, <2>2 DEF TypeOK
  <2>4. \A d \in Delegates, t \in Topics : vote[d][t] \in Entries \cup {None} /\ vote[d][t] # s.entry
    BY <2>2 DEF Unvoted, TypeOK
  <2>5. BallotsRest'
    BY <1>1, <2>1, <2>3, <2>4 DEF BallotsRest
  <2>6. EntriesKnown'
    BY <1>1, <2>1, <2>2, <2>3 DEF EntriesKnown
  <2> QED  BY <1>2, <2>1, <2>5, <2>6 DEF SoundDesk, EditPc
<1>14. CASE RemoveEntryVotes(a)
  <2>1. /\ s.pc = "rmEntry" /\ adm'[a].pc = "rmEntryVotes" /\ adm'[a].topic = s.topic /\ adm'[a].entry = s.entry
        /\ vote' = [d \in Delegates |-> [t \in Topics |-> IF vote[d][t] = s.entry THEN None ELSE vote[d][t]]]
        /\ UNCHANGED <<voting, entries, used>>
    BY <1>1, <1>14 DEF RemoveEntryVotes, TypeOK, AdminType
  <2>2. s.entry # None
    BY <1>1, <2>1, NoneIsNothing DEF EntryPc, RemoveEntryPc
  <2>3. \A d \in Delegates, t \in Topics : vote'[d][t] = IF vote[d][t] = s.entry THEN None ELSE vote[d][t]
    BY <2>1
  <2>4. BallotsRest' /\ EntriesKnown'
    BY <1>1, <2>1, <2>3 DEF BallotsRest, EntriesKnown
  <2>5. SoundDesk(adm[a])'
    BY <1>1, <2>1, <2>2, <2>3 DEF SoundDesk, EditPc, Unvoted
  <2> QED  BY <1>2, <2>4, <2>5
<1>15. CASE RemoveEntryRow(a)
  <2>1. /\ s.pc = "rmEntryVotes" /\ adm'[a].pc = "rmEntryGone" /\ UNCHANGED <<used, vote>>
        /\ entries' = [entries EXCEPT ![s.entry] = None]
    BY <1>1, <1>15 DEF RemoveEntryRow, TypeOK, AdminType
  <2>2. s.entry \in Entries /\ Unvoted(s.entry)
    BY <1>1, <2>1 DEF SoundDesk, EntryPc, RemoveEntryPc
  <2>3. \A e \in Entries : e # s.entry => entries'[e] = entries[e]
    BY <2>1, <2>2 DEF TypeOK
  <2>4. \A d \in Delegates, t \in Topics : vote[d][t] \in Entries \cup {None} /\ vote[d][t] # s.entry
    BY <2>2 DEF Unvoted, TypeOK
  <2>5. BallotsRest'
    BY <1>1, <2>1, <2>3, <2>4 DEF BallotsRest
  <2>6. EntriesKnown'
    BY <1>1, <2>1, <2>2, <2>3 DEF EntriesKnown, TypeOK
  <2> QED  BY <1>2, <2>1, <2>5, <2>6 DEF SoundDesk, EditPc
<1>16. CASE RemoveEntryEmit(a)
  BY <1>3, <1>16 DEF RemoveEntryEmit, TypeOK, NoAdmin
<1> QED
  BY <1>5, <1>6, <1>7, <1>8, <1>9, <1>10, <1>11, <1>12, <1>13, <1>14, <1>15, <1>16 DEF AdminStep

LEMMA AloneStep == AloneInv /\ [Next]_vars => AloneInv'
<1> SUFFICES ASSUME AloneInv, [Next]_vars PROVE AloneInv'
  OBVIOUS
<1>1. DeskInv /\ TypeOK /\ PitchHasTopic /\ DeskInv' /\ PitchHasTopic'
  BY DeskStep, PitchStep DEF AloneInv, DeskInv
<1>2. regime' = regime
  BY <1>1, CastsTouchNoRow, OthersStay DEF Next, vars, CreateTopic, CreateEntry, setting
<1> SUFFICES ASSUME VotesAlone PROVE Alone'
  BY <1>1, <1>2 DEF AloneInv, VotesAlone
<1>3. OneDesk /\ Desk /\ Alone
  BY <1>1, AloneIsOneDesk DEF AloneInv, DeskInv
<1>4. ASSUME UNCHANGED <<voting, entries, used, vote, cast, adm>> PROVE Alone'
  BY <1>3, <1>4 DEF Alone, Apart, AdminsIdle, CastsIdle, BallotsRest, CastSound, EntriesKnown, SoundDesk, Unvoted
(* Where a row is added, nobody is there.                                   *)
<1>5. ASSUME AdminMayBegin, UNCHANGED <<vote, cast, adm>>, BallotsRest', EntriesKnown' PROVE Alone'
  <2>1. AdminsIdle /\ CastsIdle
    BY <1>5 DEF AdminMayBegin, VotesAlone
  <2> QED
    BY <1>5, <2>1 DEF Alone, Apart, AdminsIdle, CastsIdle, CastSound, Voted, SoundDesk, EditPc
<1>6. ASSUME NEW t \in Topics, CreateTopic(t) PROVE Alone'
  BY <1>3, <1>5, <1>6 DEF CreateTopic, Alone, BallotsRest, EntriesKnown, ballots
<1>7. ASSUME NEW e \in Entries, NEW t \in Topics, CreateEntry(e, t) PROVE Alone'
  <2>1. /\ AdminMayBegin /\ e \notin used /\ used' = used \cup {e} /\ entries' = [entries EXCEPT ![e] = t]
        /\ UNCHANGED <<vote, cast, adm>>
    BY <1>7 DEF CreateEntry, ballots
  <2>2. entries[e] = None /\ \A f \in Entries : f # e => entries'[f] = entries[f]
    BY <1>1, <1>3, <2>1 DEF Alone, EntriesKnown, TypeOK
  <2>3. \A d \in Delegates, u \in Topics : vote[d][u] \in Entries \cup {None}
    BY <1>1 DEF TypeOK
  <2>4. \A d \in Delegates, u \in Topics : vote[d][u] # None => vote[d][u] # e
    BY <1>3, <2>2, NoneIsNothing DEF Alone, BallotsRest
  <2>5. BallotsRest'
    BY <1>3, <2>1, <2>2, <2>3, <2>4 DEF Alone, BallotsRest
  <2>6. EntriesKnown'
    BY <1>3, <2>1, <2>2 DEF Alone, EntriesKnown
  <2> QED  BY <1>5, <2>1, <2>5, <2>6
<1>8. CASE UNCHANGED vars
  BY <1>4, <1>8 DEF vars, tables, topicRows, ballots
<1> QED
  BY <1>1, <1>3, <1>6, <1>7, <1>8, AloneCasts, AloneStart, AloneWork DEF Next

LEMMA AloneHolds == Spec => []AloneInv
<1>1. Init => AloneInv
  <2> SUFFICES ASSUME Init PROVE AloneInv
    OBVIOUS
  <2>1. DeskInv
    BY DeskInit
  <2>2. PitchHasTopic /\ Alone
    BY DEF Init, PitchHasTopic, Alone, Apart, AdminsIdle, NoAdmin, BallotsRest, CastSound, NoCast, Voted,
           EntriesKnown, SoundDesk, EditPc
  <2> QED  BY <2>1, <2>2 DEF AloneInv
<1> QED  BY <1>1, AloneStep, PTL DEF Spec

(* While no admin request overlaps anything, no ballot stands for a pitch   *)
(* that is gone, or in another topic than its pitch: moveEntry and the two  *)
(* removals count and clear the ballots first.                              *)
THEOREM BallotsRestThere == Spec => []BallotsRestOnTheirPitch
<1>1. AloneInv => BallotsRestOnTheirPitch
  BY DEF AloneInv, Alone, BallotsRestOnTheirPitch
<1> QED  BY <1>1, AloneHolds, PTL

-----------------------------------------------------------------------------
(* The abstract ballot counts as the service does.                         *)
LEMMA SameStanding == \A t : Ballot!Standing(t) = Tally(vote, t)
<1>1. \A S : Ballot!Cardinality(S) = Cardinality(S)
  BY DEF Ballot!Cardinality, Cardinality, Ballot!IsFiniteSet, IsFiniteSet
<1> QED  BY <1>1 DEF Ballot!Standing, Tally

(* Each step of the service is an act of the abstract ballot, or none.       *)
LEMMA CastsRefine ==
  ASSUME AloneInv, VotesAlone, NEW c \in Casts,
         (\E d \in Delegates, e \in Entries : CastRead(c, d, e)) \/ CastStep(c) \/ CastDies(c)
  PROVE  [Ballot!PNext]_Ballot!pvars
<1>1. TypeOK /\ Alone
  BY DEF AloneInv, DeskInv
<1>2. UNCHANGED <<voting, result, entries>>
  BY CastsTouchNoRow
<1>3. CASE CastCommit(c) /\ Wrote(c)
  <2>1. PICK d, e, t : d = cast[c].delegate /\ e = cast[c].entry /\ t = cast[c].topic
    OBVIOUS
  <2>2. cast[c].pc = "counted" /\ vote' = [vote EXCEPT ![d][t] = e]
    BY <1>3, <2>1 DEF CastCommit, OwnView
  <2>3. d \in Delegates /\ e \in Entries /\ t \in Topics /\ t # None
    BY <1>1, <2>1, <2>2, OwnViewIs, NoneIsNothing
  <2>4. voting[t] = "open" /\ entries[e] = t
    BY <1>1, <2>1, <2>2 DEF Alone, CastSound, Voted
  <2>5. Ballot!Stand(d, e)
    BY <1>2, <2>2, <2>3, <2>4 DEF Ballot!Stand
  <2> QED  BY <2>3, <2>5 DEF Ballot!PNext
<1>4. CASE ~(CastCommit(c) /\ Wrote(c))
  <2>1. UNCHANGED vote
    BY <1>4 DEF CastRead, CastStep, CastPrevious, CastUpsert, CastCount, CastCommit, OwnView, CastEmit, CastDies,
                tables, ballots
  <2> QED  BY <1>2, <2>1 DEF Ballot!pvars
<1> QED  BY <1>3, <1>4

LEMMA AdminsRefine ==
  ASSUME AloneInv, VotesAlone, NEW a \in Admins, AdminStart(a) \/ AdminStep(a) \/ AdminDies(a)
  PROVE  [Ballot!PNext]_Ballot!pvars
<1> DEFINE s == adm[a]
<1>1. TypeOK /\ CloseHoldsAnOpenRow /\ PitchHasTopic /\ Desk /\ Alone /\ SoundDesk(s)
  BY AloneIsOneDesk DEF AloneInv, DeskInv, Alone
<1>2. /\ s \in AdminType
      /\ s.pc # "idle" => s.topic \in Topics /\ s.topic # None
      /\ s.pc \in EntryPc => s.entry \in Entries
  <2>1. s \in AdminSlot
    BY <1>1 DEF TypeOK
  <2> QED  BY <2>1 DEF AdminSlot, AdminType, EntryPc, MovePc, EditPc, RemoveEntryPc
<1>3. CASE UNCHANGED <<voting, result, entries, vote>>
  BY <1>3 DEF Ballot!pvars
<1> USE DEF topicRows, ballots
<1>4. CASE SaveTopicWrite(a)
  <2>1. PICK t, v : t = s.topic /\ v = s.voting
    OBVIOUS
  <2>2. /\ s.pc = "saveTopic" /\ t \in Topics /\ voting[t] # None /\ s.result = result[t]
        /\ v = voting[t] \/ (v = "open" /\ voting[t] = "pending")
    BY <1>1, <1>2, <1>4, <2>1 DEF SaveTopicWrite, Desk, FreshTopic, SavePc
  <2>3. /\ voting' = [voting EXCEPT ![t] = v] \/ voting' = voting
        /\ result' = result /\ UNCHANGED <<entries, vote>>
    BY <1>1, <1>4, <2>1, <2>2 DEF SaveTopicWrite, TypeOK
  <2>4. CASE voting' = voting
    BY <1>3, <2>3, <2>4
  <2>5. CASE voting' # voting
    <3>1. v = "open" /\ voting[t] = "pending" /\ voting' = [voting EXCEPT ![t] = "open"]
      BY <1>1, <2>2, <2>3, <2>5 DEF TypeOK
    <3>2. Ballot!Open(t)
      BY <2>3, <3>1 DEF Ballot!Open
    <3> QED  BY <2>2, <3>2 DEF Ballot!PNext
  <2> QED  BY <2>4, <2>5
<1>5. CASE CloseVotingCommit(a)
  <2>1. PICK t : t = s.topic
    OBVIOUS
  <2>2. /\ s.pc = "closeSaved" /\ t \in Topics /\ voting[t] \in {"pending", "open"} /\ s.result = Tally(vote, t)
        /\ voting' = [voting EXCEPT ![t] = "closed"] /\ result' = [result EXCEPT ![t] = s.result]
        /\ UNCHANGED <<entries, vote>>
    BY <1>1, <1>2, <1>5, <2>1 DEF CloseVotingCommit, CloseHoldsAnOpenRow, ClosePc, SoundDesk
  <2>3. Ballot!Close(t)
    BY <2>2, SameStanding DEF Ballot!Close
  <2> QED  BY <2>2, <2>3 DEF Ballot!PNext
<1>6. CASE RemoveTopicVotes(a)
  <2>1. PICK t : t = s.topic
    OBVIOUS
  <2>2. /\ t \in Topics /\ vote' = [d \in Delegates |-> [vote[d] EXCEPT ![t] = None]]
        /\ UNCHANGED <<voting, result, entries>>
    BY <1>2, <1>6, <2>1 DEF RemoveTopicVotes
  <2>3. Ballot!GiveBack(Delegates, t)
    BY <2>2 DEF Ballot!GiveBack
  <2> QED  BY <2>2, <2>3 DEF Ballot!PNext
<1>7. CASE RemoveTopicRow(a)
  <2>1. PICK t : t = s.topic
    OBVIOUS
  <2>2. /\ s.pc = "rmTopicVotes" /\ t \in Topics /\ voting[t] # None /\ \A d \in Delegates : vote[d][t] = None
        /\ voting' = [voting EXCEPT ![t] = None] /\ result' = [result EXCEPT ![t] = None]
        /\ entries' = [e \in Entries |-> IF entries[e] = t THEN None ELSE entries[e]] /\ UNCHANGED vote
    BY <1>1, <1>2, <1>7, <2>1 DEF RemoveTopicRow, SoundDesk
  <2>3. Ballot!DropTopic(t)
    BY <2>2 DEF Ballot!DropTopic
  <2> QED  BY <2>2, <2>3 DEF Ballot!PNext
<1>8. CASE SaveEntryWrite(a)
  <2>1. /\ s.pc \in {"saveEntry", "insertEntry"} /\ UNCHANGED <<voting, result, vote>>
        /\ entries' = [entries EXCEPT ![s.entry] = s.topic] \/ entries' = entries
    BY <1>8 DEF SaveEntryWrite
  <2>2. s.entry \in Entries /\ entries[s.entry] = s.topic
    BY <1>1, <1>2, <2>1 DEF SoundDesk, EditPc, EntryPc
  <2> QED  BY <1>1, <1>3, <2>1, <2>2 DEF TypeOK
<1>9. CASE MoveEntrySave(a)
  <2>1. PICK e, t : e = s.entry /\ t = s.topic
    OBVIOUS
  <2>2. /\ s.pc = "moveChecked" /\ e \in Entries /\ t \in Topics /\ entries[e] # None /\ Unvoted(e)
        /\ UNCHANGED <<voting, result, vote>>
    BY <1>1, <1>2, <1>9, <2>1 DEF MoveEntrySave, SoundDesk, EntryPc, MovePc, Desk, FreshEntry
  <2>3. CASE voting[t] # None /\ entries' = [entries EXCEPT ![e] = t]
    <3>1. \A d \in Delegates : vote[d][entries[e]] # e
      BY <1>1, <2>2 DEF Unvoted, TypeOK
    <3>2. Ballot!MovePitch(e, t)
      BY <2>2, <2>3, <3>1 DEF Ballot!MovePitch
    <3> QED  BY <2>2, <3>2 DEF Ballot!PNext
  <2> QED  BY <1>3, <1>9, <2>1, <2>2, <2>3 DEF MoveEntrySave, TopicKey
<1>10. CASE RemoveEntryVotes(a)
  <2>1. PICK e, t : e = s.entry /\ t = s.topic
    OBVIOUS
  <2>2. /\ s.pc = "rmEntry" /\ e \in Entries /\ t \in Topics /\ entries[e] = t /\ e # None
        /\ vote' = [d \in Delegates |-> [u \in Topics |-> IF vote[d][u] = e THEN None ELSE vote[d][u]]]
        /\ UNCHANGED <<voting, result, entries>>
    BY <1>1, <1>2, <1>10, <2>1, NoneIsNothing DEF RemoveEntryVotes, SoundDesk, EntryPc, RemoveEntryPc
  <2>3. PICK D : D = {d \in Delegates : vote[d][t] = e}
    OBVIOUS
  <2>4. ASSUME NEW d \in Delegates
        PROVE  vote'[d] = IF d \in D THEN [vote[d] EXCEPT ![t] = None] ELSE vote[d]
    <3>1. vote[d] \in [Topics -> Entries \cup {None}]
      BY <1>1 DEF TypeOK
    <3>2. \A u \in Topics : vote[d][u] = e => u = t
      BY <1>1, <2>2 DEF Alone, BallotsRest
    <3>3. vote'[d] = [u \in Topics |-> IF vote[d][u] = e THEN None ELSE vote[d][u]]
      BY <2>2
    <3> QED  BY <2>2, <2>3, <3>1, <3>2, <3>3
  <2>5. vote' = [d \in Delegates |-> IF d \in D THEN [vote[d] EXCEPT ![t] = None] ELSE vote[d]]
    BY <2>2, <2>4
  <2>6. Ballot!GiveBack(D, t)
    BY <2>2, <2>5 DEF Ballot!GiveBack
  <2> QED  BY <2>2, <2>3, <2>6 DEF Ballot!PNext
<1>11. CASE RemoveEntryRow(a)
  <2>1. PICK e, t : e = s.entry /\ t = s.topic
    OBVIOUS
  <2>2. /\ s.pc = "rmEntryVotes" /\ e \in Entries /\ entries[e] = t /\ t # None /\ Unvoted(e)
        /\ entries' = [entries EXCEPT ![e] = None] /\ UNCHANGED <<voting, result, vote>>
    BY <1>1, <1>2, <1>11, <2>1 DEF RemoveEntryRow, SoundDesk, EntryPc, RemoveEntryPc
  <2>3. Ballot!DropPitch(e)
    BY <2>2 DEF Ballot!DropPitch, Unvoted
  <2> QED  BY <2>2, <2>3 DEF Ballot!PNext
<1>12. CASE ~RowWriter(a) /\ ~RemoveTopicVotes(a) /\ ~RemoveEntryVotes(a)
  <2>1. UNCHANGED vote
    <3>1. CASE AdminStart(a)
      BY <1>1, <3>1, BeginMoves DEF tables
    <3>2. CASE AdminDies(a)
      BY <3>2 DEF AdminDies, tables
    <3>3. CASE AdminStep(a)
      BY <1>12, <3>3 DEF AdminStep, RowWriter, SaveTopicReload, CloseVotingAnnounce, SaveEntryReload, MoveEntryCheck,
         RemoveEntryEmit, tables
    <3> QED  BY <3>1, <3>2, <3>3
  <2>2. UNCHANGED <<voting, result, entries>>
    BY <1>1, <1>12, RowsStay
  <2> QED  BY <1>3, <2>1, <2>2
<1> QED  BY <1>4, <1>5, <1>6, <1>7, <1>8, <1>9, <1>10, <1>11, <1>12 DEF RowWriter

LEMMA BallotStep == AloneInv /\ VotesAlone /\ [Next]_vars => [Ballot!PNext]_Ballot!pvars
<1> SUFFICES ASSUME AloneInv, VotesAlone, [Next]_vars PROVE [Ballot!PNext]_Ballot!pvars
  OBVIOUS
<1>1. TypeOK /\ Desk /\ Alone
  BY AloneIsOneDesk DEF AloneInv, DeskInv
<1>2. ASSUME NEW t \in Topics, CreateTopic(t) PROVE [Ballot!PNext]_Ballot!pvars
  <2>1. /\ voting[t] = None /\ voting' = [voting EXCEPT ![t] = "pending"]
        /\ UNCHANGED <<result, entries, vote>>
    BY <1>1, <1>2 DEF CreateTopic, Desk, Known, ballots
  <2>2. Ballot!AddTopic(t)
    BY <2>1 DEF Ballot!AddTopic
  <2> QED  BY <2>2 DEF Ballot!PNext
<1>3. ASSUME NEW e \in Entries, NEW t \in Topics, CreateEntry(e, t) PROVE [Ballot!PNext]_Ballot!pvars
  <2>1. /\ entries[e] = None /\ voting[t] # None /\ entries' = [entries EXCEPT ![e] = t]
        /\ UNCHANGED <<voting, result, vote>>
    BY <1>1, <1>3 DEF CreateEntry, TopicKey, Alone, EntriesKnown, topicRows, ballots
  <2>2. Ballot!AddPitch(e, t)
    BY <2>1 DEF Ballot!AddPitch
  <2> QED  BY <2>2 DEF Ballot!PNext
<1>4. CASE UNCHANGED vars
  BY <1>4 DEF vars, tables, topicRows, ballots, Ballot!pvars
<1> QED  BY <1>2, <1>3, <1>4, CastsRefine, AdminsRefine DEF Next

LEMMA AloneStays == DeskInv /\ VotesAlone /\ [Next]_vars => VotesAlone'
<1> SUFFICES ASSUME DeskInv, VotesAlone, [Next]_vars PROVE regime' = regime
  BY DEF VotesAlone
<1> QED  BY CastsTouchNoRow, OthersStay DEF DeskInv, Next, vars, CreateTopic, CreateEntry, setting

(* The service implements the abstract ballot, table by table, from every   *)
(* state it starts in where admin requests run alone.                       *)
THEOREM BallotIsImplemented == Spec /\ VotesAlone => ImplementsBallot
<1>1. Init => Ballot!PInit
  BY DEF Init, Ballot!PInit
<1>2. AloneInv => DeskInv
  BY DEF AloneInv
<1> QED  BY <1>1, <1>2, AloneHolds, AloneStays, BallotStep, PTL DEF Spec, ImplementsBallot, Ballot!PSpec

(* closeVoting counts under its lock: the result is the tally as it stood   *)
(* the instant voting closed.                                               *)
THEOREM ClosingCounts == Spec => ResultIsTheTallyAtClose
<1> DEFINE Counts == \A t \in Topics : voting[t] # "closed" /\ voting'[t] = "closed" => result'[t] = Tally(vote, t)
<1>1. AloneInv /\ [Next]_vars => (VotesAlone => Counts)
  <2> SUFFICES ASSUME AloneInv, [Next]_vars, VotesAlone, NEW t \in Topics, voting[t] # "closed", voting'[t] = "closed"
               PROVE  result'[t] = Tally(vote, t)
    OBVIOUS
  <2>1. TypeOK
    BY DEF AloneInv, DeskInv
  <2>2. Ballot!PNext \/ UNCHANGED Ballot!pvars
    BY BallotStep
  <2>3. ASSUME NEW u \in Topics, Ballot!Close(u) PROVE result'[t] = Tally(vote, t)
    BY <2>1, <2>3, SameStanding DEF Ballot!Close, TypeOK
  <2>4. ASSUME NEW u \in Topics, Ballot!AddTopic(u) \/ Ballot!Open(u) \/ Ballot!DropTopic(u) PROVE FALSE
    BY <2>1, <2>4, NoneIsNothing DEF Ballot!AddTopic, Ballot!Open, Ballot!DropTopic, TypeOK
  <2>5. CASE UNCHANGED voting
    BY <2>5
  <2>6. Ballot!PNext => \/ \E u \in Topics : Ballot!AddTopic(u) \/ Ballot!Open(u) \/ Ballot!Close(u) \/ Ballot!DropTopic(u)
                        \/ UNCHANGED voting
    BY DEF Ballot!PNext, Ballot!AddPitch, Ballot!MovePitch, Ballot!DropPitch, Ballot!Stand, Ballot!GiveBack
  <2> QED  BY <2>2, <2>3, <2>4, <2>5, <2>6 DEF Ballot!pvars
<1> QED  BY <1>1, AloneHolds, PTL DEF Spec, ResultIsTheTallyAtClose

-----------------------------------------------------------------------------
(* With one request at a time, and none lost, what the room was last sent   *)
(* for a topic is its standing, but while a request that changed it has not *)
(* told the room yet.                                                       *)
Clearing == {"rmEntryVotes", "rmEntryGone", "rmTopicVotes"}
Untold(t) ==
  \/ \E c \in Casts : cast[c].pc = "emitting" /\ cast[c].topic = t
  \/ \E a \in Admins : adm[a].pc \in Clearing /\ adm[a].topic = t

Serial == regime = "serial" /\ ~mayDie

Current ==
  /\ \A b, c \in Casts : cast[b].pc # "idle" /\ cast[c].pc # "idle" => b = c
  /\ \A c \in Casts : cast[c].pc = "counted" => cast[c].tally = Tally(OwnView(c), cast[c].topic)
  /\ \A c \in Casts : cast[c].pc = "emitting" => cast[c].tally = Tally(vote, cast[c].topic)
  /\ \A t \in Topics : heard[t] = Tally(vote, t) \/ Untold(t)
CurrentInv == AloneInv /\ (Serial => Current)

LEMMA NoBallots ==
  ASSUME NEW v, NEW t, \A d \in Delegates : v[d][t] = None
  PROVE  Tally(v, t) = NoVotes
<1>1. \A e \in Entries : {d \in Delegates : v[d][t] = e} = {}
  BY NoneIsNothing
<1>2. Cardinality({}) = 0
  BY FS_EmptySet
<1> QED  BY <1>1, <1>2 DEF Tally, NoVotes

LEMMA CurrentCasts ==
  ASSUME AloneInv, Serial, Current, NEW c \in Casts,
         (\E d \in Delegates, e \in Entries : CastRead(c, d, e)) \/ CastStep(c) \/ CastDies(c)
  PROVE  Current'
<1>1. TypeOK /\ VotesAlone /\ Alone /\ cast[c] \in CastType
  BY DEF AloneInv, DeskInv, VotesAlone, Serial, TypeOK, CastSlot
<1>2. /\ AdminsIdle /\ AdminsIdle' /\ \A b \in Casts \ {c} : cast'[b] = cast[b]
  BY <1>1, CastsMoveAlone DEF Alone
<1>3. /\ \A b \in Casts \ {c} : cast[b].pc = "idle" /\ cast'[b].pc = "idle"
      /\ \/ \E d \in Delegates, e \in Entries : CastRead(c, d, e) /\ cast[c].pc = "idle"
         \/ CastStep(c)
  <2>1. ~CastDies(c)
    BY DEF CastDies, Serial
  <2>2. CASE CastStep(c)
    BY <1>1, <1>2, <2>2, CastShape DEF Current
  <2>3. CASE \E d \in Delegates, e \in Entries : CastRead(c, d, e)
    BY <1>2, <2>3 DEF CastRead, CastMayBegin, Serial, CastsIdle
  <2> QED  BY <2>1, <2>2, <2>3
<1>4. \A t \in Topics : /\ Untold(t) => cast[c].pc = "emitting" /\ cast[c].topic = t
                        /\ cast'[c].pc = "emitting" /\ cast'[c].topic = t => Untold(t)'
  BY <1>2, <1>3 DEF Untold, AdminsIdle, Clearing
(* What is left to show of each step.                                       *)
<1>6. ASSUME UNCHANGED <<vote, heard>>, cast[c].pc # "emitting", cast'[c].pc \notin {"counted", "emitting"}
      PROVE  Current'
  <2>1. \A t \in Topics : heard'[t] = Tally(vote, t)'
    BY <1>4, <1>6 DEF Current, Tally
  <2> QED  BY <1>3, <1>6, <2>1 DEF Current
<1> USE DEF CastTo
<1>7. CASE \E d \in Delegates, e \in Entries : CastRead(c, d, e) /\ cast[c].pc = "idle"
  <2>1. PICK d \in Delegates, e \in Entries : CastRead(c, d, e) /\ cast[c].pc = "idle"
    BY <1>7
  <2>2. PICK z : z = [NoCast EXCEPT !.pc = "checked", !.delegate = d, !.entry = e, !.topic = entries[e]]
    OBVIOUS
  <2>3. z.pc = "checked" /\ cast' = [cast EXCEPT ![c] = z] /\ UNCHANGED <<vote, heard>>
    BY <2>1, <2>2 DEF CastRead, NoCast, tables, ballots, rooms
  <2>4. cast'[c].pc = "checked"
    BY <1>1, <2>3 DEF TypeOK
  <2> QED  BY <1>6, <2>1, <2>3, <2>4
<1>8. CASE CastPrevious(c) \/ CastUpsert(c)
  <2>1. UNCHANGED <<vote, heard>> /\ cast[c].pc \in {"checked", "writing"}
    BY <1>8 DEF CastPrevious, CastUpsert, tables, ballots, rooms
  <2>2. cast'[c].pc \in {"wrote", "writing"}
    <3>1. CASE CastPrevious(c)
      BY <1>1, <3>1 DEF CastPrevious, TypeOK, CastType
    <3>2. CASE CastUpsert(c)
      BY <1>1, <3>2 DEF CastUpsert, TypeOK, CastType
    <3> QED  BY <1>8, <3>1, <3>2
  <2> QED  BY <1>6, <2>1, <2>2
<1>9. CASE CastCount(c)
  <2>1. /\ cast[c].pc = "wrote" /\ cast'[c].pc = "counted" /\ UNCHANGED <<vote, heard>>
        /\ cast'[c].tally = Tally(OwnView(c), cast[c].topic)
        /\ cast'[c].topic = cast[c].topic /\ cast'[c].delegate = cast[c].delegate
        /\ cast'[c].entry = cast[c].entry /\ cast'[c].prev = cast[c].prev
    BY <1>1, <1>9 DEF CastCount, TypeOK, CastType, tables, ballots, rooms
  <2>2. OwnView(c)' = OwnView(c)
    BY <2>1 DEF OwnView, Wrote
  <2>3. \A t \in Topics : heard'[t] = Tally(vote, t)'
    BY <1>4, <2>1 DEF Current, Tally
  <2>4. PICK w, t : w = OwnView(c) /\ t = cast[c].topic
    OBVIOUS
  <2>5. cast'[c].tally = Tally(w, t) /\ OwnView(c)' = w /\ cast'[c].topic = t
    BY <2>1, <2>2, <2>4
  <2>6. Tally(OwnView(c), cast[c].topic)' = Tally(w, t)
    BY <2>5 DEF Tally
  <2>7. ASSUME NEW b \in Casts, cast'[b].pc # "idle" PROVE b = c
    BY <1>3, <2>7
  <2>8. ASSUME NEW b \in Casts, cast'[b].pc = "counted"
        PROVE  cast'[b].tally = Tally(OwnView(b), cast[b].topic)'
    <3>1. b = c
      BY <2>7, <2>8
    <3> QED  BY <2>5, <2>6, <3>1, Zenon
  <2>9. ASSUME NEW b \in Casts, cast'[b].pc = "emitting" PROVE FALSE
    BY <2>1, <2>7, <2>9
  <2> QED  BY <2>3, <2>7, <2>8, <2>9, Zenon DEF Current
<1>10. CASE CastCommit(c)
  <2>1. /\ cast[c].pc = "counted" /\ cast'[c].pc = "emitting" /\ vote' = OwnView(c) /\ heard' = heard
        /\ cast'[c].topic = cast[c].topic /\ cast'[c].tally = cast[c].tally
    BY <1>1, <1>10 DEF CastCommit, TypeOK, CastType, rooms
  <2>2. PICK t \in Topics : t = cast[c].topic
    BY <1>1, <2>1, OwnViewIs
  <2>3. cast'[c].tally = Tally(vote', t) /\ cast'[c].topic = t
    BY <2>1, <2>2 DEF Current
  <2>4. \A u \in Topics, d \in Delegates : u # t => vote'[d][u] = vote[d][u]
    BY <1>1, <2>1, <2>2, OwnViewIs
  <2>5. \A u \in Topics : u # t => heard'[u] = Tally(vote', u)
    BY <1>4, <2>1, <2>2, <2>4, SameTally DEF Current
  <2>6. Untold(t)'
    BY <1>4, <2>1, <2>3
  <2>7. ASSUME NEW b \in Casts, cast'[b].pc # "idle" PROVE b = c
    BY <1>3, <2>7
  <2>8. \A b \in Casts : cast'[b].pc # "counted"
    BY <2>1, <2>7
  <2>9. cast'[c].tally = Tally(vote, cast[c].topic)'
    BY <2>3 DEF Tally
  <2>10. \A u \in Topics : heard'[u] = Tally(vote, u)' \/ Untold(u)'
    BY <2>5, <2>6 DEF Tally
  <2>11. \A b \in Casts : cast'[b].pc = "emitting" => cast'[b].tally = Tally(vote, cast[b].topic)'
    <3> SUFFICES ASSUME NEW b \in Casts, cast'[b].pc = "emitting"
                 PROVE  cast'[b].tally = Tally(vote, cast[b].topic)'
      OBVIOUS
    <3>1. b = c
      BY <2>7
    <3> QED  BY <2>9, <3>1
  <2>12. \A a, b \in Casts : cast'[a].pc # "idle" /\ cast'[b].pc # "idle" => a = b
    BY <2>7
  <2> QED  BY <2>8, <2>10, <2>11, <2>12, Zenon DEF Current
<1>11. CASE CastEmit(c)
  <2>1. /\ cast[c].pc = "emitting" /\ cast'[c].pc = "idle" /\ vote' = vote
        /\ heard' = [heard EXCEPT ![cast[c].topic] = cast[c].tally]
    BY <1>1, <1>11 DEF CastEmit, TypeOK, NoCast, tables, ballots
  <2>2. cast[c].tally = Tally(vote, cast[c].topic)
    BY <2>1 DEF Current
  <2>3. \A t \in Topics : heard'[t] = Tally(vote, t)
    BY <1>1, <1>4, <2>1, <2>2 DEF Current, TypeOK
  <2> QED  BY <1>3, <2>1, <2>3 DEF Current, Tally
<1> QED  BY <1>3, <1>7, <1>8, <1>9, <1>10, <1>11 DEF CastStep

LEMMA CurrentAdmins ==
  ASSUME AloneInv, Serial, Current, NEW a \in Admins, AdminStart(a) \/ AdminStep(a) \/ AdminDies(a)
  PROVE  Current'
<1> DEFINE s == adm[a]
<1>1. TypeOK /\ VotesAlone /\ OneDesk /\ Desk /\ Alone /\ SoundDesk(s) /\ s \in AdminType
  BY AloneIsOneDesk DEF AloneInv, DeskInv, VotesAlone, Serial, TypeOK, AdminSlot, Alone
<1>2. /\ CastsIdle' /\ CastsIdle /\ \A b \in Admins \ {a} : adm[b].pc = "idle" /\ adm'[b] = adm[b]
  BY <1>1, AdminsMoveAlone, AtDeskStep DEF Alone, Desk
<1>3. \A t \in Topics : /\ Untold(t) <=> s.pc \in Clearing /\ s.topic = t
                        /\ Untold(t)' <=> adm'[a].pc \in Clearing /\ adm'[a].topic = t
  BY <1>2 DEF Untold, CastsIdle, Clearing
<1>4. ASSUME \A t \in Topics : heard'[t] = Tally(vote', t) \/ (adm'[a].pc \in Clearing /\ adm'[a].topic = t)
      PROVE  Current'
  BY <1>2, <1>3, <1>4 DEF Current, CastsIdle, Tally
(* What is asked of the steps that neither change a vote nor tell the room. *)
<1>5. ASSUME UNCHANGED <<vote, heard>>,
             s.pc \in Clearing => adm'[a].pc \in Clearing /\ adm'[a].topic = s.topic
      PROVE  Current'
  BY <1>3, <1>4, <1>5 DEF Current
<1>6. CASE AdminStart(a)
  BY <1>1, <1>5, <1>6, BeginMoves DEF tables, ballots, rooms, Clearing
<1>7. ~AdminDies(a)
  BY DEF AdminDies, Serial
<1> USE DEF AdmTo, tables, ballots, rooms, Clearing
<1>8. CASE SaveTopicReload(a) \/ SaveTopicWrite(a) \/ CloseVotingCommit(a) \/ SaveEntryReload(a) \/ SaveEntryWrite(a)
  BY <1>5, <1>8 DEF SaveTopicReload, SaveTopicWrite, CloseVotingCommit, SaveEntryReload, SaveEntryWrite
<1>9. CASE CloseVotingAnnounce(a) \/ MoveEntryCheck(a) \/ MoveEntrySave(a)
  BY <1>5, <1>9 DEF CloseVotingAnnounce, MoveEntryCheck, MoveEntrySave
<1>10. CASE RemoveTopicVotes(a)
  <2>1. /\ s.pc = "rmTopic" /\ adm'[a].pc = "rmTopicVotes" /\ adm'[a].topic = s.topic /\ heard' = heard
        /\ vote' = [d \in Delegates |-> [vote[d] EXCEPT ![s.topic] = None]]
    BY <1>1, <1>10 DEF RemoveTopicVotes, TypeOK, AdminType
  <2>2. \A u \in Topics, d \in Delegates : u # s.topic => vote'[d][u] = vote[d][u]
    BY <1>1, <2>1 DEF TypeOK
  <2>3. \A u \in Topics : u # s.topic => Tally(vote', u) = Tally(vote, u)
    BY <2>2, SameTally
  <2>4. \A u \in Topics : heard[u] = Tally(vote, u)
    BY <1>3, <2>1 DEF Current
  <2> QED  BY <1>4, <2>1, <2>3, <2>4
<1>11. CASE RemoveTopicRow(a)
  <2>1. s.pc = "rmTopicVotes" /\ vote' = vote /\ heard' = [heard EXCEPT ![s.topic] = NoVotes]
    BY <1>11 DEF RemoveTopicRow
  <2>2. Tally(vote, s.topic) = NoVotes
    BY <1>1, <2>1, NoBallots DEF SoundDesk
  <2>3. \A t \in Topics : heard'[t] = Tally(vote, t)
    BY <1>1, <1>3, <2>1, <2>2 DEF Current, TypeOK
  <2> QED  BY <1>4, <2>1, <2>3
<1>12. CASE RemoveEntryVotes(a)
  <2>1. /\ s.pc = "rmEntry" /\ adm'[a].pc = "rmEntryVotes" /\ adm'[a].topic = s.topic /\ heard' = heard
        /\ vote' = [d \in Delegates |-> [t \in Topics |-> IF vote[d][t] = s.entry THEN None ELSE vote[d][t]]]
    BY <1>1, <1>12 DEF RemoveEntryVotes, TypeOK, AdminType
  <2>2. s.entry # None /\ entries[s.entry] = s.topic
    <3>1. s \in AdminSlot
      BY <1>1 DEF TypeOK
    <3> QED  BY <1>1, <2>1, <3>1 DEF SoundDesk, AdminSlot, EntryPc, RemoveEntryPc
  <2>3. \A u \in Topics, d \in Delegates : vote[d][u] = s.entry => u = s.topic
    BY <1>1, <2>2 DEF Alone, BallotsRest
  <2>4. \A u \in Topics, d \in Delegates : u # s.topic => vote'[d][u] = vote[d][u]
    BY <2>1, <2>3
  <2>5. \A u \in Topics : u # s.topic => heard'[u] = Tally(vote', u)
    BY <1>3, <2>1, <2>4, SameTally DEF Current
  <2> QED  BY <1>4, <2>1, <2>5
<1>13. CASE RemoveEntryRow(a)
  BY <1>1, <1>5, <1>13 DEF RemoveEntryRow, TypeOK, AdminType
<1>14. CASE RemoveEntryEmit(a)
  <2>1. /\ s.pc = "rmEntryGone" /\ vote' = vote
        /\ heard' = [heard EXCEPT ![s.topic] = Tally(vote, s.topic)]
    BY <1>14 DEF RemoveEntryEmit
  <2>2. \A t \in Topics : heard'[t] = Tally(vote, t)
    BY <1>1, <1>3, <2>1 DEF Current, TypeOK
  <2> QED  BY <1>4, <2>1, <2>2
<1> QED  BY <1>6, <1>7, <1>8, <1>9, <1>10, <1>11, <1>12, <1>13, <1>14 DEF AdminStep

LEMMA CurrentStep == CurrentInv /\ [Next]_vars => CurrentInv'
<1> SUFFICES ASSUME CurrentInv, [Next]_vars PROVE CurrentInv'
  OBVIOUS
<1>1. AloneInv /\ AloneInv' /\ DeskInv /\ TypeOK
  BY AloneStep DEF CurrentInv, AloneInv, DeskInv
<1>2. UNCHANGED setting
  BY <1>1, CastsTouchNoRow, OthersStay DEF Next, vars, CreateTopic, CreateEntry
<1> SUFFICES ASSUME Serial, Current PROVE Current'
  BY <1>1, <1>2 DEF CurrentInv, Serial, setting
<1>3. ASSUME UNCHANGED <<vote, heard, cast, adm>> PROVE Current'
  BY <1>3 DEF Current, Tally, Untold, OwnView, Wrote
<1>4. ASSUME (\E t \in Topics : CreateTopic(t)) \/ (\E e \in Entries, t \in Topics : CreateEntry(e, t))
      PROVE  Current'
  BY <1>3, <1>4 DEF CreateTopic, CreateEntry, ballots, rooms
<1>5. CASE UNCHANGED vars
  BY <1>3, <1>5 DEF vars, tables, ballots, rooms
<1> QED  BY <1>1, <1>4, <1>5, CurrentCasts, CurrentAdmins DEF Next

LEMMA CurrentHolds == Spec => []CurrentInv
<1>1. ASSUME Init, AloneInv PROVE CurrentInv
  <2>1. \A t \in Topics : heard[t] = Tally(vote, t)
    BY <1>1, NoBallots DEF Init
  <2> QED  BY <1>1, <2>1 DEF CurrentInv, Current, Init, NoCast
<1> QED  BY <1>1, CurrentStep, AloneHolds, PTL DEF Spec

(* castVote, removeEntry and removeTopic tell the room after they commit:    *)
(* with one request at a time, and none lost before it told, the last tally *)
(* every screen was sent is the standing of the topic.                      *)
THEOREM ScreensShowTheStanding == Spec => []ScreensAreCurrent
<1>1. CurrentInv => ScreensAreCurrent
  BY DEF CurrentInv, Current, Serial, ScreensAreCurrent, Untold, CastsIdle, AdminsIdle, Clearing
<1> QED  BY <1>1, CurrentHolds, PTL
=============================================================================
