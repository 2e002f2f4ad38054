------------------------------- MODULE Voting -------------------------------
(***************************************************************************)
(* The pitchathon ballot: src/voting/voting.service.ts over the tables     *)
(* pitch_topics, pitch_entries, pitch_votes and pitch_vote_events.         *)
(*                                                                         *)
(* A request is a slot that moves from await to await; between two of its  *)
(* steps every other request may run.  Each step is one statement, or one  *)
(* transaction's commit, at PostgreSQL's READ COMMITTED level: it sees the *)
(* committed rows and its own writes, and waits for a row that another     *)
(* transaction has locked.  A refused request (404, 409) changes nothing:  *)
(* a refusal is the guard of a step, or the branch that ends the request.  *)
(***************************************************************************)
EXTENDS Naturals, FiniteSets

CONSTANTS Delegates, Topics, Entries,
          Casts,     \* slots for castVote requests
          Admins,    \* slots for the requests of the admin screens
          Regimes,   \* what may overlap, see "regime" below
          Deaths,    \* whether requests may die between two statements
          None

ASSUME DelegatesFinite == IsFiniteSet(Delegates)
ASSUME NoneIsNothing ==
  None \notin Delegates \cup Topics \cup Entries
              \cup {"pending", "open", "closed"} \cup [Entries -> Nat]
ASSUME Switches ==
  Regimes \subseteq {"serial", "alone", "single", "shared"} /\ Deaths \subseteq BOOLEAN

VARIABLES
  voting,    \* pitch_topics.voting; None where the row does not exist
  result,    \* pitch_topics.result (and closedAt with it)
  entries,   \* pitch_entries.topicId; None where the row does not exist
  vote,      \* pitch_votes: one row per delegate and topic
  events,    \* pitch_vote_events, as <<delegate, topic, entry>>
  heard,     \* the last tally the voting room was sent for a topic
  announced, \* the last voting:closed payload sent for a topic
  used,      \* uuids handed out so far: none is handed out twice
  cast, adm, \* the requests in flight
  mayDie,
  regime     \* "serial": no two requests overlap; "alone": only votes overlap;
             \* "single": no two admin requests overlap; "shared": the code's own

setting == <<mayDie, regime>>
topicRows == <<voting, result>>
ballots == <<vote, events>>
rooms == <<heard, announced>>
tables == <<topicRows, entries, ballots, used>>
vars == <<tables, rooms, cast, adm, setting>>

TopicVoting == {"pending", "open", "closed"}
NoVotes == [e \in Entries |-> 0]

(* tally(): one topic's standing, counted from the votes v that are visible. *)
Tally(v, t) == [e \in Entries |-> Cardinality({d \in Delegates : v[d][t] = e})]

NoCast == [pc |-> "idle", delegate |-> None, entry |-> None, topic |-> None,
           prev |-> None, tally |-> NoVotes]
NoAdmin == [pc |-> "idle", topic |-> None, entry |-> None,
            voting |-> None, result |-> None, dirty |-> {}]

Init ==
  /\ voting = [t \in Topics |-> None]
  /\ result = [t \in Topics |-> None]
  /\ entries = [e \in Entries |-> None]
  /\ vote = [d \in Delegates |-> [t \in Topics |-> None]]
  /\ events = {}
  /\ heard = [t \in Topics |-> NoVotes]
  /\ announced = [t \in Topics |-> None]
  /\ used = {}
  /\ cast = [c \in Casts |-> NoCast]
  /\ adm = [a \in Admins |-> NoAdmin]
  /\ regime \in Regimes
  /\ mayDie \in Deaths

-----------------------------------------------------------------------------
(* Row locks, read off the requests that hold them.                        *)

HoldsTopic(a, t) == adm[a].pc \in {"closing", "closeSaved"} /\ adm[a].topic = t
TopicLocked(t) == \E a \in Admins : HoldsTopic(a, t)

HoldsEntry(a, e) == adm[a].pc \in {"moving", "moveChecked"} /\ adm[a].entry = e
EntryLocked(e) == \E a \in Admins : HoldsEntry(a, e)

(* The upsert of castVote, made but not committed.                         *)
Wrote(c) == cast[c].pc \in {"wrote", "counted"} /\ cast[c].prev # cast[c].entry
HoldsVote(c, d, t) == Wrote(c) /\ cast[c].delegate = d /\ cast[c].topic = t
VoteLocked(d, t) == \E c \in Casts : HoldsVote(c, d, t)

(* Writing an entry's topicId takes a key lock on the topic row.           *)
TopicKey(t) == voting[t] # None /\ ~TopicLocked(t)

CastsIdle == \A c \in Casts : cast[c].pc = "idle"
AdminsIdle == \A a \in Admins : adm[a].pc = "idle"

CastMayBegin == /\ regime \in {"serial", "alone"} => AdminsIdle
                /\ regime = "serial" => CastsIdle
AdminMayBegin == /\ regime # "shared" => AdminsIdle
                 /\ regime \in {"serial", "alone"} => CastsIdle

CastTo(c, slot) == cast' = [cast EXCEPT ![c] = slot] /\ UNCHANGED <<adm, setting>>
AdmTo(a, slot) == adm' = [adm EXCEPT ![a] = slot] /\ UNCHANGED <<cast, setting>>
Begin(a, slot) ==
  /\ adm[a].pc = "idle"
  /\ AdminMayBegin
  /\ AdmTo(a, slot)
  /\ UNCHANGED <<tables, rooms>>

-----------------------------------------------------------------------------
(* Each "Slip:" below is a plausible wrong version of the action after it:  *)
(* what the properties are tried against, and no part of Next.              *)

(* castVote.  The entry and its topic are read, and OPEN is checked, before *)
(* the transaction begins.                                                 *)
CastRead(c, d, e) ==
  /\ cast[c].pc = "idle"
  /\ CastMayBegin
  /\ entries[e] # None
  /\ voting[entries[e]] = "open"
  /\ CastTo(c, [NoCast EXCEPT !.pc = "checked", !.delegate = d,
                              !.entry = e, !.topic = entries[e]])
  /\ UNCHANGED <<tables, rooms>>

(* In the transaction: the previous vote.  A re-tap has nothing to write.   *)
CastPrevious(c) ==
  LET prev == vote[cast[c].delegate][cast[c].topic] IN
  /\ cast[c].pc = "checked"
  /\ CastTo(c, [cast[c] EXCEPT !.prev = prev,
                  !.pc = IF prev = cast[c].entry THEN "wrote" ELSE "writing"])
  /\ UNCHANGED <<tables, rooms>>

(* The upsert waits for another transaction's upsert of the same row.       *)
CastUpsert(c) ==
  /\ cast[c].pc = "writing"
  /\ ~VoteLocked(cast[c].delegate, cast[c].topic)
  /\ CastTo(c, [cast[c] EXCEPT !.pc = "wrote"])
  /\ UNCHANGED <<tables, rooms>>

(* What the transaction sees: the committed votes and its own write.        *)
OwnView(c) ==
  IF Wrote(c) THEN [vote EXCEPT ![cast[c].delegate][cast[c].topic] = cast[c].entry]
  ELSE vote

(* Slip: the tally is read outside the transaction.                         *)
CastCountOutside(c) ==
  /\ cast[c].pc = "wrote"
  /\ CastTo(c, [cast[c] EXCEPT !.pc = "counted", !.tally = Tally(vote, cast[c].topic)])
  /\ UNCHANGED <<tables, rooms>>

CastCount(c) ==
  /\ cast[c].pc = "wrote"
  /\ CastTo(c, [cast[c] EXCEPT !.pc = "counted", !.tally = Tally(OwnView(c), cast[c].topic)])
  /\ UNCHANGED <<tables, rooms>>

(* Slip: only a first ballot gets an event, a changed one does not.         *)
CastCommitFirstAudited(c) ==
  /\ cast[c].pc = "counted"
  /\ vote' = OwnView(c)
  /\ events' = IF cast[c].prev = None
               THEN events \cup {<<cast[c].delegate, cast[c].topic, cast[c].entry>>}
               ELSE events
  /\ CastTo(c, [cast[c] EXCEPT !.pc = "emitting"])
  /\ UNCHANGED <<topicRows, entries, used, rooms>>

CastCommit(c) ==
  /\ cast[c].pc = "counted"
  /\ vote' = OwnView(c)
  /\ events' = IF Wrote(c)
               THEN events \cup {<<cast[c].delegate, cast[c].topic, cast[c].entry>>}
               ELSE events
  /\ CastTo(c, [cast[c] EXCEPT !.pc = "emitting"])
  /\ UNCHANGED <<topicRows, entries, used, rooms>>

CastEmit(c) ==
  /\ cast[c].pc = "emitting"
  /\ heard' = [heard EXCEPT ![cast[c].topic] = cast[c].tally]
  /\ CastTo(c, NoCast)
  /\ UNCHANGED <<tables, announced>>

-----------------------------------------------------------------------------
(* Topics.                                                                  *)
CreateTopic(t) ==
  /\ AdminMayBegin
  /\ t \notin used
  /\ used' = used \cup {t}
  /\ voting' = [voting EXCEPT ![t] = "pending"]
  /\ UNCHANGED <<result, entries, ballots, rooms, cast, adm, setting>>

(* A topic entity as a request read it.                                     *)
TopicEntity(pc, t) ==
  [NoAdmin EXCEPT !.pc = pc, !.topic = t, !.voting = voting[t], !.result = result[t]]

(* updateTopic assigns only the name or the position, which are not modelled. *)
UpdateTopicRead(a, t) == voting[t] # None /\ Begin(a, TopicEntity("saving", t))

(* Slip: a closed topic is opened again.                                    *)
ReopenVotingRead(a, t) ==
  /\ voting[t] \in {"pending", "closed"}
  /\ Begin(a, [TopicEntity("saving", t) EXCEPT !.voting = "open"])

(* openVoting refuses a closed topic and leaves an open one as it is.       *)
OpenVotingRead(a, t) ==
  /\ voting[t] = "pending"
  /\ Begin(a, [TopicEntity("saving", t) EXCEPT !.voting = "open"])

(* Repository.save reads the row again; the columns in which the entity     *)
(* differs from it are the ones it will write.                              *)
SaveTopicReload(a) ==
  LET t == adm[a].topic IN
  /\ adm[a].pc = "saving"
  /\ AdmTo(a, [adm[a] EXCEPT
       !.pc = IF voting[t] = None THEN "insertTopic" ELSE "saveTopic",
       !.dirty = (IF adm[a].voting # voting[t] THEN {"voting"} ELSE {})
                 \cup (IF adm[a].result # result[t] THEN {"result"} ELSE {})])
  /\ UNCHANGED <<tables, rooms>>

(* Then an UPDATE, which writes nothing if the row is gone by now, or an    *)
(* INSERT under the old id, refused if the row exists by now.               *)
SaveTopicWrite(a) ==
  LET t == adm[a].topic
      Put(c) == \/ adm[a].pc = "saveTopic" /\ voting[t] # None /\ c \in adm[a].dirty
                \/ adm[a].pc = "insertTopic" /\ voting[t] = None
  IN
  /\ adm[a].pc \in {"saveTopic", "insertTopic"}
  /\ ~TopicLocked(t)
  /\ voting' = [voting EXCEPT ![t] = IF Put("voting") THEN adm[a].voting ELSE @]
  /\ result' = [result EXCEPT ![t] = IF Put("result") THEN adm[a].result ELSE @]
  /\ AdmTo(a, NoAdmin)
  /\ UNCHANGED <<entries, ballots, used, rooms>>

(* closeVoting locks the topic row; a closed topic is returned as it is.    *)
CloseVotingLock(a, t) ==
  /\ voting[t] \in {"pending", "open"}
  /\ ~TopicLocked(t)
  /\ Begin(a, [NoAdmin EXCEPT !.pc = "closing", !.topic = t])

(* Slip: the result is the last tally the room was sent.                    *)
CloseVotingAnnounceHeard(a) ==
  LET tally == heard[adm[a].topic] IN
  /\ adm[a].pc = "closing"
  /\ AdmTo(a, [adm[a] EXCEPT !.pc = "closeSaved", !.result = tally])
  /\ announced' = [announced EXCEPT ![adm[a].topic] = tally]
  /\ UNCHANGED <<tables, heard>>

(* The tally, the save (under the lock it finds the row unchanged) and the  *)
(* broadcast all come before the commit.                                    *)
CloseVotingAnnounce(a) ==
  LET tally == Tally(vote, adm[a].topic) IN
  /\ adm[a].pc = "closing"
  /\ AdmTo(a, [adm[a] EXCEPT !.pc = "closeSaved", !.result = tally])
  /\ announced' = [announced EXCEPT ![adm[a].topic] = tally]
  /\ UNCHANGED <<tables, heard>>

(* Slip: the result is counted again after the broadcast.                   *)
CloseVotingRecount(a) ==
  LET t == adm[a].topic IN
  /\ adm[a].pc = "closeSaved"
  /\ voting' = [voting EXCEPT ![t] = "closed"]
  /\ result' = [result EXCEPT ![t] = Tally(vote, t)]
  /\ AdmTo(a, NoAdmin)
  /\ UNCHANGED <<entries, ballots, used, rooms>>

CloseVotingCommit(a) ==
  LET t == adm[a].topic IN
  /\ adm[a].pc = "closeSaved"
  /\ voting' = [voting EXCEPT ![t] = "closed"]
  /\ result' = [result EXCEPT ![t] = adm[a].result]
  /\ AdmTo(a, NoAdmin)
  /\ UNCHANGED <<entries, ballots, used, rooms>>

RemoveTopicRead(a, t) ==
  voting[t] # None /\ Begin(a, [NoAdmin EXCEPT !.pc = "rmTopic", !.topic = t])

(* The DELETE takes the committed rows and waits for those being updated.   *)
RemoveTopicVotes(a) ==
  LET t == adm[a].topic IN
  /\ adm[a].pc = "rmTopic"
  /\ \A d \in Delegates : vote[d][t] # None => ~VoteLocked(d, t)
  /\ vote' = [d \in Delegates |-> [vote[d] EXCEPT ![t] = None]]
  /\ AdmTo(a, [adm[a] EXCEPT !.pc = "rmTopicVotes"])
  /\ UNCHANGED <<topicRows, entries, events, used, rooms>>

(* The topic, its entries by cascade, and the event that clears the screens. *)
RemoveTopicRow(a) ==
  LET t == adm[a].topic IN
  /\ adm[a].pc = "rmTopicVotes"
  /\ ~TopicLocked(t)
  /\ \A e \in Entries : entries[e] = t => ~EntryLocked(e)
  /\ voting' = [voting EXCEPT ![t] = None]
  /\ result' = [result EXCEPT ![t] = None]
  /\ entries' = [e \in Entries |-> IF entries[e] = t THEN None ELSE entries[e]]
  /\ heard' = [heard EXCEPT ![t] = NoVotes]
  /\ AdmTo(a, NoAdmin)
  /\ UNCHANGED <<ballots, used, announced>>

-----------------------------------------------------------------------------
(* Entries.                                                                 *)
CreateEntry(e, t) ==
  /\ AdminMayBegin
  /\ e \notin used
  /\ TopicKey(t)
  /\ used' = used \cup {e}
  /\ entries' = [entries EXCEPT ![e] = t]
  /\ UNCHANGED <<topicRows, ballots, rooms, cast, adm, setting>>

EntryEntity(pc, e) == [NoAdmin EXCEPT !.pc = pc, !.entry = e, !.topic = entries[e]]

(* updateEntry without dto.topicId takes no lock; the entity keeps the      *)
(* topicId it was read with.                                                *)
EditEntryRead(a, e) == entries[e] # None /\ Begin(a, EntryEntity("editing", e))

SaveEntryReload(a) ==
  LET e == adm[a].entry IN
  /\ adm[a].pc = "editing"
  /\ AdmTo(a, [adm[a] EXCEPT
       !.pc = IF entries[e] = None THEN "insertEntry" ELSE "saveEntry",
       !.dirty = IF entries[e] = adm[a].topic THEN {} ELSE {"topicId"}])
  /\ UNCHANGED <<tables, rooms>>

SaveEntryWrite(a) ==
  LET e == adm[a].entry
      t == adm[a].topic
      put == \/ adm[a].pc = "saveEntry" /\ entries[e] # None /\ "topicId" \in adm[a].dirty
             \/ adm[a].pc = "insertEntry" /\ entries[e] = None
  IN
  /\ adm[a].pc \in {"saveEntry", "insertEntry"}
  /\ ~EntryLocked(e)
  /\ \/ put /\ TopicKey(t) /\ entries' = [entries EXCEPT ![e] = t]
     \/ (~put \/ voting[t] = None) /\ UNCHANGED entries
  /\ AdmTo(a, NoAdmin)
  /\ UNCHANGED <<topicRows, ballots, used, rooms>>

(* updateEntry with dto.topicId locks the entry row first.                  *)
MoveEntryLock(a, e, t) ==
  /\ entries[e] \notin {None, t}
  /\ ~EntryLocked(e)
  /\ Begin(a, [NoAdmin EXCEPT !.pc = "moving", !.entry = e, !.topic = t])

(* Slip: the ballots are not counted.                                       *)
MoveEntryUncounted(a) ==
  /\ adm[a].pc = "moving"
  /\ AdmTo(a, IF voting[adm[a].topic] # None
              THEN [adm[a] EXCEPT !.pc = "moveChecked"] ELSE NoAdmin)
  /\ UNCHANGED <<tables, rooms>>

(* The target is looked up and the entry's votes are counted: 404 and 409   *)
(* roll back.                                                               *)
MoveEntryCheck(a) ==
  LET holdsVotes == \E d \in Delegates, t \in Topics : vote[d][t] = adm[a].entry IN
  /\ adm[a].pc = "moving"
  /\ AdmTo(a, IF voting[adm[a].topic] # None /\ ~holdsVotes
              THEN [adm[a] EXCEPT !.pc = "moveChecked"] ELSE NoAdmin)
  /\ UNCHANGED <<tables, rooms>>

MoveEntrySave(a) ==
  LET t == adm[a].topic IN
  /\ adm[a].pc = "moveChecked"
  /\ \/ TopicKey(t) /\ entries' = [entries EXCEPT ![adm[a].entry] = t]
     \/ voting[t] = None /\ UNCHANGED entries
  /\ AdmTo(a, NoAdmin)
  /\ UNCHANGED <<topicRows, ballots, used, rooms>>

RemoveEntryRead(a, e) == entries[e] # None /\ Begin(a, EntryEntity("rmEntry", e))

(* Slip: the ballots are left to a cascade that is not there.               *)
RemoveEntryKeepingVotes(a) ==
  /\ adm[a].pc = "rmEntry"
  /\ AdmTo(a, [adm[a] EXCEPT !.pc = "rmEntryVotes"])
  /\ UNCHANGED <<tables, rooms>>

RemoveEntryVotes(a) ==
  LET e == adm[a].entry IN
  /\ adm[a].pc = "rmEntry"
  /\ \A d \in Delegates, t \in Topics : vote[d][t] = e => ~VoteLocked(d, t)
  /\ vote' = [d \in Delegates |-> [t \in Topics |->
                IF vote[d][t] = e THEN None ELSE vote[d][t]]]
  /\ AdmTo(a, [adm[a] EXCEPT !.pc = "rmEntryVotes"])
  /\ UNCHANGED <<topicRows, entries, events, used, rooms>>

RemoveEntryRow(a) ==
  /\ adm[a].pc = "rmEntryVotes"
  /\ ~EntryLocked(adm[a].entry)
  /\ entries' = [entries EXCEPT ![adm[a].entry] = None]
  /\ AdmTo(a, [adm[a] EXCEPT !.pc = "rmEntryGone"])
  /\ UNCHANGED <<topicRows, ballots, used, rooms>>

(* The whole tally of the topic the entry was read in rides on the event.   *)
RemoveEntryEmit(a) ==
  /\ adm[a].pc = "rmEntryGone"
  /\ heard' = [heard EXCEPT ![adm[a].topic] = Tally(vote, adm[a].topic)]
  /\ AdmTo(a, NoAdmin)
  /\ UNCHANGED <<tables, announced>>

-----------------------------------------------------------------------------
(* The process or its connection is lost: what was not committed is undone. *)
CastDies(c) == mayDie /\ cast[c].pc # "idle" /\ CastTo(c, NoCast) /\ UNCHANGED <<tables, rooms>>
AdminDies(a) == mayDie /\ adm[a].pc # "idle" /\ AdmTo(a, NoAdmin) /\ UNCHANGED <<tables, rooms>>

CastStep(c) == \/ CastPrevious(c) \/ CastUpsert(c) \/ CastCount(c)
               \/ CastCommit(c) \/ CastEmit(c)

AdminStart(a) ==
  \/ \E t \in Topics : \/ UpdateTopicRead(a, t) \/ OpenVotingRead(a, t)
                       \/ CloseVotingLock(a, t) \/ RemoveTopicRead(a, t)
  \/ \E e \in Entries : EditEntryRead(a, e) \/ RemoveEntryRead(a, e)
  \/ \E e \in Entries, t \in Topics : MoveEntryLock(a, e, t)

AdminStep(a) ==
  \/ SaveTopicReload(a) \/ SaveTopicWrite(a)
  \/ CloseVotingAnnounce(a) \/ CloseVotingCommit(a)
  \/ RemoveTopicVotes(a) \/ RemoveTopicRow(a)
  \/ SaveEntryReload(a) \/ SaveEntryWrite(a)
  \/ MoveEntryCheck(a) \/ MoveEntrySave(a)
  \/ RemoveEntryVotes(a) \/ RemoveEntryRow(a) \/ RemoveEntryEmit(a)

Next ==
  \/ \E t \in Topics : CreateTopic(t)
  \/ \E e \in Entries, t \in Topics : CreateEntry(e, t)
  \/ \E c \in Casts : \/ \E d \in Delegates, e \in Entries : CastRead(c, d, e)
                      \/ CastStep(c) \/ CastDies(c)
  \/ \E a \in Admins : AdminStart(a) \/ AdminStep(a) \/ AdminDies(a)

Spec == Init /\ [][Next]_vars
=============================================================================
