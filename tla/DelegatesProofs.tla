--------------------------- MODULE DelegatesProofs ---------------------------
(***************************************************************************)
(* Proofs about the records delegates leave and about what reaches their    *)
(* phones and screens: the votes of Discussions, what hangs off a session   *)
(* in SessionRecords, the reactions of Network, the certificate of          *)
(* Certificates; the announcements and direct notices of Announcements, the *)
(* switches of LiveOps and the key of Reveal.  Each component is taken      *)
(* alone, with its own specification; the last part composes them with the  *)
(* components of IdentityProofs.                                           *)
(***************************************************************************)
EXTENDS IdentityProofs, MCDelegates, SequenceTheorems

-----------------------------------------------------------------------------
(* Votes.  In turn, what a vote read of its voter's choice stands until it  *)
(* commits: nobody else changes that row.                                  *)
For(c, s) == {v \in Voters : choice[c][v] = s}

VotersInTurn == InTurn => \A q, r \in Ballots :
  ballot[q] # None /\ ballot[r] # None /\ ballot[q].voter = ballot[r].voter => q = r

VotesInv ==
  /\ DiscussionsTypeOK /\ VotersInTurn
  /\ InTurn => \A r \in Ballots : ballot[r] # None /\ ballot[r].pc # "reading" =>
       ballot[r].previous = choice[ballot[r].c][ballot[r].voter]
  /\ InTurn => \A c \in Comments, s \in Sides : counter[c][s] = Cardinality(For(c, s))

LEMMA VotesStep == VotesInv /\ [DiscussionsNext]_discussionsVars => VotesInv'
<1> SUFFICES ASSUME VotesInv, [DiscussionsNext]_discussionsVars PROVE VotesInv'
  OBVIOUS
<1>t. /\ counter \in [Comments -> [Sides -> Int]] /\ choice \in [Comments -> [Voters -> Choices]]
      /\ ballot \in [Ballots -> BallotRecords \cup {None}]
  BY DEF VotesInv, DiscussionsTypeOK
(* Ballots that leave choices and counters alone.                           *)
<1>b. ASSUME NEW r \in Ballots, NEW x \in BallotRecords \cup {None}, ballot' = [ballot EXCEPT ![r] = x],
             posted' \subseteq Comments, UNCHANGED <<counter, choice, regime>>,
             InTurn /\ x # None => \A q \in Ballots : q # r /\ ballot[q] # None => ballot[q].voter # x.voter,
             InTurn /\ x # None /\ x.pc # "reading" => x.previous = choice[x.c][x.voter]
      PROVE  VotesInv'
  <2>1. /\ ballot' \in [Ballots -> BallotRecords \cup {None}] /\ ballot'[r] = x
        /\ \A q \in Ballots : q # r => ballot'[q] = ballot[q]
    BY <1>b, <1>t
  <2>2. DiscussionsTypeOK'
    BY <1>b, <2>1 DEF VotesInv, DiscussionsTypeOK
  <2>3. VotersInTurn'
    <3> SUFFICES ASSUME InTurn, NEW p \in Ballots, NEW q \in Ballots, ballot'[p] # None, ballot'[q] # None,
                        ballot'[p].voter = ballot'[q].voter
                 PROVE  p = q
      BY <1>b DEF VotersInTurn, InTurn
    <3>1. CASE p = r \/ q = r
      BY <1>b, <2>1, <3>1
    <3>2. CASE p # r /\ q # r
      BY <2>1, <3>2 DEF VotesInv, VotersInTurn
    <3> QED  BY <3>1, <3>2
  <2>4. InTurn => \A q \in Ballots : ballot'[q] # None /\ ballot'[q].pc # "reading" =>
          ballot'[q].previous = choice'[ballot'[q].c][ballot'[q].voter]
    BY <1>b, <2>1 DEF VotesInv
  <2>5. \A c, s : For(c, s)' = For(c, s)
    BY <1>b DEF For
  <2>6. InTurn => \A c \in Comments, s \in Sides : counter'[c][s] = Cardinality(For(c, s)')
    BY <1>b, <2>5 DEF VotesInv
  <2> QED  BY <1>b, <2>2, <2>3, <2>4, <2>6 DEF VotesInv, InTurn
(* A ballot that goes on is the only one of its voter.                      *)
<1>a. ASSUME NEW r \in Ballots, ballot[r] # None, InTurn
      PROVE  \A q \in Ballots : q # r /\ ballot[q] # None => ballot[q].voter # ballot[r].voter
  BY <1>a DEF VotesInv, VotersInTurn
<1>1. ASSUME NEW r \in Ballots, NEW v \in Voters, NEW c \in Comments, NEW value \in Choices, VoteStarts(r, v, c, value)
      PROVE  VotesInv'
  <2> DEFINE x == [pc |-> "reading", c |-> c, voter |-> v, previous |-> None, value |-> value]
  <2>1. x \in BallotRecords /\ x.pc = "reading" /\ x.voter = v
    BY DEF BallotRecords, Choices
  <2>2. /\ ballot' = [ballot EXCEPT ![r] = x] /\ UNCHANGED <<posted, counter, choice, regime>>
        /\ InTurn => \A q \in Ballots : ballot[q] # None => ballot[q].voter # v
    BY <1>1 DEF VoteStarts, BallotTo
  <2> HIDE DEF x
  <2>3. posted' \subseteq Comments
    BY <2>2 DEF VotesInv, DiscussionsTypeOK
  <2> QED  BY <1>b, <2>1, <2>2, <2>3
<1>2. ASSUME NEW r \in Ballots, VoteReads(r) PROVE VotesInv'
  <2>1. ballot[r] # None /\ ballot[r] \in BallotRecords /\ UNCHANGED <<posted, counter, choice, regime>>
    BY <1>2, <1>t DEF VoteReads, BallotAt
  <2>2. PICK c, v, value, previous : /\ c = ballot[r].c /\ v = ballot[r].voter /\ value = ballot[r].value
                                     /\ previous = choice[c][v]
    OBVIOUS
  <2>3. c \in Comments /\ v \in Voters /\ previous \in Choices
    BY <1>t, <2>1, <2>2 DEF BallotRecords
  <2> DEFINE x == [ballot[r] EXCEPT !.previous = previous, !.pc = IF previous = value THEN "committing" ELSE "writing"]
  <2>4. ballot' = [ballot EXCEPT ![r] = x]
    BY <1>2, <2>2 DEF VoteReads, BallotTo
  <2>5. x \in BallotRecords /\ x.voter = v /\ x.c = c /\ x.previous = previous
    BY <2>1, <2>2, <2>3 DEF BallotRecords
  <2> HIDE DEF x
  <2>6. posted' \subseteq Comments
    BY <2>1 DEF VotesInv, DiscussionsTypeOK
  <2>7. InTurn => \A q \in Ballots : q # r /\ ballot[q] # None => ballot[q].voter # x.voter
    BY <1>a, <2>1, <2>2, <2>5
  <2> QED  BY <1>b, <2>1, <2>2, <2>4, <2>5, <2>6, <2>7
<1>3. ASSUME NEW r \in Ballots, VoteWrites(r) \/ VoteCounts(r) PROVE VotesInv'
  <2>1. /\ ballot[r] # None /\ ballot[r] \in BallotRecords /\ ballot[r].pc \in {"writing", "counting"}
        /\ UNCHANGED <<posted, counter, choice, regime>>
    BY <1>3, <1>t DEF VoteWrites, VoteCounts, BallotAt
  <2>2. PICK x \in BallotRecords \cup {None} :
          /\ ballot' = [ballot EXCEPT ![r] = x]
          /\ x # None => x.voter = ballot[r].voter /\ x.c = ballot[r].c /\ x.previous = ballot[r].previous
    <3>1. PICK pc \in {"counting", "committing"} :
            ballot' = [ballot EXCEPT ![r] = [ballot[r] EXCEPT !.pc = pc]] \/ ballot' = [ballot EXCEPT ![r] = None]
      BY <1>3 DEF VoteWrites, VoteCounts, BallotTo
    <3> DEFINE y == [ballot[r] EXCEPT !.pc = pc]
    <3>2. y \in BallotRecords /\ y.voter = ballot[r].voter /\ y.c = ballot[r].c /\ y.previous = ballot[r].previous
      BY <2>1 DEF BallotRecords
    <3>3. ballot' = [ballot EXCEPT ![r] = y] \/ ballot' = [ballot EXCEPT ![r] = None]
      BY <3>1
    <3> HIDE DEF y
    <3> QED  BY <3>2, <3>3
  <2>3. posted' \subseteq Comments
    BY <2>1 DEF VotesInv, DiscussionsTypeOK
  <2>4. InTurn /\ x # None => \A q \in Ballots : q # r /\ ballot[q] # None => ballot[q].voter # x.voter
    BY <1>a, <2>1, <2>2
  <2>5. InTurn /\ x # None => x.previous = choice[x.c][x.voter]
    BY <2>1, <2>2 DEF VotesInv
  <2> QED  BY <1>b, <2>1, <2>2, <2>3, <2>4, <2>5
<1>4. ASSUME NEW r \in Ballots, VoteDies(r) PROVE VotesInv'
  <2>1. ballot' = [ballot EXCEPT ![r] = None] /\ UNCHANGED <<posted, counter, choice, regime>>
    BY <1>4 DEF VoteDies, BallotTo
  <2>2. posted' \subseteq Comments
    BY <2>1 DEF VotesInv, DiscussionsTypeOK
  <2> QED  BY <1>b, <2>1, <2>2
<1>5. ASSUME NEW r \in Ballots, VoteCommits(r) PROVE VotesInv'
  <2>1. PICK b : b = ballot[r]
    OBVIOUS
  <2>2. PICK c, v, value, previous : c = b.c /\ v = b.voter /\ value = b.value /\ previous = b.previous
    OBVIOUS
  <2>3. /\ ballot[r] # None /\ ballot[r].pc = "committing" /\ b \in BallotRecords
        /\ choice' = Cast(b) /\ ballot' = [ballot EXCEPT ![r] = None] /\ UNCHANGED <<posted, regime>>
        /\ counter' = [counter EXCEPT ![c] = [s \in Sides |-> counter[c][s] + Moved(b, s)]]
    BY <1>5, <1>t, <2>1, <2>2 DEF VoteCommits, BallotAt, BallotTo
  <2>4. c \in Comments /\ v \in Voters /\ value \in Choices /\ previous \in Choices
    BY <2>2, <2>3 DEF BallotRecords
  <2>5. /\ ballot' \in [Ballots -> BallotRecords \cup {None}] /\ ballot'[r] = None
        /\ \A q \in Ballots : q # r => ballot'[q] = ballot[q]
    BY <1>t, <2>3
  <2>6. \A s \in Sides : Moved(b, s) = (IF value = s THEN 1 ELSE 0) - (IF previous = s THEN 1 ELSE 0)
    BY <2>2 DEF Moved
  <2>7. \A s \in Sides : Moved(b, s) \in Int
    BY <2>6
  <2>8. /\ counter' \in [Comments -> [Sides -> Int]]
        /\ \A s \in Sides : counter'[c][s] = counter[c][s] + Moved(b, s)
        /\ \A d \in Comments : d # c => counter'[d] = counter[d]
    <3>1. [s \in Sides |-> counter[c][s] + Moved(b, s)] \in [Sides -> Int]
      BY <1>t, <2>4, <2>7
    <3> QED  BY <1>t, <2>3, <2>4, <3>1
  <2>9. /\ choice' \in [Comments -> [Voters -> Choices]]
        /\ \A d \in Comments, u \in Voters : d # c \/ u # v => choice'[d][u] = choice[d][u]
        /\ previous = choice[c][v] => choice'[c][v] = value
    <3>1. \/ choice' = choice /\ (value = previous \/ (previous # None /\ choice[c][v] = None))
          \/ choice' = [choice EXCEPT ![c][v] = value]
      BY <2>2, <2>3 DEF Cast, Changes
    <3>2. PICK row : row = [choice[c] EXCEPT ![v] = value]
      OBVIOUS
    <3>3. row \in [Voters -> Choices] /\ row[v] = value /\ \A u \in Voters : u # v => row[u] = choice[c][u]
      BY <1>t, <2>4, <3>2
    <3>4. choice' = choice \/ choice' = [choice EXCEPT ![c] = row]
      BY <3>1, <3>2
    <3>5. CASE choice' = choice
      <4>1. value = previous \/ choice'[c][v] = value \/ (previous # None /\ choice[c][v] = None)
        BY <1>t, <2>4, <3>1, <3>2, <3>3, <3>5
      <4> QED  BY <1>t, <3>5, <4>1
    <3>6. CASE choice' = [choice EXCEPT ![c] = row]
      BY <1>t, <2>4, <3>3, <3>6
    <3> QED  BY <3>4, <3>5, <3>6
  <2>10. DiscussionsTypeOK'
    BY <2>3, <2>5, <2>8, <2>9 DEF VotesInv, DiscussionsTypeOK
  <2>11. VotersInTurn'
    BY <2>3, <2>5 DEF VotesInv, VotersInTurn, InTurn
  <2>12. ASSUME InTurn, NEW q \in Ballots, ballot'[q] # None, ballot'[q].pc # "reading"
         PROVE  ballot'[q].previous = choice'[ballot'[q].c][ballot'[q].voter]
    <3>1. q # r /\ ballot'[q] = ballot[q] /\ ballot[q].voter # v
      BY <1>a, <2>1, <2>2, <2>3, <2>5, <2>12
    <3>2. ballot[q].c \in Comments /\ ballot[q].voter \in Voters
      BY <1>t, <2>12, <3>1 DEF BallotRecords
    <3> QED  BY <2>9, <2>12, <3>1, <3>2 DEF VotesInv
  <2>13. ASSUME InTurn, NEW d \in Comments, NEW s \in Sides PROVE counter'[d][s] = Cardinality(For(d, s)')
    <3>1. IsFiniteSet(For(d, s)) /\ counter[d][s] = Cardinality(For(d, s)) /\ Cardinality(For(d, s)) \in Nat
      <4>1. For(d, s) \in SUBSET Voters
        BY DEF For
      <4> QED  BY <2>13, <4>1, VotersAreFew, FS_Subset, FS_CardinalityType DEF VotesInv
    <3>2. CASE d # c
      <4>1. For(d, s)' = For(d, s)
        BY <2>9, <3>2 DEF For
      <4> QED  BY <2>8, <3>1, <3>2, <4>1
    <3>3. CASE d = c
      <4>1. previous = choice[c][v] /\ choice'[c][v] = value
        BY <2>1, <2>2, <2>3, <2>9, <2>13 DEF VotesInv
      <4>2. v \in For(d, s) <=> previous = s
        BY <2>4, <3>3, <4>1 DEF For
      <4>3. For(d, s)' = IF value = s THEN For(d, s) \cup {v} ELSE For(d, s) \ {v}
        BY <2>4, <2>9, <3>3, <4>1 DEF For
      <4>4. Cardinality(For(d, s)') = Cardinality(For(d, s)) + Moved(b, s)
        <5>1. Cardinality(For(d, s) \cup {v}) = IF previous = s THEN Cardinality(For(d, s)) ELSE Cardinality(For(d, s)) + 1
          BY <3>1, <4>2, FS_AddElement
        <5>2. Cardinality(For(d, s) \ {v}) = IF previous = s THEN Cardinality(For(d, s)) - 1 ELSE Cardinality(For(d, s))
          BY <3>1, <4>2, FS_RemoveElement
        <5>3. CASE value = s
          BY <2>6, <3>1, <4>3, <5>1, <5>3
        <5>4. CASE value # s
          BY <2>6, <3>1, <4>3, <5>2, <5>4
        <5> QED  BY <5>3, <5>4
      <4> QED  BY <2>8, <3>1, <3>3, <4>4
    <3> QED  BY <3>2, <3>3
  <2> QED  BY <2>3, <2>10, <2>11, <2>12, <2>13 DEF VotesInv, InTurn
<1>6. CASE (\E c \in Comments : PostComment(c)) \/ UNCHANGED discussionsVars
  <2>1. posted' \subseteq Comments /\ UNCHANGED <<counter, choice, ballot, regime>>
    BY <1>6 DEF PostComment, discussionsVars, VotesInv, DiscussionsTypeOK
  <2>2. DiscussionsTypeOK' /\ VotersInTurn'
    BY <2>1 DEF VotesInv, DiscussionsTypeOK, VotersInTurn, InTurn
  <2>3. \A c, s : For(c, s)' = For(c, s)
    BY <2>1 DEF For
  <2> QED  BY <2>1, <2>2, <2>3 DEF VotesInv, InTurn
<1> QED  BY <1>1, <1>2, <1>3, <1>4, <1>5, <1>6 DEF DiscussionsNext

LEMMA VotesHold == DiscussionsSpec => []VotesInv
<1>1. ASSUME DiscussionsInit PROVE VotesInv
  <2>1. DiscussionsTypeOK /\ \A r \in Ballots : ballot[r] = None
    BY <1>1 DEF DiscussionsInit, DiscussionsTypeOK, Choices
  <2>2. ASSUME NEW c \in Comments, NEW s \in Sides PROVE counter[c][s] = 0 /\ For(c, s) = {}
    BY <1>1, NoneIsNoSide DEF DiscussionsInit, For
  <2> QED  BY <2>1, <2>2, FS_EmptySet DEF VotesInv, VotersInTurn
<1> QED  BY <1>1, VotesStep, PTL DEF DiscussionsSpec

(* Type correctness of comments and votes, for any delegates and ballots.   *)
THEOREM DiscussionsTypeCorrect == DiscussionsSpec => []DiscussionsTypeOK
<1>1. VotesInv => DiscussionsTypeOK
  BY DEF VotesInv
<1> QED  BY <1>1, VotesHold, PTL

(* The counters and the vote rows move together (vote): however the votes   *)
(* of different delegates overlap, and whichever are lost, each counter is  *)
(* the number of votes on its side.                                        *)
THEOREM CountersAreVotes == DiscussionsSpec => []CountersMatchVotes
<1>1. VotesInv => CountersMatchVotes
  BY DEF VotesInv, CountersMatchVotes, For
<1> QED  BY <1>1, VotesHold, PTL

-----------------------------------------------------------------------------
(* Sessions.  In turn, a request that found its session finds it still; and *)
(* what a removal has not cleared yet is of the tables it has left.         *)
Holds(v) ==
  /\ talk[v.t] # None
  /\ v.pc = "counting" => v.left = Tables
  /\ v.pc = "clearing" => \A x \in records[v.t] : \E i \in DOMAIN v.left : v.left[i] = x[1]

OneVisit == InTurn => \A q, r \in RecordCalls : visit[q] # None /\ visit[r] # None => q = r

OrphansInv ==
  /\ SessionRecordsTypeOK /\ OneVisit
  /\ \A r \in RecordCalls : VisitAt(r, "adding") => visit[r].record \in Records
  /\ InTurn =>
       /\ \A t \in Talks : talk[t] = None => records[t] = {}
       /\ \A r \in RecordCalls : visit[r] # None => Holds(visit[r])

Lefts == {SubSeq(Tables, i, 4) : i \in 1..5}

LEMMA LeftsAreSequences ==
  /\ Tables \in Lefts /\ \A k \in Kinds : \E i \in DOMAIN Tables : Tables[i] = k
  /\ \A left \in Lefts : left # <<>> =>
       /\ Tail(left) \in Lefts
       /\ \A i \in DOMAIN left : left[i] = Head(left) \/ \E j \in DOMAIN Tail(left) : Tail(left)[j] = left[i]
<1>1. Tables \in Seq(Kinds) /\ Len(Tables) = 4
  BY DEF Tables, Kinds
<1>2. Tables \in Lefts
  BY <1>1, SubSeqFull DEF Lefts
<1>3. ASSUME NEW i \in 1..5, SubSeq(Tables, i, 4) # <<>>
      PROVE  /\ i \in 1..4 /\ Head(SubSeq(Tables, i, 4)) = Tables[i]
             /\ Tail(SubSeq(Tables, i, 4)) = SubSeq(Tables, i + 1, 4)
  <2>1. i <= 4
    BY <1>1, <1>3, SubSeqEmpty
  <2> QED  BY <1>1, <2>1, HeadTailOfSubSeq
<1>4. ASSUME NEW i \in 1..5
      PROVE  /\ DOMAIN SubSeq(Tables, i, 4) = 1..(5 - i)
             /\ \A k \in 1..(5 - i) : SubSeq(Tables, i, 4)[k] = Tables[i + k - 1]
  <2>1. i \in Int /\ \A k \in i..4 : Tables[k] \in Kinds
    <3>1. \A k \in i..4 : k \in 1..Len(Tables)
      BY <1>1
    <3> QED  BY <1>1, <3>1
  <2>2. /\ SubSeq(Tables, i, 4) \in Seq(Kinds)
        /\ Len(SubSeq(Tables, i, 4)) = IF i <= 4 THEN 4 - i + 1 ELSE 0
        /\ \A k \in 1..(4 - i + 1) : SubSeq(Tables, i, 4)[k] = Tables[i + k - 1]
    BY <2>1, SubSeqProperties
  <2>3. 4 - i + 1 = 5 - i /\ (IF i <= 4 THEN 4 - i + 1 ELSE 0) = 5 - i
    OBVIOUS
  <2> QED  BY <2>2, <2>3
<1>5. ASSUME NEW left \in Lefts, left # <<>>
      PROVE  /\ Tail(left) \in Lefts
             /\ \A i \in DOMAIN left : left[i] = Head(left) \/ \E j \in DOMAIN Tail(left) : Tail(left)[j] = left[i]
  <2>1. PICK n \in 1..5 : left = SubSeq(Tables, n, 4)
    BY DEF Lefts
  <2>2. n \in 1..4 /\ n + 1 \in 1..5 /\ Head(left) = Tables[n] /\ Tail(left) = SubSeq(Tables, n + 1, 4)
    BY <1>3, <1>5, <2>1
  <2>3. ASSUME NEW i \in DOMAIN left
        PROVE  left[i] = Head(left) \/ \E j \in DOMAIN Tail(left) : Tail(left)[j] = left[i]
    <3>1. i \in 1..(5 - n) /\ left[i] = Tables[n + i - 1]
      BY <1>4, <2>1
    <3>2. CASE i = 1
      BY <2>2, <3>1, <3>2
    <3>3. CASE i # 1
      <4>1. i - 1 \in 1..(5 - (n + 1))
        BY <2>2, <3>1, <3>3
      <4>2. i - 1 \in DOMAIN Tail(left) /\ Tail(left)[i - 1] = Tables[(n + 1) + (i - 1) - 1]
        BY <1>4, <2>2, <4>1
      <4>3. (n + 1) + (i - 1) - 1 = n + i - 1
        BY <3>1
      <4> QED  BY <3>1, <4>2, <4>3
    <3> QED  BY <3>2, <3>3
  <2> QED  BY <2>2, <2>3 DEF Lefts
<1>6. \A k \in Kinds : \E i \in DOMAIN Tables : Tables[i] = k
  BY DEF Tables, Kinds
<1> QED  BY <1>2, <1>5, <1>6

LEMMA OrphansStep == OrphansInv /\ [SessionRecordsNext]_recordsVars => OrphansInv'
<1> SUFFICES ASSUME OrphansInv, [SessionRecordsNext]_recordsVars PROVE OrphansInv'
  OBVIOUS
<1>t. /\ talk \in [Talks -> Progress \cup {None}] /\ records \in [Talks -> SUBSET Records]
      /\ visit \in [RecordCalls -> Visits \cup {None}]
  BY DEF OrphansInv, SessionRecordsTypeOK
(* A step of one request, alone where requests take turns.                  *)
<1>b. ASSUME NEW r \in RecordCalls, NEW x \in Visits \cup {None}, visit' = [visit EXCEPT ![r] = x],
             talk' \in [Talks -> Progress \cup {None}], records' \in [Talks -> SUBSET Records], UNCHANGED regime,
             InTurn => \A q \in RecordCalls : q # r => visit[q] = None,
             x # None /\ x.pc = "adding" => x.record \in Records,
             InTurn => \A t \in Talks : talk'[t] = None => records'[t] = {},
             InTurn /\ x # None => Holds(x)'
      PROVE  OrphansInv'
  <2>1. /\ visit' \in [RecordCalls -> Visits \cup {None}] /\ visit'[r] = x
        /\ \A q \in RecordCalls : q # r => visit'[q] = visit[q]
    BY <1>b, <1>t
  <2>2. SessionRecordsTypeOK' /\ OneVisit'
    BY <1>b, <2>1 DEF OrphansInv, SessionRecordsTypeOK, OneVisit, InTurn
  <2>3. \A q \in RecordCalls : VisitAt(q, "adding")' => visit'[q].record \in Records
    BY <1>b, <2>1 DEF OrphansInv, VisitAt
  <2>4. InTurn => \A q \in RecordCalls : visit'[q] # None => q = r /\ visit'[q] = x
    BY <1>b, <2>1
  <2>5. InTurn => \A q \in RecordCalls : visit'[q] # None => Holds(visit[q])'
    BY <1>b, <2>4 DEF Holds
  <2> QED  BY <1>b, <2>2, <2>3, <2>5 DEF OrphansInv, InTurn
<1>a. ASSUME NEW r \in RecordCalls, visit[r] # None, InTurn
      PROVE  /\ \A q \in RecordCalls : q # r => visit[q] = None
             /\ Holds(visit[r])
  BY <1>a DEF OrphansInv, OneVisit
<1>i. ASSUME NEW r \in RecordCalls, MayStart(visit, r), InTurn PROVE \A q \in RecordCalls : visit[q] = None
  BY <1>i, <1>t DEF MayStart, Idle
<1>1. ASSUME NEW r \in RecordCalls, NEW t \in Talks, NEW x \in Records, RecordReads(r, t, x) PROVE OrphansInv'
  <2> DEFINE y == [Visit("adding", t) EXCEPT !.record = x]
  <2>1. y \in Visits /\ y.pc = "adding" /\ y.t = t /\ y.record = x
    BY LeftsAreSequences DEF Visits, Visit, Lefts, Progress
  <2>2. /\ visit' = [visit EXCEPT ![r] = y] /\ UNCHANGED <<talk, records, regime>>
        /\ MayStart(visit, r) /\ talk[t] # None
    BY <1>1 DEF RecordReads, VisitTo
  <2> HIDE DEF y
  <2> QED  BY <1>b, <1>i, <1>t, <2>1, <2>2 DEF Holds, OrphansInv
<1>2. ASSUME NEW r \in RecordCalls, NEW t \in Talks, NEW status \in Progress, StatusReads(r, t, status) PROVE OrphansInv'
  <2> DEFINE y == [Visit("saving", t) EXCEPT !.status = status]
  <2>1. y \in Visits /\ y.pc = "saving" /\ y.t = t
    BY LeftsAreSequences DEF Visits, Visit, Lefts, Progress
  <2>2. /\ visit' = [visit EXCEPT ![r] = y] /\ UNCHANGED <<talk, records, regime>>
        /\ MayStart(visit, r) /\ talk[t] # None
    BY <1>2 DEF StatusReads, VisitTo
  <2> HIDE DEF y
  <2> QED  BY <1>b, <1>i, <1>t, <2>1, <2>2 DEF Holds, OrphansInv
<1>3. ASSUME NEW r \in RecordCalls, NEW t \in Talks, NEW force \in BOOLEAN, RemoveAsks(r, t, force) PROVE OrphansInv'
  <2> DEFINE y == [Visit("counting", t) EXCEPT !.force = force]
  <2>1. y \in Visits /\ y.pc = "counting" /\ y.t = t /\ y.left = Tables
    BY LeftsAreSequences DEF Visits, Visit, Lefts, Progress
  <2>2. /\ visit' = [visit EXCEPT ![r] = y] /\ UNCHANGED <<talk, records, regime>>
        /\ MayStart(visit, r) /\ talk[t] # None
    BY <1>3 DEF RemoveAsks, VisitTo
  <2> HIDE DEF y
  <2> QED  BY <1>b, <1>i, <1>t, <2>1, <2>2 DEF Holds, OrphansInv
<1>4. ASSUME NEW r \in RecordCalls, RecordAdds(r) PROVE OrphansInv'
  <2>1. /\ visit[r] # None /\ visit[r].pc = "adding" /\ visit[r] \in Visits /\ visit[r].record \in Records
        /\ visit' = [visit EXCEPT ![r] = None] /\ UNCHANGED <<talk, regime>>
        /\ records' = [records EXCEPT ![visit[r].t] = @ \cup {visit[r].record}]
    BY <1>4, <1>t DEF RecordAdds, VisitAt, VisitTo, OrphansInv
  <2>2. PICK t \in Talks : t = visit[r].t
    BY <2>1 DEF Visits
  <2>3. /\ records' \in [Talks -> SUBSET Records]
        /\ \A u \in Talks : u # t => records'[u] = records[u]
    BY <1>t, <2>1, <2>2
  <2>4. InTurn => talk[t] # None
    BY <1>a, <2>1, <2>2 DEF Holds
  <2> QED  BY <1>a, <1>b, <1>t, <2>1, <2>3, <2>4 DEF OrphansInv
<1>5. ASSUME NEW r \in RecordCalls, StatusSaves(r) PROVE OrphansInv'
  <2>1. /\ visit[r] # None /\ visit[r] \in Visits
        /\ visit' = [visit EXCEPT ![r] = None] /\ UNCHANGED <<records, regime>>
        /\ talk' = [talk EXCEPT ![visit[r].t] = visit[r].status]
    BY <1>5, <1>t DEF StatusSaves, VisitAt, VisitTo
  <2>2. PICK t \in Talks, status \in Progress : t = visit[r].t /\ status = visit[r].status
    BY <2>1 DEF Visits
  <2>3. /\ talk' \in [Talks -> Progress \cup {None}] /\ talk'[t] # None
        /\ \A u \in Talks : u # t => talk'[u] = talk[u]
    BY <1>t, <2>1, <2>2, NoneIsNoStatus
  <2> QED  BY <1>a, <1>b, <1>t, <2>1, <2>3 DEF OrphansInv
<1>6. ASSUME NEW r \in RecordCalls, RemoveCounts(r) PROVE OrphansInv'
  <2> DEFINE y == [visit[r] EXCEPT !.pc = "clearing"]
  <2>1. /\ visit[r] # None /\ visit[r].pc = "counting" /\ visit[r] \in Visits /\ UNCHANGED <<talk, records, regime>>
        /\ visit' = [visit EXCEPT ![r] = y] \/ visit' = [visit EXCEPT ![r] = None]
    BY <1>6, <1>t DEF RemoveCounts, VisitAt, VisitTo
  <2>2. y \in Visits /\ y.pc = "clearing" /\ y.t = visit[r].t /\ y.left = visit[r].left /\ y.t \in Talks
    BY <2>1 DEF Visits
  <2> HIDE DEF y
  <2>3. PICK x \in Visits \cup {None} : x \in {y, None} /\ visit' = [visit EXCEPT ![r] = x]
    BY <2>1, <2>2
  <2>4. InTurn /\ x # None => talk[x.t] # None /\ x.left = Tables
    BY <1>a, <2>1, <2>2, <2>3 DEF Holds
  <2>5. x # None => x.pc = "clearing" /\ \A z \in records[x.t] : \E i \in DOMAIN Tables : Tables[i] = z[1]
    BY <1>t, <2>2, <2>3, LeftsAreSequences DEF Records
  <2>6. InTurn /\ x # None => Holds(x)'
    BY <2>1, <2>4, <2>5 DEF Holds
  <2> QED  BY <1>a, <1>b, <1>t, <2>1, <2>3, <2>5, <2>6 DEF OrphansInv
<1>7. ASSUME NEW r \in RecordCalls, RemoveClears(r) PROVE OrphansInv'
  <2> DEFINE y == [visit[r] EXCEPT !.left = Tail(@)]
  <2>1. PICK t, left : t = visit[r].t /\ left = visit[r].left
    OBVIOUS
  <2>2. /\ visit[r] # None /\ visit[r].pc = "clearing" /\ visit[r] \in Visits /\ left # <<>> /\ UNCHANGED <<talk, regime>>
        /\ visit' = [visit EXCEPT ![r] = y]
        /\ records' = [records EXCEPT ![t] = {x \in @ : x[1] # Head(left)}]
    BY <1>7, <1>t, <2>1 DEF RemoveClears, VisitAt, VisitTo
  <2>3. t \in Talks /\ left \in Lefts
    BY <2>1, <2>2 DEF Visits, Lefts
  <2>4. y \in Visits /\ y.pc = "clearing" /\ y.t = t /\ y.left = Tail(left)
    BY <2>1, <2>2, <2>3, LeftsAreSequences DEF Visits, Lefts
  <2> HIDE DEF y
  <2>p. PICK z : z = y
    OBVIOUS
  <2>5. /\ records' \in [Talks -> SUBSET Records] /\ \A u \in Talks : records'[u] \subseteq records[u]
        /\ \A x \in records'[t] : x \in records[t] /\ x[1] # Head(left)
    BY <1>t, <2>2, <2>3
  <2>6. InTurn => Holds(z)'
    <3> SUFFICES ASSUME InTurn PROVE Holds(z)'
      OBVIOUS
    <3>1. talk[t] # None /\ \A x \in records[t] : \E i \in DOMAIN left : left[i] = x[1]
      BY <1>a, <2>1, <2>2 DEF Holds
    <3>2. \A x \in records'[t] : \E j \in DOMAIN Tail(left) : Tail(left)[j] = x[1]
      BY <2>2, <2>3, <2>5, <3>1, LeftsAreSequences
    <3>3. talk'[z.t] # None /\ \A x \in records'[z.t] : \E j \in DOMAIN z.left : z.left[j] = x[1]
      BY <2>2, <2>4, <2>p, <3>1, <3>2
    <3> QED  BY <2>4, <2>p, <3>3 DEF Holds
  <2>7. InTurn => \A u \in Talks : talk'[u] = None => records'[u] = {}
    BY <2>2, <2>5 DEF OrphansInv
  <2> QED  BY <1>a, <1>b, <1>t, <2>2, <2>4, <2>p, <2>5, <2>6, <2>7
<1>8. ASSUME NEW r \in RecordCalls, RemoveSession(r) PROVE OrphansInv'
  <2>1. /\ visit[r] # None /\ visit[r].pc = "clearing" /\ visit[r].left = <<>> /\ visit[r] \in Visits
        /\ visit' = [visit EXCEPT ![r] = None] /\ UNCHANGED <<records, regime>>
        /\ talk' = [talk EXCEPT ![visit[r].t] = None]
    BY <1>8, <1>t DEF RemoveSession, VisitAt, VisitTo
  <2>2. PICK t \in Talks : t = visit[r].t
    BY <2>1 DEF Visits
  <2>3. talk' \in [Talks -> Progress \cup {None}] /\ \A u \in Talks : u # t => talk'[u] = talk[u]
    BY <1>t, <2>1, <2>2
  <2>4. InTurn => records[t] = {}
    BY <1>a, <2>1, <2>2 DEF Holds
  <2> QED  BY <1>a, <1>b, <1>t, <2>1, <2>3, <2>4 DEF OrphansInv
<1>9. ASSUME NEW r \in RecordCalls, VisitDies(r) PROVE OrphansInv'
  <2>1. visit[r] # None /\ visit' = [visit EXCEPT ![r] = None] /\ UNCHANGED <<talk, records, regime>>
    BY <1>9 DEF VisitDies, VisitTo
  <2> QED  BY <1>a, <1>b, <1>t, <2>1 DEF OrphansInv
<1>10. ASSUME NEW t \in Talks, NEW fan \in Fans, UnbookmarkTalk(t, fan) PROVE OrphansInv'
  <2>1. /\ UNCHANGED <<talk, visit, regime>> /\ records' = [records EXCEPT ![t] = @ \ {<<"bookmark", fan>>}]
        /\ InTurn => \A q \in RecordCalls : visit[q] = None
    BY <1>10, <1>t DEF UnbookmarkTalk, Idle
  <2>2. records' \in [Talks -> SUBSET Records] /\ \A u \in Talks : records'[u] \subseteq records[u]
    BY <1>t, <2>1
  <2> QED  BY <2>1, <2>2 DEF OrphansInv, SessionRecordsTypeOK, OneVisit, InTurn, VisitAt
<1>11. CASE UNCHANGED recordsVars
  BY <1>11 DEF recordsVars, OrphansInv, SessionRecordsTypeOK, OneVisit, InTurn, VisitAt, Holds
<1> QED  BY <1>1, <1>2, <1>3, <1>4, <1>5, <1>6, <1>7, <1>8, <1>9, <1>10, <1>11 DEF SessionRecordsNext

LEMMA OrphansHold == SessionRecordsSpec => []OrphansInv
<1>1. SessionRecordsInit => OrphansInv
  BY NoneIsNoStatus DEF SessionRecordsInit, OrphansInv, SessionRecordsTypeOK, OneVisit, VisitAt, Progress
<1> QED  BY <1>1, OrphansStep, PTL DEF SessionRecordsSpec

(* Type correctness of sessions, their records and the requests for them.   *)
THEOREM SessionRecordsTypeCorrect == SessionRecordsSpec => []SessionRecordsTypeOK
<1>1. OrphansInv => SessionRecordsTypeOK
  BY DEF OrphansInv
<1> QED  BY <1>1, OrphansHold, PTL

(* remove clears table by table and takes the session last: one request at  *)
(* a time, wherever it is lost, no record is left of a session that is gone.*)
THEOREM RecordsGoLast == SessionRecordsSpec => []RecordsGoWithTheirSession
<1>1. OrphansInv => RecordsGoWithTheirSession
  BY DEF OrphansInv, RecordsGoWithTheirSession
<1> QED  BY <1>1, OrphansHold, PTL

-----------------------------------------------------------------------------
(* Reactions.  In turn, a reaction that has not told the thread yet is the  *)
(* one the thread waits for.                                               *)
Reacting == {"looking", "clearing", "changing", "inserting", "reading", "telling"}

OneNet == InTurn => \A q, r \in NetworkCalls : net[q] # None /\ net[r] # None => q = r

HealsInv ==
  /\ NetworkTypeOK /\ OneNet /\ Len(message) <= MaxMessages
  /\ \A r \in NetworkCalls : NetAt(r, "marking") => net[r].unread \subseteq DOMAIN message
  /\ InTurn =>
       /\ \A m \in Messages : told[m] => shown[m] = reaction[m]
       /\ \A r \in NetworkCalls : net[r] # None /\ net[r].pc \in Reacting => ~told[net[r].m]
       /\ \A r \in NetworkCalls : NetAt(r, "telling") => net[r].found = reaction[net[r].m]

PairSteps == {"finding", "closing", "adding", "sending", "marking"}
Pairing == [pc : PairSteps, pair : Pairs, unread : SUBSET Messages]
Threading == [pc : Reacting, m : Messages, who : People, emoji : Emoji \cup {None}, found : Reactions]

TablesOK ==
  /\ link \in [Pairs -> {None, "added", "mutual"}] /\ wants \subseteq Pairs /\ blocks \subseteq Pairs
  /\ message \in Seq(Pairs) /\ seen \subseteq DOMAIN message /\ Len(message) <= MaxMessages
  /\ reaction \in [Messages -> Reactions] /\ shown \in [Messages -> Reactions]
  /\ told \in [Messages -> BOOLEAN] /\ regime \in Regimes

LEMMA HealsStep == HealsInv /\ [NetworkNext]_networkVars => HealsInv'
<1> SUFFICES ASSUME HealsInv, [NetworkNext]_networkVars PROVE HealsInv'
  OBVIOUS
<1>t. net \in [NetworkCalls -> NetRecords \cup {None}] /\ TablesOK
  BY DEF HealsInv, NetworkTypeOK, TablesOK
<1>r. NetRecords = Pairing \cup Threading
  BY DEF NetRecords, Pairing, Threading, PairSteps, Reacting
<1>p. /\ \A x \in Pairing : x.pc \in PairSteps
      /\ \A x \in Threading : x.pc \in Reacting
      /\ \A pc \in PairSteps : pc \notin Reacting
      /\ \A pc \in Reacting : pc # "marking"
  BY DEF Pairing, Threading, PairSteps, Reacting
(* A step of one request, alone where requests take turns.                  *)
<1>b. ASSUME NEW r \in NetworkCalls, NEW x \in NetRecords \cup {None}, net' = [net EXCEPT ![r] = x],
             TablesOK', UNCHANGED regime, DOMAIN message \subseteq DOMAIN message',
             InTurn => \A q \in NetworkCalls : q # r => net[q] = None,
             x # None /\ x.pc = "marking" => x.unread \subseteq DOMAIN message',
             InTurn => \A m \in Messages : told'[m] => shown'[m] = reaction'[m],
             InTurn /\ x # None /\ x.pc \in Reacting => ~told'[x.m],
             InTurn /\ x # None /\ x.pc = "telling" => x.found = reaction'[x.m]
      PROVE  HealsInv'
  <2>1. /\ net' \in [NetworkCalls -> NetRecords \cup {None}] /\ net'[r] = x
        /\ \A q \in NetworkCalls : q # r => net'[q] = net[q]
    BY <1>b, <1>t
  <2>2. NetworkTypeOK' /\ OneNet' /\ Len(message') <= MaxMessages
    BY <1>b, <2>1 DEF HealsInv, NetworkTypeOK, TablesOK, OneNet, InTurn
  <2>3. \A q \in NetworkCalls : NetAt(q, "marking")' => net'[q].unread \subseteq DOMAIN message'
    BY <1>b, <2>1 DEF HealsInv, NetAt
  <2>4. InTurn => \A q \in NetworkCalls : net'[q] # None => q = r /\ net'[q] = x
    BY <1>b, <2>1
  <2>5. InTurn => \A q \in NetworkCalls : net'[q] # None /\ net'[q].pc \in Reacting => ~told'[net'[q].m]
    BY <1>b, <2>4
  <2>6. InTurn => \A q \in NetworkCalls : NetAt(q, "telling")' => net'[q].found = reaction'[net'[q].m]
    BY <1>b, <2>4 DEF NetAt
  <2> QED  BY <1>b, <2>2, <2>3, <2>5, <2>6 DEF HealsInv, InTurn
<1>a. ASSUME NEW r \in NetworkCalls, net[r] # None, InTurn PROVE \A q \in NetworkCalls : q # r => net[q] = None
  BY <1>a DEF HealsInv, OneNet
<1>i. ASSUME NEW r \in NetworkCalls, MayStart(net, r), InTurn PROVE \A q \in NetworkCalls : net[q] = None
  BY <1>i, <1>t DEF MayStart, Idle
(* Steps on a pair: what a thread shows stays.                              *)
<1>c. ASSUME NEW r \in NetworkCalls, NEW x \in Pairing \cup {None}, net' = [net EXCEPT ![r] = x],
             TablesOK', UNCHANGED <<reacting, regime>>, DOMAIN message \subseteq DOMAIN message',
             MayStart(net, r) \/ net[r] # None,
             x # None /\ x.pc = "marking" => x.unread \subseteq DOMAIN message'
      PROVE  HealsInv'
  <2>1. InTurn => \A q \in NetworkCalls : q # r => net[q] = None
    BY <1>a, <1>i, <1>c
  <2>2. x # None => x.pc \notin Reacting /\ x.pc # "telling"
    BY <1>c, <1>p DEF Reacting
  <2>3. InTurn => \A m \in Messages : told'[m] => shown'[m] = reaction'[m]
    BY <1>c DEF HealsInv, reacting
  <2> QED  BY <1>b, <1>c, <1>r, <2>1, <2>2, <2>3
<1>1. ASSUME NEW r \in NetworkCalls, NEW p \in Pairs, ConnectReads(r, p) \/ SendReads(r, p) PROVE HealsInv'
  <2>1. PICK pc \in {"finding", "sending"} : net' = [net EXCEPT ![r] = PairStep(pc, p, {})]
    BY <1>1 DEF ConnectReads, SendReads, NetTo
  <2>2. PairStep(pc, p, {}) \in Pairing /\ PairStep(pc, p, {}).pc # "marking"
    BY DEF PairStep, Pairing, PairSteps
  <2>3. MayStart(net, r) /\ TablesOK' /\ UNCHANGED <<threads, reacting, regime>>
    BY <1>1, <1>t DEF ConnectReads, SendReads, TablesOK, threads, reacting
  <2>4. DOMAIN message \subseteq DOMAIN message'
    BY <2>3 DEF threads
  <2> QED  BY <1>c, <2>1, <2>2, <2>3, <2>4
<1>2. ASSUME NEW r \in NetworkCalls, NEW p \in Pairs, ThreadReads(r, p) PROVE HealsInv'
  <2>1. PICK unread : /\ unread = {m \in FirstPage(p) \ seen : message[m] = Flip(p)}
                      /\ net' = [net EXCEPT ![r] = PairStep("marking", p, unread)]
    BY <1>2 DEF ThreadReads, NetTo
  <2>2. unread \subseteq DOMAIN message
    BY <2>1 DEF FirstPage, Thread
  <2>3. DOMAIN message \subseteq Messages
    BY <1>t, NetworkBounds DEF TablesOK, Messages
  <2>4. PairStep("marking", p, unread) \in Pairing /\ PairStep("marking", p, unread).unread = unread
    BY <2>2, <2>3 DEF PairStep, Pairing, PairSteps
  <2>5. MayStart(net, r) /\ TablesOK' /\ UNCHANGED <<threads, reacting, regime>>
    BY <1>2, <1>t DEF ThreadReads, TablesOK, threads, reacting
  <2>6. message' = message
    BY <2>5 DEF threads
  <2> QED  BY <1>c, <2>1, <2>2, <2>4, <2>5, <2>6
<1>3. ASSUME NEW r \in NetworkCalls, ConnectFinds(r) PROVE HealsInv'
  <2>1. net[r] # None /\ net[r].pc = "finding" /\ UNCHANGED <<link, wants, blocks, threads, reacting, regime>>
    BY <1>3 DEF ConnectFinds, NetAt
  <2>2. PICK pc \in {"adding", "closing"} : net' = [net EXCEPT ![r] = [net[r] EXCEPT !.pc = pc]]
    BY <1>3 DEF ConnectFinds, NetTo
  <2>3. net[r] \in Pairing
    BY <1>p, <1>r, <1>t, <2>1 DEF PairSteps
  <2>4. PICK x : x = [net[r] EXCEPT !.pc = pc]
    OBVIOUS
  <2>5. x \in Pairing /\ x.pc # "marking"
    BY <2>3, <2>4 DEF Pairing, PairSteps
  <2>6. TablesOK' /\ message' = message
    BY <1>t, <2>1 DEF TablesOK, threads, reacting
  <2> QED  BY <1>c, <2>1, <2>2, <2>4, <2>5, <2>6
<1>4. ASSUME NEW r \in NetworkCalls, ConnectSaves(r) PROVE HealsInv'
  <2>1. /\ net[r] # None /\ net[r].pc \in {"adding", "closing"} /\ UNCHANGED <<blocks, threads, reacting, regime>>
        /\ net' = [net EXCEPT ![r] = None] /\ wants' = wants \cup {net[r].pair}
    BY <1>4 DEF ConnectSaves, NetAt, NetTo
  <2>2. net[r] \in Pairing
    BY <1>p, <1>r, <1>t, <2>1 DEF Reacting
  <2>3. PICK p \in Pairs : p = net[r].pair
    BY <2>2 DEF Pairing
  <2>4. \/ link' = [link EXCEPT ![PairKey(p)] = "mutual"]
        \/ link' = [link EXCEPT ![p] = "added"]
        \/ link' = link
    BY <1>4, <2>3 DEF ConnectSaves
  <2>5. PICK key \in Pairs : key = PairKey(p)
    BY DEF PairKey, Flip, Pairs
  <2>6. link' \in [Pairs -> {None, "added", "mutual"}]
    BY <1>t, <2>4, <2>5 DEF TablesOK
  <2>7. TablesOK' /\ message' = message
    BY <1>t, <2>1, <2>3, <2>6 DEF TablesOK, threads, reacting
  <2> QED  BY <1>c, <2>1, <2>7
<1>5. ASSUME NEW r \in NetworkCalls, SendSaves(r) PROVE HealsInv'
  <2>1. /\ net[r] # None /\ net[r].pc = "sending" /\ UNCHANGED <<link, wants, blocks, seen, reacting, regime>>
        /\ net' = [net EXCEPT ![r] = None] /\ message' = Append(message, net[r].pair) /\ Len(message) < MaxMessages
    BY <1>5 DEF SendSaves, NetAt, NetTo
  <2>2. net[r] \in Pairing
    BY <1>p, <1>r, <1>t, <2>1 DEF Reacting
  <2>3. PICK p \in Pairs : p = net[r].pair
    BY <2>2 DEF Pairing
  <2>4. message' \in Seq(Pairs) /\ Len(message') = Len(message) + 1 /\ DOMAIN message \subseteq DOMAIN message'
    BY <1>t, <2>1, <2>3 DEF TablesOK
  <2>5. Len(message') <= MaxMessages
    BY <1>t, <2>1, <2>4, NetworkBounds DEF TablesOK
  <2>6. TablesOK'
    BY <1>t, <2>1, <2>4, <2>5 DEF TablesOK, reacting
  <2> QED  BY <1>c, <2>1, <2>4, <2>6
<1>6. ASSUME NEW r \in NetworkCalls, ThreadMarks(r) PROVE HealsInv'
  <2>1. /\ NetAt(r, "marking") /\ UNCHANGED <<link, wants, blocks, message, reacting, regime>>
        /\ net' = [net EXCEPT ![r] = None] /\ seen' = seen \cup net[r].unread
    BY <1>6 DEF ThreadMarks, NetTo
  <2>2. net[r].unread \subseteq DOMAIN message
    BY <2>1 DEF HealsInv
  <2>3. TablesOK'
    BY <1>t, <2>1, <2>2 DEF TablesOK, reacting
  <2> QED  BY <1>c, <2>1, <2>3 DEF NetAt
<1>7. ASSUME NEW r \in NetworkCalls, NetDies(r) PROVE HealsInv'
  <2>1. net[r] # None /\ net' = [net EXCEPT ![r] = None] /\ UNCHANGED <<link, wants, blocks, threads, reacting, regime>>
    BY <1>7 DEF NetDies, NetTo
  <2>2. TablesOK' /\ message' = message
    BY <1>t, <2>1 DEF TablesOK, threads, reacting
  <2> QED  BY <1>c, <2>1, <2>2
(* Steps of a reaction.                                                     *)
<1>d. ASSUME NEW r \in NetworkCalls, net[r] # None, net[r].pc \in Reacting
      PROVE  net[r] \in Threading /\ (InTurn => ~told[net[r].m])
  BY <1>d, <1>p, <1>r, <1>t DEF HealsInv
<1>8. ASSUME NEW r \in NetworkCalls, NEW m \in DOMAIN message, NEW d \in People, NEW emoji \in Emoji \cup {None},
             ReactReads(r, m, d, emoji)
      PROVE  HealsInv'
  <2> DEFINE x == [pc |-> IF emoji = None THEN "clearing" ELSE "looking", m |-> m,
                   who |-> d, emoji |-> emoji, found |-> NoReactions]
  <2>1. m \in Messages
    BY <1>t, NetworkBounds DEF TablesOK, Messages
  <2>2. x \in Threading /\ x.m = m /\ x.pc # "telling"
    BY <2>1 DEF Threading, Reacting, NoReactions, Reactions
  <2>3. /\ net' = [net EXCEPT ![r] = x] /\ told' = [told EXCEPT ![m] = FALSE] /\ MayStart(net, r)
        /\ UNCHANGED <<link, wants, blocks, threads, reaction, shown, regime>>
    BY <1>8 DEF ReactReads, NetTo
  <2> HIDE DEF x
  <2>4. told' \in [Messages -> BOOLEAN] /\ ~told'[m] /\ \A n \in Messages : n # m => told'[n] = told[n]
    BY <1>t, <2>1, <2>3 DEF TablesOK
  <2>5. TablesOK' /\ message' = message
    BY <1>t, <2>3, <2>4 DEF TablesOK, threads
  <2>6. InTurn => \A n \in Messages : told'[n] => shown'[n] = reaction'[n]
    BY <2>3, <2>4 DEF HealsInv
  <2> QED  BY <1>b, <1>i, <1>p, <1>r, <2>2, <2>3, <2>4, <2>5, <2>6
<1>9. ASSUME NEW r \in NetworkCalls, ReactFinds(r) PROVE HealsInv'
  <2>1. net[r] # None /\ net[r].pc = "looking" /\ UNCHANGED <<link, wants, blocks, threads, reacting, regime>>
    BY <1>9 DEF ReactFinds, NetAt
  <2>2. PICK pc \in {"inserting", "changing"} : net' = [net EXCEPT ![r] = [net[r] EXCEPT !.pc = pc]]
    BY <1>9 DEF ReactFinds, NetTo
  <2>3. net[r] \in Threading /\ (InTurn => ~told[net[r].m])
    BY <1>d, <2>1 DEF Reacting
  <2>4. PICK x : x = [net[r] EXCEPT !.pc = pc]
    OBVIOUS
  <2>5. x \in Threading /\ x.m = net[r].m /\ x.pc # "telling" /\ x.pc # "marking"
    BY <2>3, <2>4 DEF Threading, Reacting
  <2>6. TablesOK' /\ UNCHANGED <<message, told, shown, reaction, regime>>
    BY <1>t, <2>1 DEF TablesOK, threads, reacting
  <2>7. InTurn => \A n \in Messages : told'[n] => shown'[n] = reaction'[n]
    BY <2>6 DEF HealsInv
  <2> QED  BY <1>a, <1>b, <1>r, <2>1, <2>2, <2>3, <2>4, <2>5, <2>6, <2>7
<1>10. ASSUME NEW r \in NetworkCalls, ReactWrites(r) PROVE HealsInv'
  <2>1. net[r] # None /\ net[r].pc \in Reacting /\ UNCHANGED <<link, wants, blocks, threads, shown, told, regime>>
    BY <1>10 DEF ReactWrites, NetAt, Reacting
  <2>2. net[r] \in Threading /\ (InTurn => ~told[net[r].m])
    BY <1>d, <2>1
  <2>3. PICK m \in Messages, who \in People, emoji \in Emoji \cup {None} :
          m = net[r].m /\ who = net[r].who /\ emoji = net[r].emoji
    BY <2>2 DEF Threading
  <2>4. PICK row : row = [reaction[m] EXCEPT ![who] = emoji]
    OBVIOUS
  <2>5. row \in Reactions
    BY <1>t, <2>3, <2>4 DEF TablesOK, Reactions
  <2>6. reaction' = reaction \/ reaction' = [reaction EXCEPT ![m] = row]
    BY <1>10, <2>3, <2>4 DEF ReactWrites
  <2>7. reaction' \in [Messages -> Reactions] /\ \A n \in Messages : n # m => reaction'[n] = reaction[n]
    BY <1>t, <2>5, <2>6 DEF TablesOK
  <2>8. PICK y : y = [net[r] EXCEPT !.pc = "reading"]
    OBVIOUS
  <2>9. y \in Threading /\ y.m = m /\ y.pc = "reading"
    BY <2>2, <2>3, <2>8 DEF Threading, Reacting
  <2>10. PICK x \in {y, None} : net' = [net EXCEPT ![r] = x]
    BY <1>10, <2>8 DEF ReactWrites, NetTo
  <2>11. TablesOK' /\ message' = message
    BY <1>t, <2>1, <2>7 DEF TablesOK, threads
  <2>12. InTurn => \A n \in Messages : told'[n] => shown'[n] = reaction'[n]
    BY <2>1, <2>2, <2>3, <2>7 DEF HealsInv
  <2> QED  BY <1>a, <1>b, <1>r, <2>1, <2>2, <2>3, <2>9, <2>10, <2>11, <2>12
<1>11. ASSUME NEW r \in NetworkCalls, ReactionsFor(r) PROVE HealsInv'
  <2>1. net[r] # None /\ net[r].pc = "reading" /\ UNCHANGED <<link, wants, blocks, threads, reacting, regime>>
    BY <1>11 DEF ReactionsFor, NetAt
  <2>2. net[r] \in Threading /\ (InTurn => ~told[net[r].m])
    BY <1>d, <2>1 DEF Reacting
  <2>3. PICK m \in Messages : m = net[r].m
    BY <2>2 DEF Threading
  <2>4. PICK row \in Reactions : row = reaction[m]
    BY <1>t DEF TablesOK
  <2>5. PICK x : x = [net[r] EXCEPT !.pc = "telling", !.found = row]
    OBVIOUS
  <2>6. x \in Threading /\ x.m = m /\ x.pc = "telling" /\ x.found = row
    BY <2>2, <2>3, <2>5 DEF Threading, Reacting
  <2>7. net' = [net EXCEPT ![r] = x]
    BY <1>11, <2>3, <2>4, <2>5 DEF ReactionsFor, NetTo
  <2>8. TablesOK' /\ UNCHANGED <<message, told, shown, reaction, regime>>
    BY <1>t, <2>1 DEF TablesOK, threads, reacting
  <2>9. InTurn => \A n \in Messages : told'[n] => shown'[n] = reaction'[n]
    BY <2>8 DEF HealsInv
  <2> QED  BY <1>a, <1>b, <1>r, <2>1, <2>2, <2>3, <2>4, <2>6, <2>7, <2>8, <2>9
<1>12. ASSUME NEW r \in NetworkCalls, ReactTells(r) PROVE HealsInv'
  <2>1. net[r] # None /\ net[r].pc = "telling" /\ UNCHANGED <<link, wants, blocks, threads, reaction, regime>>
    BY <1>12 DEF ReactTells, NetAt
  <2>2. net[r] \in Threading /\ (InTurn => net[r].found = reaction[net[r].m])
    BY <1>d, <2>1 DEF Reacting, HealsInv, NetAt
  <2>3. PICK m \in Messages, row \in Reactions : m = net[r].m /\ row = net[r].found
    BY <2>2 DEF Threading
  <2>4. /\ net' = [net EXCEPT ![r] = None]
        /\ shown' = [shown EXCEPT ![m] = row] /\ told' = [told EXCEPT ![m] = TRUE]
    BY <1>12, <2>3 DEF ReactTells, NetTo
  <2>5. TablesOK' /\ message' = message
    BY <1>t, <2>1, <2>4 DEF TablesOK, threads
  <2>6. /\ shown'[m] = row /\ \A n \in Messages : n # m => shown'[n] = shown[n] /\ told'[n] = told[n]
    BY <1>t, <2>4 DEF TablesOK
  <2>7. InTurn => \A n \in Messages : told'[n] => shown'[n] = reaction'[n]
    BY <2>1, <2>2, <2>3, <2>6 DEF HealsInv
  <2> QED  BY <1>a, <1>b, <2>1, <2>4, <2>5, <2>7
(* Changes of a pair, and no step at all.                                   *)
<1>13. ASSUME link' \in [Pairs -> {None, "added", "mutual"}], wants' \subseteq Pairs, blocks' \subseteq Pairs,
              UNCHANGED <<threads, reacting, net, regime>>
       PROVE  HealsInv'
  BY <1>13, <1>t DEF HealsInv, NetworkTypeOK, OneNet, NetAt, InTurn, TablesOK, threads, reacting
<1>14. ASSUME NEW p \in Pairs, RemoveConnection(p) PROVE HealsInv'
  <2>1. PICK q \in Pairs : q = Flip(p)
    BY DEF Flip, Pairs
  <2>2. link' = [link EXCEPT ![p] = None, ![q] = None] /\ wants' = wants \ {p, q}
        /\ UNCHANGED <<blocks, threads, reacting, net, regime>>
    BY <1>14, <2>1 DEF RemoveConnection
  <2> QED  BY <1>13, <1>t, <2>2 DEF TablesOK
<1>15. ASSUME NEW p \in Pairs, BlockDelegate(p) \/ UnblockDelegate(p) PROVE HealsInv'
  BY <1>13, <1>15, <1>t DEF TablesOK, BlockDelegate, UnblockDelegate
<1>16. CASE UNCHANGED networkVars
  BY <1>13, <1>16, <1>t DEF networkVars, TablesOK
<1> QED
  BY <1>1, <1>2, <1>3, <1>4, <1>5, <1>6, <1>7, <1>8, <1>9, <1>10, <1>11, <1>12, <1>14, <1>15, <1>16 DEF NetworkNext

LEMMA HealsHold == NetworkSpec => []HealsInv
<1>1. ASSUME NetworkInit PROVE HealsInv
  <2>1. NoReactions \in Reactions
    BY DEF NoReactions, Reactions
  <2> QED  BY <1>1, <2>1, NetworkBounds DEF NetworkInit, HealsInv, NetworkTypeOK, OneNet, NetAt
<1> QED  BY <1>1, HealsStep, PTL DEF NetworkSpec

(* Type correctness of connections, threads, reactions and their requests.  *)
THEOREM NetworkTypeCorrect == NetworkSpec => []NetworkTypeOK
<1>1. HealsInv => NetworkTypeOK
  BY DEF HealsInv
<1> QED  BY <1>1, HealsHold, PTL

(* reactToMessage sends the whole of what is stored: whichever requests were *)
(* lost before they told the thread, the next that does makes it right.     *)
THEOREM ReactionsAreHealed == NetworkSpec => []ReactionsHeal
<1>1. HealsInv => ReactionsHeal
  BY DEF HealsInv, ReactionsHeal
<1> QED  BY <1>1, HealsHold, PTL

-----------------------------------------------------------------------------
(* Certificates.  While the account stands, a code about to be shown is the *)
(* one in the table; and a row is written where each step was complete.     *)
Earned(c) ==
  /\ c.pc = "answering" => c.code \in 1..serials /\ (standing => c.code = issued)
  /\ c.done \subseteq ever
  /\ c.pc = "saving" /\ required => ever = Steps

OneIssue == InTurn => \A q, r \in Issues : issue[q] # None /\ issue[r] # None => q = r

EarnedInv ==
  /\ CertificatesTypeOK /\ OneIssue
  /\ \A s \in Steps : did[s] >= Need[s] => s \in ever
  /\ \A r \in Issues : issue[r] # None => Earned(issue[r]) /\ (InTurn => standing)
  /\ CertificatesLast
CertificateTables ==
  /\ required \in BOOLEAN /\ standing \in BOOLEAN
  /\ did \in [Steps -> Nat] /\ ever \subseteq Steps
  /\ serials \in 0..MaxDrawn /\ issued \in 1..serials \cup {None} /\ showed \subseteq 1..serials
  /\ regime \in Regimes

LEMMA EarnedStep == EarnedInv /\ [CertificatesNext]_certificateVars => EarnedInv'
<1> SUFFICES ASSUME EarnedInv, [CertificatesNext]_certificateVars PROVE EarnedInv'
  OBVIOUS
<1>t. /\ issue \in [Issues -> IssueRecords \cup {None}] /\ CertificateTables
      /\ \A s \in Steps : did[s] >= Need[s] => s \in ever
  BY DEF EarnedInv, CertificatesTypeOK, CertificateTables
<1>n. Need \in [Steps -> Nat \ {0}] /\ MaxDrawn \in Nat /\ None \notin 1..serials
  BY <1>t, StepsNeedSomething, CertificateBounds DEF CertificateTables
(* A step of one request, alone where requests take turns.                  *)
<1>b. ASSUME NEW r \in Issues, NEW x \in IssueRecords \cup {None}, issue' = [issue EXCEPT ![r] = x],
             CertificateTables', UNCHANGED <<required, ever, regime>>, serials <= serials',
             standing' => standing /\ (issued # None => issued' = issued),
             InTurn => \A q \in Issues : q # r => issue[q] = None,
             \A s \in Steps : did'[s] >= Need[s] => s \in ever,
             x # None => Earned(x)' /\ (InTurn => standing'),
             CertificatesLast'
      PROVE  EarnedInv'
  <2>1. /\ issue' \in [Issues -> IssueRecords \cup {None}] /\ issue'[r] = x
        /\ \A q \in Issues : q # r => issue'[q] = issue[q]
    BY <1>b, <1>t
  <2>2. CertificatesTypeOK' /\ OneIssue'
    BY <1>b, <2>1 DEF EarnedInv, CertificatesTypeOK, CertificateTables, OneIssue, InTurn
  <2>3. ASSUME NEW q \in Issues, issue'[q] # None PROVE Earned(issue[q])' /\ (InTurn => standing')
    <3>1. CASE q = r
      BY <1>b, <2>1, <2>3, <3>1 DEF Earned
    <3>2. CASE q # r
      <4>1. PICK c : c = issue[q]
        OBVIOUS
      <4>2. issue'[q] = c /\ c # None /\ Earned(c) /\ ~InTurn
        BY <1>b, <2>1, <2>3, <3>2, <4>1 DEF EarnedInv
      <4>3. 1..serials \subseteq 1..serials'
        BY <1>b, <1>t DEF CertificateTables
      <4>4. c.pc = "answering" => c.code \in 1..serials' /\ (standing' => c.code = issued')
        BY <1>b, <1>n, <4>2, <4>3 DEF Earned
      <4> QED  BY <1>b, <4>2, <4>4 DEF Earned
    <3> QED  BY <3>1, <3>2
  <2> QED  BY <1>b, <2>2, <2>3 DEF EarnedInv, InTurn
<1>a. ASSUME NEW r \in Issues, issue[r] # None
      PROVE  /\ issue[r] \in IssueRecords /\ Earned(issue[r]) /\ (InTurn => standing)
             /\ InTurn => \A q \in Issues : q # r => issue[q] = None
  BY <1>a, <1>t DEF EarnedInv, OneIssue
<1>i. ASSUME NEW r \in Issues, MayStart(issue, r), InTurn PROVE \A q \in Issues : issue[q] = None
  BY <1>i, <1>t DEF MayStart, Idle
<1>l. ASSUME UNCHANGED <<required, standing, ever, issued, showed, regime>> PROVE CertificatesLast'
  BY <1>l DEF EarnedInv, CertificatesLast, InTurn
<1>1. ASSUME NEW r \in Issues, AsksCertificate(r) \/ AsksDeletion(r) PROVE EarnedInv'
  <2>1. PICK pc \in {"looking", "deleting"} :
          /\ MayStart(issue, r) /\ standing /\ UNCHANGED <<required, standing, did, ever, serials, issued, showed, regime>>
          /\ issue' = [issue EXCEPT ![r] = [pc |-> pc, counted |-> {}, done |-> {}, code |-> 0]]
    BY <1>1 DEF AsksCertificate, AsksDeletion, IssueOpens
  <2>2. PICK x : x = [pc |-> pc, counted |-> {}, done |-> {}, code |-> 0]
    OBVIOUS
  <2>3. x \in IssueRecords /\ x.pc \in {"looking", "deleting"} /\ x.done = {}
    BY <2>2 DEF IssueRecords
  <2>4. CertificateTables' /\ serials <= serials'
    BY <1>t, <2>1 DEF CertificateTables
  <2>5. Earned(x)'
    BY <2>3 DEF Earned
  <2> QED  BY <1>b, <1>i, <1>l, <1>t, <2>1, <2>2, <2>3, <2>4, <2>5
(* Steps that only go on.                                                  *)
<1>c. ASSUME NEW r \in Issues, NEW x \in IssueRecords \cup {None}, issue[r] # None, issue' = [issue EXCEPT ![r] = x],
             UNCHANGED <<required, standing, did, ever, serials, issued, showed, regime>>, x # None => Earned(x)
      PROVE  EarnedInv'
  <2>1. CertificateTables' /\ serials <= serials'
    BY <1>c, <1>t DEF CertificateTables
  <2>2. x # None => Earned(x)'
    BY <1>c DEF Earned
  <2> QED  BY <1>a, <1>b, <1>c, <1>l, <1>t, <2>1, <2>2
<1>2. ASSUME NEW r \in Issues, FindsCertificate(r) PROVE EarnedInv'
  <2>1. issue[r] # None /\ UNCHANGED <<required, standing, did, ever, serials, issued, showed, regime>>
    BY <1>2 DEF FindsCertificate, IssueAt
  <2>2. PICK c \in IssueRecords : c = issue[r] /\ c.pc = "looking"
    BY <1>2, <1>a, <2>1 DEF FindsCertificate, IssueAt
  <2>3. PICK x : /\ x = IF issued # None THEN [c EXCEPT !.pc = "answering", !.code = issued]
                        ELSE [c EXCEPT !.pc = IF required THEN "counting" ELSE "saving"]
                 /\ issue' = [issue EXCEPT ![r] = x]
    BY <1>2, <1>t, <2>2 DEF FindsCertificate
  <2>4. x \in IssueRecords
    <3>1. issued # None => issued \in Nat
      BY <1>t DEF CertificateTables
    <3>2. CASE issued # None
      BY <2>2, <2>3, <3>1, <3>2 DEF IssueRecords
    <3>3. CASE issued = None
      BY <2>2, <2>3, <3>3 DEF IssueRecords
    <3> QED  BY <3>2, <3>3
  <2>5. c.done \subseteq ever
    BY <1>a, <2>1, <2>2 DEF Earned
  <2>6. CASE issued # None
    <3>1. x.pc = "answering" /\ x.code = issued /\ x.done = c.done /\ issued \in 1..serials
      BY <1>t, <2>2, <2>3, <2>6 DEF IssueRecords, CertificateTables
    <3>2. Earned(x)
      BY <2>5, <3>1 DEF Earned
    <3> QED  BY <1>c, <2>1, <2>3, <2>4, <3>2
  <2>7. CASE issued = None
    <3>1. x.pc \in {"counting", "saving"} /\ (x.pc = "saving" => ~required) /\ x.done = c.done
      BY <2>2, <2>3, <2>7 DEF IssueRecords
    <3>2. Earned(x)
      BY <2>5, <3>1 DEF Earned
    <3> QED  BY <1>c, <2>1, <2>3, <2>4, <3>2
  <2> QED  BY <2>6, <2>7
<1>3. ASSUME NEW r \in Issues, NEW s \in Steps, CountsStep(r, s) PROVE EarnedInv'
  <2>1. issue[r] # None /\ UNCHANGED <<required, standing, did, ever, serials, issued, showed, regime>>
    BY <1>3 DEF CountsStep, IssueAt
  <2>2. PICK c \in IssueRecords : c = issue[r] /\ c.pc = "counting" /\ c.done \subseteq ever
    BY <1>3, <1>a, <2>1 DEF CountsStep, IssueAt, Earned
  <2>3. PICK done : done = IF did[s] >= Need[s] THEN c.done \cup {s} ELSE c.done
    OBVIOUS
  <2>4. PICK x : /\ x = [c EXCEPT !.counted = @ \cup {s}, !.done = done]
                 /\ issue' = [issue EXCEPT ![r] = x]
    BY <1>3, <1>t, <2>2, <2>3 DEF CountsStep
  <2>5. done \subseteq ever /\ done \subseteq Steps
    BY <1>t, <2>2, <2>3 DEF CertificateTables
  <2>6. x \in IssueRecords /\ x.pc = "counting" /\ x.done = done
    BY <2>2, <2>4, <2>5 DEF IssueRecords
  <2>7. Earned(x)
    BY <2>5, <2>6 DEF Earned
  <2> QED  BY <1>c, <2>1, <2>4, <2>6, <2>7
<1>4. ASSUME NEW r \in Issues, Unlocks(r) PROVE EarnedInv'
  <2>1. issue[r] # None /\ UNCHANGED <<required, standing, did, ever, serials, issued, showed, regime>>
    BY <1>4 DEF Unlocks, IssueAt
  <2>2. PICK c \in IssueRecords : c = issue[r] /\ c.pc = "counting" /\ c.done \subseteq ever
    BY <1>4, <1>a, <2>1 DEF Unlocks, IssueAt, Earned
  <2>3. PICK y : y = [c EXCEPT !.pc = "saving"]
    OBVIOUS
  <2>4. y \in IssueRecords /\ y.pc = "saving" /\ y.done = c.done
    BY <2>2, <2>3 DEF IssueRecords
  <2>5. CASE c.done = Steps /\ issue' = [issue EXCEPT ![r] = y]
    <3>1. Earned(y)
      BY <1>t, <2>2, <2>4, <2>5 DEF Earned, CertificateTables
    <3> QED  BY <1>c, <2>1, <2>4, <2>5, <3>1
  <2>6. CASE issue' = [issue EXCEPT ![r] = None]
    BY <1>c, <2>1, <2>6
  <2>7. issue' = [issue EXCEPT ![r].pc = "saving"] => issue' = [issue EXCEPT ![r] = y]
    BY <2>2, <2>3
  <2> QED  BY <1>4, <2>2, <2>5, <2>6, <2>7 DEF Unlocks, IssueTo, IssueEnds
<1>5. ASSUME NEW r \in Issues, IssueDies(r) PROVE EarnedInv'
  BY <1>5, <1>c DEF IssueDies, IssueEnds
<1>6. ASSUME NEW r \in Issues, SavesCertificate(r) PROVE EarnedInv'
  <2>1. /\ issue[r] # None /\ serials < MaxDrawn /\ serials' = serials + 1
        /\ UNCHANGED <<required, standing, did, ever, showed, regime>>
    BY <1>6 DEF SavesCertificate, IssueAt
  <2>2. PICK c \in IssueRecords : c = issue[r] /\ c.pc = "saving" /\ Earned(c)
    BY <1>6, <1>a, <2>1 DEF SavesCertificate, IssueAt
  <2>3. serials + 1 \in 1..serials' /\ 1..serials \subseteq 1..serials' /\ serials <= serials' /\ serials' \in 0..MaxDrawn
    BY <1>n, <1>t, <2>1 DEF CertificateTables
  <2>4. CASE issued = None /\ issued' = serials + 1
             /\ issue' = [issue EXCEPT ![r].pc = "answering", ![r].code = serials + 1]
    <3>1. PICK x : x = [c EXCEPT !.pc = "answering", !.code = serials + 1]
      OBVIOUS
    <3>2. x \in IssueRecords /\ x.pc = "answering" /\ x.code = serials + 1 /\ x.done = c.done /\ issue' = [issue EXCEPT ![r] = x]
      <4>1. serials + 1 \in Nat
        BY <2>3
      <4>2. x \in IssueRecords /\ x.pc = "answering" /\ x.code = serials + 1 /\ x.done = c.done
        BY <2>2, <3>1, <4>1 DEF IssueRecords
      <4>3. issue' = [issue EXCEPT ![r] = x]
        BY <1>t, <2>2, <2>4, <3>1
      <4> QED  BY <4>2, <4>3
    <3>3. CertificateTables'
      BY <1>t, <2>1, <2>3, <2>4 DEF CertificateTables
    <3>4. Earned(x)'
      BY <2>1, <2>2, <2>3, <2>4, <3>2 DEF Earned
    <3>5. showed \subseteq 1..serials /\ (standing => showed \subseteq {None})
      BY <1>t, <2>4 DEF CertificateTables, EarnedInv, CertificatesLast
    <3>6. standing => showed = {}
      BY <1>n, <3>5
    <3>7. required => ever = Steps
      BY <2>2 DEF Earned
    <3>8. InTurn => standing
      BY <1>a, <2>1
    <3>9. CertificatesLast'
      BY <2>1, <3>6, <3>7, <3>8 DEF CertificatesLast, InTurn
    <3> QED  BY <1>a, <1>b, <1>t, <2>1, <2>3, <2>4, <3>2, <3>3, <3>4, <3>8, <3>9
  <2>5. CASE issued # None /\ issued' = issued /\ issue' = [issue EXCEPT ![r] = None]
    <3>1. CertificateTables'
      BY <1>t, <2>1, <2>3, <2>5 DEF CertificateTables
    <3> QED  BY <1>a, <1>b, <1>l, <1>t, <2>1, <2>3, <2>5, <3>1
  <2> QED  BY <1>6, <2>4, <2>5 DEF SavesCertificate, IssueEnds
<1>7. ASSUME NEW r \in Issues, ShowsCertificate(r) PROVE EarnedInv'
  <2>1. /\ issue[r] # None /\ issue[r].pc = "answering" /\ issue' = [issue EXCEPT ![r] = None]
        /\ showed' = showed \cup {issue[r].code} /\ UNCHANGED <<required, standing, did, ever, serials, issued, regime>>
    BY <1>7 DEF ShowsCertificate, IssueAt, IssueEnds
  <2>2. issue[r].code \in 1..serials /\ (standing => issue[r].code = issued)
    BY <1>a, <2>1 DEF Earned
  <2>3. CertificateTables' /\ serials <= serials'
    <3>1. showed \subseteq 1..serials /\ serials' = serials
      BY <1>t, <2>1 DEF CertificateTables
    <3>2. showed' \subseteq 1..serials'
      BY <2>1, <2>2, <3>1
    <3>3. serials <= serials'
      BY <1>t, <3>1 DEF CertificateTables
    <3> QED  BY <1>t, <2>1, <3>2, <3>3 DEF CertificateTables
  <2>4. CertificatesLast'
    BY <2>1, <2>2 DEF EarnedInv, CertificatesLast, InTurn
  <2> QED  BY <1>a, <1>b, <1>t, <2>1, <2>3, <2>4
<1>8. ASSUME NEW r \in Issues, DeletesAccount(r) PROVE EarnedInv'
  <2>1. /\ issue[r] # None /\ issue' = [issue EXCEPT ![r] = None]
        /\ ~standing' /\ standing' \in BOOLEAN /\ issued' = None /\ did' = [s \in Steps |-> 0]
        /\ UNCHANGED <<required, ever, serials, showed, regime>>
    BY <1>8 DEF DeletesAccount, IssueAt, IssueEnds
  <2>2. CertificateTables' /\ serials <= serials'
    BY <1>t, <2>1 DEF CertificateTables
  <2>3. \A s \in Steps : did'[s] >= Need[s] => s \in ever
    BY <1>n, <2>1
  <2>4. CertificatesLast'
    BY <2>1 DEF CertificatesLast
  <2> QED  BY <1>a, <1>b, <2>1, <2>2, <2>3, <2>4
(* What a delegate does, and no step at all.                                *)
<1>d. ASSUME UNCHANGED <<required, standing, serials, issued, showed, issue, regime>>,
             did' \in [Steps -> Nat], ever' \subseteq Steps, ever \subseteq ever',
             \A s \in Steps : did'[s] >= Need[s] => s \in ever'
      PROVE  EarnedInv'
  <2>1. CertificatesTypeOK' /\ OneIssue'
    BY <1>d, <1>t DEF EarnedInv, CertificatesTypeOK, CertificateTables, OneIssue, InTurn
  <2>2. \A r \in Issues : issue[r] # None => Earned(issue[r])'
    BY <1>d, <1>t DEF EarnedInv, Earned, CertificateTables
  <2>3. CertificatesLast'
    BY <1>d, <1>t DEF EarnedInv, CertificatesLast, CertificateTables, InTurn
  <2> QED  BY <1>d, <2>1, <2>2, <2>3 DEF EarnedInv, InTurn
<1>9. ASSUME NEW s \in Steps, Participates(s) PROVE EarnedInv'
  <2>1. /\ did[s] < Need[s] /\ did' = [did EXCEPT ![s] = did[s] + 1]
        /\ ever' = IF did'[s] = Need[s] THEN ever \cup {s} ELSE ever
        /\ UNCHANGED <<required, standing, serials, issued, showed, issue, regime>>
    BY <1>9 DEF Participates
  <2>2. did' \in [Steps -> Nat] /\ did'[s] = did[s] + 1 /\ \A q \in Steps : q # s => did'[q] = did[q]
    BY <1>t, <2>1 DEF CertificateTables
  <2>3. ever' \subseteq Steps /\ ever \subseteq ever'
    BY <1>t, <2>1 DEF CertificateTables
  <2>4. did'[s] >= Need[s] => did'[s] = Need[s]
    BY <1>n, <1>t, <2>1, <2>2 DEF CertificateTables
  <2>5. \A q \in Steps : did'[q] >= Need[q] => q \in ever'
    BY <1>t, <2>1, <2>2, <2>3, <2>4
  <2> QED  BY <1>d, <2>1, <2>2, <2>3, <2>5
<1>10. ASSUME NEW s \in Steps, Undone(s) PROVE EarnedInv'
  <2>1. /\ did[s] > 0 /\ did' = [did EXCEPT ![s] = did[s] - 1]
        /\ UNCHANGED <<required, standing, ever, serials, issued, showed, issue, regime>>
    BY <1>10 DEF Undone
  <2>2. did' \in [Steps -> Nat] /\ \A q \in Steps : did'[q] <= did[q]
    BY <1>t, <2>1 DEF CertificateTables
  <2>3. \A q \in Steps : did'[q] >= Need[q] => q \in ever
    BY <1>n, <1>t, <2>2 DEF CertificateTables
  <2> QED  BY <1>d, <1>t, <2>1, <2>2, <2>3 DEF CertificateTables
<1>11. CASE UNCHANGED certificateVars
  BY <1>11, <1>d, <1>t DEF certificateVars, CertificateTables
<1> QED
  BY <1>1, <1>2, <1>3, <1>4, <1>5, <1>6, <1>7, <1>8, <1>9, <1>10, <1>11 DEF CertificatesNext

LEMMA EarnedHolds == CertificatesSpec => []EarnedInv
<1>1. ASSUME CertificatesInit PROVE EarnedInv
  <2>1. CertificatesTypeOK /\ OneIssue /\ \A r \in Issues : issue[r] = None
    BY <1>1, CertificateBounds DEF CertificatesInit, CertificatesTypeOK, OneIssue
  <2>2. \A s \in Steps : did[s] = 0 /\ Need[s] \in Nat \ {0}
    BY <1>1, StepsNeedSomething DEF CertificatesInit
  <2>3. CertificatesLast
    BY <1>1 DEF CertificatesInit, CertificatesLast
  <2> QED  BY <2>1, <2>2, <2>3 DEF EarnedInv
<1> QED  BY <1>1, EarnedStep, PTL DEF CertificatesSpec

(* Type correctness of the certificate, the checklist and their requests.   *)
THEOREM CertificatesTypeCorrect == CertificatesSpec => []CertificatesTypeOK
<1>1. EarnedInv => CertificatesTypeOK
  BY DEF EarnedInv
<1> QED  BY <1>1, EarnedHolds, PTL

(* issueCertificate: whichever requests overlap or are lost, each code *)
(* that was shown is the one in the table while the account stands; and     *)
(* where the checklist guards it, each step of it was complete.             *)
THEOREM CertificateIsKept == CertificatesSpec => []CertificatesLast
<1>1. EarnedInv => CertificatesLast
  BY DEF EarnedInv
<1> QED  BY <1>1, EarnedHolds, PTL

-----------------------------------------------------------------------------
(* Announcements.  A worker that holds a notice holds it alone, and its job *)
(* is active; a request that is to queue an announcement is alone with it,  *)
(* and the row is there and no job yet.                                    *)
Queueing(r) == desk[r] # None /\ desk[r].pc = "queueing"

HeldAlone ==
  /\ \A w \in Couriers : courier[w] # None => parcel[courier[w].n] = "active"
  /\ \A v, w \in Couriers : courier[v] # None /\ courier[w] # None /\ courier[v].n = courier[w].n => v = w
  /\ \A r \in Desk : desk[r] # None => notice[desk[r].n] # "none"
  /\ \A r \in Desk : Queueing(r) => parcel[desk[r].n] = "none"
  /\ \A q, r \in Desk : Queueing(q) /\ Queueing(r) /\ desk[q].n = desk[r].n => q = r
  /\ \A n \in Broadcasts : notice[n] = "none" => parcel[n] = "none"

(* How often a phone rang for a notice, and how often it was stored, before *)
(* the attempt under way: no more often than workers were lost.             *)
RungBefore(n) == \A p \in Phones : rings[n][p] <= lost[n]

(* What is due before the next attempt may ring; after the attempt the count *)
(* may be one higher, and an announcement may then be tried again only when *)
(* its row is stamped, or gone.                                            *)
Waiting(n) ==
  parcel[n] \in {"none", "waiting"} =>
    /\ n \in Directs => RungBefore(n) /\ copies[n] <= lost[n]
    /\ n \in Broadcasts /\ notice[n] \in {"none", "saved"} => RungBefore(n)

Working(w) ==
  courier[w] # None =>
    LET n == courier[w].n IN
    /\ courier[w].pc \in {"asking", "pushing"} => RungBefore(n)
    /\ courier[w].pc = "reading" /\ n \in Directs => RungBefore(n) /\ copies[n] <= lost[n]
    /\ courier[w].pc = "reading" /\ n \in Broadcasts /\ notice[n] \in {"none", "saved"} => RungBefore(n)
    /\ courier[w].pc = "telling" /\ n \in Broadcasts => notice[n] \notin {"none", "saved"}
    /\ courier[w].pc = "stamping" => n \in Broadcasts

CountedBefore ==
  /\ \A n \in Notices : Waiting(n)
  /\ \A w \in Couriers : Working(w)

RingsInv == AnnouncementsTypeOK /\ HeldAlone /\ CountedBefore /\ RingsMatchLosses

LEMMA RingsInit == AnnouncementsInit => RingsInv
BY NoticeKinds DEF AnnouncementsInit, RingsInv, AnnouncementsTypeOK, HeldAlone, CountedBefore, Waiting, Working, RingsMatchLosses,
                   RungBefore, Queueing, Notices

LEMMA DeskStep ==
  ASSUME RingsInv, NEW r \in Desk,
         \/ AnnounceQueues(r) \/ RetractDeletes(r) \/ DeskDies(r)
         \/ \E n \in Broadcasts : AnnounceSaves(r, n) \/ RetractReads(r, n)
  PROVE  RingsInv'
<1>1. AnnouncementsTypeOK'
  <2> USE DEF RingsInv, AnnouncementsTypeOK, DeskRecords, rows, Notices
  <2>1. CASE AnnounceQueues(r) \/ RetractDeletes(r) \/ DeskDies(r)
    BY <2>1 DEF AnnounceQueues, RetractDeletes, DeskDies
  <2>2. CASE \E n \in Broadcasts : AnnounceSaves(r, n) \/ RetractReads(r, n)
    <3>1. PICK n \in Broadcasts : AnnounceSaves(r, n) \/ RetractReads(r, n)
      BY <2>2
    <3>2. \A pc \in {"queueing", "retracting"} : [pc |-> pc, n |-> n] \in DeskRecords
      OBVIOUS
    <3>3. PICK x \in DeskRecords : desk' = [desk EXCEPT ![r] = x]
      BY <3>1, <3>2 DEF AnnounceSaves, RetractReads
    <3> QED  BY <3>1, <3>3 DEF AnnounceSaves, RetractReads
  <2> QED  BY <2>1, <2>2
<1>2. ASSUME AnnounceQueues(r) PROVE HeldAlone' /\ CountedBefore'
  <2> DEFINE n == desk[r].n
  <2>1. /\ Queueing(r) /\ n \in Broadcasts /\ n \in Notices
        /\ parcel' = [parcel EXCEPT ![n] = "waiting"] /\ desk' = [desk EXCEPT ![r] = None]
        /\ UNCHANGED <<notice, copies, rings, lost, courier>>
    BY <1>2 DEF AnnounceQueues, Queueing, RingsInv, AnnouncementsTypeOK, DeskRecords, rows, Notices
  <2>2. notice[n] # "none" /\ parcel[n] = "none"
    BY <2>1 DEF RingsInv, HeldAlone, Queueing
  <2> HIDE DEF n
  <2>3. HeldAlone'
    BY <2>1, <2>2 DEF RingsInv, AnnouncementsTypeOK, DeskRecords, HeldAlone, Queueing, n
  <2>4. CountedBefore'
    BY <2>1, <2>2, NoticeKinds DEF RingsInv, AnnouncementsTypeOK, CountedBefore, Waiting, Working, RungBefore, HeldAlone
  <2> QED  BY <2>3, <2>4
<1>3. ASSUME \E n \in Broadcasts : AnnounceSaves(r, n) PROVE HeldAlone' /\ CountedBefore'
  <2>1. PICK n \in Broadcasts : AnnounceSaves(r, n)
    BY <1>3
  <2>a. /\ desk[r] = None /\ notice[n] = "none" /\ parcel[n] = "none"
        /\ desk'[r].n = n /\ \A q \in Desk : q # r => desk'[q] = desk[q]
        /\ notice'[n] = "saved" /\ \A m \in Broadcasts : m # n => notice'[m] = notice[m]
        /\ UNCHANGED <<courier, parcel>>
    BY <2>1 DEF AnnounceSaves, DeskMayStart, MayStart, RingsInv, AnnouncementsTypeOK, HeldAlone
  <2>b. \A q \in Desk : desk[q] # None => desk[q].n \in Broadcasts /\ desk[q].n # n
    BY <2>a DEF RingsInv, AnnouncementsTypeOK, DeskRecords, HeldAlone
  <2>2. HeldAlone'
    BY <2>a, <2>b DEF RingsInv, HeldAlone, Queueing
  <2>3. CountedBefore'
    BY <2>1 DEF AnnounceSaves, RingsInv, AnnouncementsTypeOK, CountedBefore, Waiting, Working, RungBefore
  <2> QED  BY <2>2, <2>3
<1>4. ASSUME DeskDies(r) \/ \E n \in Broadcasts : RetractReads(r, n) PROVE HeldAlone' /\ CountedBefore'
  <2>1. HeldAlone'
    <3>1. CASE DeskDies(r)
      BY <3>1 DEF DeskDies, RingsInv, AnnouncementsTypeOK, HeldAlone, Queueing, rows
    <3>2. ASSUME NEW n \in Broadcasts, RetractReads(r, n) PROVE HeldAlone'
      BY <3>2 DEF RetractReads, RingsInv, AnnouncementsTypeOK, HeldAlone, Queueing, rows
    <3> QED  BY <1>4, <3>1, <3>2
  <2>2. CountedBefore'
    BY <1>4 DEF DeskDies, RetractReads, RingsInv, CountedBefore, Waiting, Working, RungBefore, rows
  <2> QED  BY <2>1, <2>2
<1>5. ASSUME RetractDeletes(r) PROVE HeldAlone' /\ CountedBefore'
  <2>1. HeldAlone'
    BY <1>5 DEF RetractDeletes, RingsInv, AnnouncementsTypeOK, DeskRecords, HeldAlone, Queueing
  <2>2. CountedBefore'
    BY <1>5 DEF RetractDeletes, RingsInv, AnnouncementsTypeOK, DeskRecords, CountedBefore, Waiting, Working, RungBefore
  <2> QED  BY <2>1, <2>2
<1>6. RingsMatchLosses'
  BY DEF RingsInv, AnnounceQueues, RetractDeletes, DeskDies, AnnounceSaves, RetractReads, rows, RingsMatchLosses
<1> QED  BY <1>1, <1>2, <1>3, <1>4, <1>5, <1>6 DEF RingsInv

LEMMA OtherStep ==
  ASSUME RingsInv,
         \/ \E n \in Directs : DirectQueues(n)
         \/ \E p \in Phones : RegisterDevice(p) \/ UnregisterDevice(p) \/ AppIsDeleted(p)
         \/ UNCHANGED announcementsVars
  PROVE  RingsInv'
<1>1. CASE \E n \in Directs : DirectQueues(n)
  <2>1. PICK n \in Directs : DirectQueues(n)
    BY <1>1
  <2>2. n \in Notices /\ n \notin Broadcasts
    BY NoticeKinds DEF Notices
  <2>3. AnnouncementsTypeOK'
    BY <2>1 DEF RingsInv, AnnouncementsTypeOK, DirectQueues, rows
  <2>4. HeldAlone'
    BY <2>1, <2>2 DEF RingsInv, AnnouncementsTypeOK, DirectQueues, rows, HeldAlone, Queueing, DeskRecords
  <2>5. CountedBefore'
    BY <2>1, <2>2 DEF RingsInv, AnnouncementsTypeOK, DirectQueues, rows, CountedBefore, Waiting, Working, RungBefore, Notices
  <2> QED  BY <2>1, <2>3, <2>4, <2>5 DEF RingsInv, RingsMatchLosses, DirectQueues, rows
<1>2. CASE \/ \E p \in Phones : RegisterDevice(p) \/ UnregisterDevice(p) \/ AppIsDeleted(p)
           \/ UNCHANGED announcementsVars
  <2>1. UNCHANGED <<rows, parcel, rings, lost, desk, courier>>
    BY <1>2 DEF RegisterDevice, UnregisterDevice, AppIsDeleted, announcementsVars
  <2>2. AnnouncementsTypeOK'
    BY <1>2 DEF RingsInv, AnnouncementsTypeOK, RegisterDevice, UnregisterDevice, AppIsDeleted, announcementsVars, rows
  <2> QED  BY <2>1, <2>2 DEF RingsInv, HeldAlone, Queueing, CountedBefore, Waiting, Working, RungBefore, RingsMatchLosses, rows
<1> QED  BY <1>1, <1>2

LEMMA CourierStep ==
  ASSUME RingsInv, NEW w \in Couriers,
         \/ \E n \in Notices : CourierTakes(w, n)
         \/ CourierReads(w) \/ CourierSaves(w) \/ CourierAsks(w) \/ CourierPushes(w) \/ CourierClears(w)
         \/ CourierFails(w) \/ CourierStamps(w) \/ CourierTells(w) \/ CourierDies(w)
  PROVE  RingsInv'
<1> DEFINE c == courier[w]
           n == c.n
           Typed == /\ c \in CourierRecords /\ n \in Notices
                    /\ lost[n] \in Nat /\ \A p \in Phones : rings[n][p] \in Nat
<1>t. c # None => Typed
  BY DEF RingsInv, AnnouncementsTypeOK, CourierRecords
<1>o. ASSUME c # None, NEW x, courier' = [courier EXCEPT ![w] = x], x.n = n \/ x = None
      PROVE  /\ courier'[w] = x /\ \A v \in Couriers : v # w => courier'[v] = courier[v]
             /\ \A v \in Couriers : v # w /\ courier[v] # None => courier[v].n # n /\ courier[v].n \in Notices
  BY <1>o DEF RingsInv, AnnouncementsTypeOK, CourierRecords, HeldAlone
<1>1. ASSUME NEW m \in Notices, CourierTakes(w, m) PROVE RingsInv'
  <2>1. /\ c = None /\ parcel[m] = "waiting" /\ parcel' = [parcel EXCEPT ![m] = "active"]
        /\ courier' = [courier EXCEPT ![w] = [pc |-> "reading", n |-> m, targets |-> {}]]
        /\ UNCHANGED <<rows, rings, lost, phone, dead, desk, apple, regime>>
    BY <1>1 DEF CourierTakes, CourierTo
  <2>2. /\ courier'[w].n = m /\ courier'[w].pc = "reading"
        /\ \A v \in Couriers : v # w => courier'[v] = courier[v]
        /\ \A v \in Couriers : courier[v] # None => courier[v].n # m
    BY <2>1 DEF RingsInv, AnnouncementsTypeOK, HeldAlone
  <2>3. AnnouncementsTypeOK'
    BY <2>1 DEF RingsInv, AnnouncementsTypeOK, CourierRecords, rows
  <2>4. HeldAlone'
    BY <2>1, <2>2 DEF RingsInv, AnnouncementsTypeOK, CourierRecords, DeskRecords, rows, HeldAlone, Queueing, Notices
  <2>5. CountedBefore'
    BY <2>1, <2>2, NoticeKinds DEF RingsInv, AnnouncementsTypeOK, rows, CountedBefore, Waiting, Working, RungBefore, Notices
  <2> QED  BY <2>1, <2>3, <2>4, <2>5 DEF RingsInv, RingsMatchLosses, rows
(* A worker that goes on with its job, and one whose job ends or waits.     *)
<1>g. ASSUME c # None, NEW x \in CourierRecords, courier' = [courier EXCEPT ![w] = x], x.n = n,
             UNCHANGED <<parcel, desk>>, \A m \in Broadcasts : notice'[m] = "none" <=> notice[m] = "none"
      PROVE  HeldAlone'
  <2>1. /\ courier'[w].n = n /\ \A v \in Couriers : v # w => courier'[v] = courier[v]
        /\ \A v \in Couriers : v # w /\ courier[v] # None => courier[v].n # n
    BY <1>o, <1>g
  <2>2. \A r \in Desk : desk[r] # None => desk[r].n \in Broadcasts
    BY DEF RingsInv, AnnouncementsTypeOK, DeskRecords
  <2> QED  BY <2>1, <2>2, <1>g DEF RingsInv, HeldAlone, Queueing
<1>e. ASSUME c # None, courier' = [courier EXCEPT ![w] = None], NEW state \in {"waiting", "done"},
             parcel' = [parcel EXCEPT ![n] = state], UNCHANGED <<desk, notice>>
      PROVE  HeldAlone'
  <2>1. /\ courier'[w] = None /\ \A v \in Couriers : v # w => courier'[v] = courier[v]
        /\ \A v \in Couriers : v # w /\ courier[v] # None => courier[v].n # n /\ courier[v].n \in Notices
    BY <1>o, <1>e
  <2>2. \A r \in Desk : desk[r] # None => desk[r].n \in Broadcasts /\ desk[r].n \in Notices
    BY DEF RingsInv, AnnouncementsTypeOK, DeskRecords, Notices
  <2>3. parcel[n] = "active" /\ n \in Notices
    BY <1>e, <1>t DEF RingsInv, HeldAlone
  <2>4. \A m \in Notices : m # n => parcel'[m] = parcel[m]
    BY <1>e DEF RingsInv, AnnouncementsTypeOK
  <2> QED  BY <2>1, <2>2, <2>3, <2>4, <1>e DEF RingsInv, HeldAlone, Queueing, Notices
<1> DEFINE Left(m) == /\ parcel'[m] = parcel[m] /\ rings'[m] = rings[m] /\ lost'[m] = lost[m]
                      /\ (m \in Broadcasts => notice'[m] = notice[m])
                      /\ (m \in Directs => copies'[m] = copies[m])
<1>c. ASSUME c # None, NEW x, courier' = [courier EXCEPT ![w] = x], x.n = n \/ x = None, NEW k \in Notices, k = n,
             \A m \in Notices \ {k} : Left(m),
             Waiting(k)', Working(w)'
      PROVE  CountedBefore'
  <2>1. ASSUME NEW m \in Notices, m # k PROVE Waiting(m)'
    <3>1. Waiting(m)
      BY DEF RingsInv, CountedBefore
    <3>a. rings'[m] = rings[m] /\ lost'[m] = lost[m]
      BY <2>1, <1>c
    <3>2. RungBefore(m) => RungBefore(m)'
      BY <3>a DEF RungBefore
    <3> QED  BY <2>1, <3>1, <3>2, <1>c DEF Waiting
  <2>2. ASSUME NEW v \in Couriers, v # w PROVE Working(v)'
    <3>1. courier'[v] = courier[v] /\ (courier[v] # None => courier[v].n # k /\ courier[v].n \in Notices)
      BY <2>2, <1>c, <1>o
    <3>2. Working(v)
      BY DEF RingsInv, CountedBefore
    <3>3. SUFFICES ASSUME courier[v] # None PROVE Working(v)'
      BY <3>1 DEF Working
    <3>4. PICK m \in Notices : m = courier[v].n /\ m = courier'[v].n /\ m # k
      BY <3>1, <3>3
    <3>5. RungBefore(m) => RungBefore(m)'
      BY <3>4, <1>c DEF RungBefore
    <3> QED  BY <3>1, <3>2, <3>4, <3>5, <1>c DEF Working
  <2> QED  BY <2>1, <2>2, <1>c DEF CountedBefore
<1>2. ASSUME CourierReads(w) PROVE RingsInv'
  <2>1. c # None /\ c.pc = "reading" /\ n \in Broadcasts /\ UNCHANGED <<rows, rings, lost, phone, dead, desk, apple, regime>>
    BY <1>2 DEF CourierReads, CourierAt
  <2>2. CASE notice[n] = "saved"
    <3> DEFINE x == [c EXCEPT !.pc = "asking"]
    <3>1. courier' = [courier EXCEPT ![w] = x] /\ parcel' = parcel
      BY <1>2, <2>2 DEF CourierReads, CourierTo
    <3>2. x \in CourierRecords /\ x.n = n /\ x.pc = "asking" /\ RungBefore(n)
      BY <1>t, <2>1, <2>2 DEF CourierRecords, RingsInv, CountedBefore, Waiting, Working
    <3> HIDE DEF x
    <3>3. HeldAlone'
      BY <1>g, <2>1, <3>1, <3>2 DEF rows
    <3>4. AnnouncementsTypeOK'
      BY <2>1, <3>1, <3>2 DEF RingsInv, AnnouncementsTypeOK, rows
    <3>5. CountedBefore'
      BY <1>o, <2>1, <3>1, <3>2 DEF RingsInv, CountedBefore, Waiting, Working, RungBefore, rows
    <3> QED  BY <2>1, <3>3, <3>4, <3>5 DEF RingsInv, RingsMatchLosses, rows
  <2>3. CASE notice[n] # "saved"
    <3>1. courier' = [courier EXCEPT ![w] = None] /\ parcel' = [parcel EXCEPT ![n] = "done"]
      BY <1>2, <2>3 DEF CourierReads, CourierTo, JobEnds
    <3>2. HeldAlone'
      BY <1>e, <2>1, <3>1 DEF rows
    <3>3. AnnouncementsTypeOK'
      BY <2>1, <3>1 DEF RingsInv, AnnouncementsTypeOK, rows
    <3>4. CountedBefore'
      BY <1>o, <1>t, <2>1, <3>1 DEF RingsInv, AnnouncementsTypeOK, CountedBefore, Waiting, Working, RungBefore, rows, Notices
    <3> QED  BY <2>1, <3>2, <3>3, <3>4 DEF RingsInv, RingsMatchLosses, rows
  <2> QED  BY <2>2, <2>3
<1>3. ASSUME CourierSaves(w) PROVE RingsInv'
  <2> DEFINE x == [c EXCEPT !.pc = "asking"]
  <2>1. /\ c # None /\ c.pc = "reading" /\ n \in Directs /\ n \notin Broadcasts
        /\ courier' = [courier EXCEPT ![w] = x] /\ copies' = [copies EXCEPT ![n] = @ + 1]
        /\ UNCHANGED <<notice, parcel, rings, lost, phone, dead, desk, apple, regime>>
    BY <1>3, NoticeKinds DEF CourierSaves, CourierAt, CourierTo
  <2>2. x \in CourierRecords /\ x.n = n /\ x.pc = "asking" /\ RungBefore(n) /\ copies[n] <= lost[n]
    BY <1>t, <2>1 DEF CourierRecords, RingsInv, CountedBefore, Waiting, Working
  <2> HIDE DEF x
  <2>3. HeldAlone'
    BY <1>g, <2>1, <2>2
  <2>4. AnnouncementsTypeOK'
    BY <2>1, <2>2 DEF RingsInv, AnnouncementsTypeOK
  <2>5. parcel[n] = "active"
    BY <2>1 DEF RingsInv, HeldAlone
  <2>6. /\ \A m \in Directs : m # n => copies'[m] = copies[m]
        /\ copies'[n] = copies[n] + 1 /\ copies[n] \in Nat /\ lost[n] \in Nat
    BY <1>t, <2>1 DEF RingsInv, AnnouncementsTypeOK
  <2>7. CountedBefore'
    <3>1. PICK k \in Notices : k = n
      BY <1>t, <2>1
    <3>2. \A m \in Notices \ {k} : Left(m)
      BY <2>1, <2>6, <3>1
    <3>3. Waiting(k)' /\ Working(w)'
      BY <1>o, <2>1, <2>2, <2>5, <3>1 DEF Waiting, Working, RungBefore
    <3> QED  BY <1>c, <2>1, <2>2, <3>1, <3>2, <3>3
  <2>8. RingsMatchLosses'
    BY <2>1, <2>2, <2>6 DEF RingsInv, RingsMatchLosses
  <2> QED  BY <2>3, <2>4, <2>7, <2>8 DEF RingsInv
<1>4. ASSUME CourierAsks(w) PROVE RingsInv'
  <2> DEFINE x == [c EXCEPT !.pc = "pushing", !.targets = phone]
  <2>1. /\ c # None /\ c.pc = "asking" /\ courier' = [courier EXCEPT ![w] = x]
        /\ UNCHANGED <<rows, parcel, rings, lost, phone, dead, desk, apple, regime>>
    BY <1>4 DEF CourierAsks, CourierAt, CourierTo
  <2>2. x \in CourierRecords /\ x.n = n /\ x.pc = "pushing" /\ RungBefore(n)
    BY <1>t, <2>1 DEF CourierRecords, RingsInv, CountedBefore, Waiting, Working, AnnouncementsTypeOK
  <2> HIDE DEF x
  <2>3. HeldAlone'
    BY <1>g, <2>1, <2>2 DEF rows
  <2>4. AnnouncementsTypeOK'
    BY <2>1, <2>2 DEF RingsInv, AnnouncementsTypeOK, rows
  <2>5. CountedBefore'
    BY <1>o, <2>1, <2>2 DEF RingsInv, CountedBefore, Waiting, Working, RungBefore, rows
  <2> QED  BY <2>1, <2>3, <2>4, <2>5 DEF RingsInv, RingsMatchLosses, rows
(* Each phone rings once at most in one push.                               *)
<1>r. ASSUME c # None, RungBefore(n), NEW reached, rings' = Rung(n, reached), lost' = lost
      PROVE  /\ rings' \in [Notices -> [Phones -> Nat]]
             /\ \A p \in Phones : rings'[n][p] <= 1 + lost'[n]
             /\ \A m \in Notices : m # n => rings'[m] = rings[m]
  <2>1. n \in Notices /\ rings \in [Notices -> [Phones -> Nat]] /\ lost[n] \in Nat
    BY <1>r, <1>t DEF RingsInv, AnnouncementsTypeOK
  <2> DEFINE more == [p \in Phones |-> rings[n][p] + IF p \in reached THEN 1 ELSE 0]
  <2>2. rings' = [rings EXCEPT ![n] = more]
    BY <1>r, <2>1 DEF Rung
  <2>3. more \in [Phones -> Nat] /\ \A p \in Phones : more[p] <= 1 + lost[n]
    BY <1>r, <2>1 DEF RungBefore
  <2> HIDE DEF more
  <2> QED  BY <1>r, <2>1, <2>2, <2>3
<1>5. ASSUME CourierPushes(w) PROVE RingsInv'
  <2> DEFINE invalid == InvalidTokens(c.targets)
             x == [c EXCEPT !.pc = IF invalid = {} THEN AfterPush(n) ELSE "clearing", !.targets = invalid]
  <2>1. /\ c # None /\ c.pc = "pushing" /\ courier' = [courier EXCEPT ![w] = x]
        /\ UNCHANGED <<rows, parcel, lost, phone, dead, desk, apple, regime>>
    BY <1>5 DEF CourierPushes, CourierAt, CourierTo
  <2>2. PICK reached : rings' = Rung(n, reached)
    BY <1>5 DEF CourierPushes
  <2>3. invalid \subseteq Phones
    BY <1>t, <2>1 DEF InvalidTokens, ApnsReports, FcmReports, CourierRecords
  <2>4. /\ x \in CourierRecords /\ x.n = n /\ x.pc \in {"stamping", "telling", "clearing"}
        /\ x.pc = "stamping" => n \in Broadcasts
        /\ x.pc = "telling" => n \notin Broadcasts
    BY <1>t, <2>1, <2>3 DEF CourierRecords, AfterPush
  <2>5. RungBefore(n)
    BY <2>1 DEF RingsInv, CountedBefore, Waiting, Working
  <2> HIDE DEF x, invalid
  <2>6. HeldAlone'
    BY <1>g, <2>1, <2>4 DEF rows
  <2>7. /\ rings' \in [Notices -> [Phones -> Nat]]
        /\ \A p \in Phones : rings'[n][p] <= 1 + lost'[n]
        /\ \A m \in Notices : m # n => rings'[m] = rings[m]
    BY <1>r, <2>1, <2>2, <2>5
  <2>8. AnnouncementsTypeOK'
    BY <2>1, <2>4, <2>7 DEF RingsInv, AnnouncementsTypeOK, rows
  <2>9. parcel[n] = "active"
    BY <2>1 DEF RingsInv, HeldAlone
  <2>10. CountedBefore'
    <3>1. PICK k \in Notices : k = n
      BY <1>t, <2>1
    <3>2. \A m \in Notices \ {k} : Left(m)
      BY <2>1, <2>7, <3>1 DEF rows
    <3>3. Waiting(k)' /\ Working(w)'
      BY <1>o, <2>1, <2>4, <2>9, <3>1 DEF Waiting, Working, rows
    <3> QED  BY <1>c, <2>1, <2>4, <3>1, <3>2, <3>3
  <2>11. RingsMatchLosses'
    BY <1>t, <2>1, <2>7 DEF RingsInv, RingsMatchLosses, rows
  <2> QED  BY <2>6, <2>8, <2>10, <2>11 DEF RingsInv
<1>6. ASSUME CourierFails(w) PROVE RingsInv'
  <2>1. /\ c # None /\ c.pc = "pushing" /\ courier' = [courier EXCEPT ![w] = None]
        /\ parcel' = [parcel EXCEPT ![n] = "done"]
        /\ UNCHANGED <<rows, lost, phone, dead, desk, apple, regime>>
    BY <1>6 DEF CourierFails, CourierAt, CourierTo, JobEnds
  <2>2. PICK reached : rings' = Rung(n, reached)
    BY <1>6 DEF CourierFails
  <2>3. RungBefore(n)
    BY <2>1 DEF RingsInv, CountedBefore, Waiting, Working
  <2>4. HeldAlone'
    BY <1>e, <2>1 DEF rows
  <2>5. /\ rings' \in [Notices -> [Phones -> Nat]]
        /\ \A p \in Phones : rings'[n][p] <= 1 + lost'[n]
        /\ \A m \in Notices : m # n => rings'[m] = rings[m]
    BY <1>r, <2>1, <2>2, <2>3
  <2>6. AnnouncementsTypeOK'
    BY <2>1, <2>5 DEF RingsInv, AnnouncementsTypeOK, rows
  <2>7. parcel'[n] = "done" /\ \A m \in Notices : m # n => parcel'[m] = parcel[m]
    BY <1>t, <2>1 DEF RingsInv, AnnouncementsTypeOK
  <2>8. CountedBefore'
    <3>1. PICK k \in Notices : k = n
      BY <1>t, <2>1
    <3>2. \A m \in Notices \ {k} : Left(m)
      BY <2>1, <2>5, <2>7, <3>1 DEF rows
    <3>3. Waiting(k)' /\ Working(w)'
      BY <1>o, <2>1, <2>7, <3>1 DEF Waiting, Working
    <3> QED  BY <1>c, <2>1, <3>1, <3>2, <3>3
  <2>9. RingsMatchLosses'
    BY <1>t, <2>1, <2>5 DEF RingsInv, RingsMatchLosses, rows
  <2> QED  BY <2>4, <2>6, <2>8, <2>9 DEF RingsInv
<1>7. ASSUME CourierClears(w) PROVE RingsInv'
  <2> DEFINE x == [c EXCEPT !.pc = AfterPush(n), !.targets = {}]
  <2>1. /\ c # None /\ c.pc = "clearing" /\ courier' = [courier EXCEPT ![w] = x] /\ phone' = phone \ c.targets
        /\ UNCHANGED <<rows, parcel, rings, lost, dead, desk, apple, regime>>
    BY <1>7 DEF CourierClears, CourierAt, CourierTo
  <2>2. /\ x \in CourierRecords /\ x.n = n /\ x.pc \in {"stamping", "telling"}
        /\ x.pc = "stamping" => n \in Broadcasts
        /\ x.pc = "telling" => n \notin Broadcasts
    BY <1>t, <2>1 DEF CourierRecords, AfterPush
  <2> HIDE DEF x
  <2>3. HeldAlone'
    BY <1>g, <2>1, <2>2 DEF rows
  <2>4. AnnouncementsTypeOK'
    BY <2>1, <2>2 DEF RingsInv, AnnouncementsTypeOK, rows
  <2>5. parcel[n] = "active"
    BY <2>1 DEF RingsInv, HeldAlone
  <2>6. CountedBefore'
    <3>1. PICK k \in Notices : k = n
      BY <1>t, <2>1
    <3>2. \A m \in Notices \ {k} : Left(m)
      BY <2>1, <3>1 DEF rows
    <3>3. Waiting(k)' /\ Working(w)'
      BY <1>o, <2>1, <2>2, <2>5, <3>1 DEF Waiting, Working
    <3> QED  BY <1>c, <2>1, <2>2, <3>1, <3>2, <3>3
  <2> QED  BY <2>1, <2>3, <2>4, <2>6 DEF RingsInv, RingsMatchLosses, rows
<1>8. ASSUME CourierStamps(w) PROVE RingsInv'
  <2> DEFINE x == [c EXCEPT !.pc = "telling"]
  <2>1. /\ c # None /\ c.pc = "stamping" /\ n \in Broadcasts /\ courier' = [courier EXCEPT ![w] = x]
        /\ notice' = IF notice[n] = "saved" THEN [notice EXCEPT ![n] = "sent"] ELSE notice
        /\ UNCHANGED <<copies, parcel, rings, lost, phone, dead, desk, apple, regime>>
    BY <1>8 DEF CourierStamps, CourierAt, CourierTo, RingsInv, CountedBefore, Working
  <2>2. x \in CourierRecords /\ x.n = n /\ x.pc = "telling"
    BY <1>t, <2>1 DEF CourierRecords
  <2>3. parcel[n] = "active"
    BY <2>1 DEF RingsInv, HeldAlone
  <2>4. /\ notice' \in [Broadcasts -> {"none", "saved", "sent", "retracted"}]
        /\ notice'[n] \notin {"none", "saved"} /\ notice[n] # "none"
        /\ \A m \in Broadcasts : m # n => notice'[m] = notice[m]
    BY <1>t, <2>1, <2>3 DEF RingsInv, AnnouncementsTypeOK, HeldAlone
  <2> HIDE DEF x
  <2>5. HeldAlone'
    BY <1>g, <2>1, <2>2, <2>4
  <2>6. AnnouncementsTypeOK'
    BY <2>1, <2>2, <2>4 DEF RingsInv, AnnouncementsTypeOK
  <2>7. CountedBefore'
    <3>1. PICK k \in Notices : k = n
      BY <1>t, <2>1
    <3>2. \A m \in Notices \ {k} : Left(m)
      BY <2>1, <2>4, <3>1
    <3>3. Waiting(k)' /\ Working(w)'
      BY <1>o, <2>1, <2>2, <2>3, <2>4, <3>1 DEF Waiting, Working
    <3> QED  BY <1>c, <2>1, <2>2, <3>1, <3>2, <3>3
  <2> QED  BY <2>1, <2>5, <2>6, <2>7 DEF RingsInv, RingsMatchLosses
<1>9. ASSUME CourierTells(w) PROVE RingsInv'
  <2>1. /\ c # None /\ courier' = [courier EXCEPT ![w] = None] /\ parcel' = [parcel EXCEPT ![n] = "done"]
        /\ UNCHANGED <<rows, rings, lost, phone, dead, desk, apple, regime>>
    BY <1>9 DEF CourierTells, CourierAt, CourierTo, JobEnds
  <2>2. HeldAlone'
    BY <1>e, <2>1 DEF rows
  <2>3. AnnouncementsTypeOK'
    BY <2>1 DEF RingsInv, AnnouncementsTypeOK, rows
  <2>4. parcel'[n] = "done" /\ \A m \in Notices : m # n => parcel'[m] = parcel[m]
    BY <1>t, <2>1 DEF RingsInv, AnnouncementsTypeOK
  <2>5. CountedBefore'
    <3>1. PICK k \in Notices : k = n
      BY <1>t, <2>1
    <3>2. \A m \in Notices \ {k} : Left(m)
      BY <2>1, <2>4, <3>1 DEF rows
    <3>3. Waiting(k)' /\ Working(w)'
      BY <1>o, <2>1, <2>4, <3>1 DEF Waiting, Working
    <3> QED  BY <1>c, <2>1, <3>1, <3>2, <3>3
  <2> QED  BY <2>1, <2>2, <2>3, <2>5 DEF RingsInv, RingsMatchLosses, rows
<1>10. ASSUME CourierDies(w) PROVE RingsInv'
  <2>1. /\ c # None /\ courier' = [courier EXCEPT ![w] = None] /\ parcel' = [parcel EXCEPT ![n] = "waiting"]
        /\ lost' = IF Unmarked(w) THEN [lost EXCEPT ![n] = @ + 1] ELSE lost
        /\ UNCHANGED <<rows, rings, phone, dead, desk, apple, regime>>
    BY <1>10 DEF CourierDies, CourierTo
  <2>2. HeldAlone'
    BY <1>e, <2>1 DEF rows
  <2>3. /\ lost' \in [Notices -> Nat] /\ lost'[n] >= lost[n]
        /\ Unmarked(w) => lost'[n] = lost[n] + 1
        /\ \A m \in Notices : m # n => lost'[m] = lost[m]
    BY <1>t, <2>1 DEF RingsInv, AnnouncementsTypeOK
  <2>4. AnnouncementsTypeOK'
    BY <2>1, <2>3 DEF RingsInv, AnnouncementsTypeOK, rows
  <2>5. parcel'[n] = "waiting" /\ \A m \in Notices : m # n => parcel'[m] = parcel[m]
    BY <1>t, <2>1 DEF RingsInv, AnnouncementsTypeOK
  <2>6. /\ \A p \in Phones : rings[n][p] <= 1 + lost[n]
        /\ n \in Directs => copies[n] <= 1 + lost[n] /\ copies[n] \in Nat
    BY <1>t, <2>1 DEF RingsInv, RingsMatchLosses, AnnouncementsTypeOK
  <2>7. n \in Directs => \/ Unmarked(w)
                         \/ RungBefore(n) /\ copies[n] <= lost[n]
    BY <1>t, <2>1 DEF RingsInv, CountedBefore, Working, Unmarked, CourierRecords
  <2>8. n \in Broadcasts /\ notice[n] \in {"none", "saved"} => Unmarked(w) \/ RungBefore(n)
    BY <1>t, <2>1 DEF RingsInv, CountedBefore, Working, Unmarked, CourierAt, CourierRecords
  <2>9. CountedBefore'
    <3>1. PICK k \in Notices : k = n
      BY <1>t, <2>1
    <3>2. \A m \in Notices \ {k} : Left(m)
      BY <2>1, <2>3, <2>5, <3>1 DEF rows
    <3>3. Unmarked(w) \/ RungBefore(n) => RungBefore(k)'
      BY <1>t, <2>1, <2>3, <2>6, <3>1 DEF RungBefore
    <3>4. n \in Directs => copies'[k] <= lost'[k]
      BY <1>t, <2>1, <2>3, <2>6, <2>7, <3>1 DEF rows
    <3>5. Waiting(k)' /\ Working(w)'
      BY <1>o, <2>1, <2>7, <2>8, <3>1, <3>3, <3>4 DEF Waiting, Working, rows
    <3> QED  BY <1>c, <2>1, <3>1, <3>2, <3>5
  <2>10. RingsMatchLosses'
    <3>1. \A m \in Notices : lost'[m] >= lost[m] /\ lost[m] \in Nat /\ lost'[m] \in Nat
      BY <1>t, <2>1, <2>3 DEF RingsInv, AnnouncementsTypeOK
    <3>2. /\ \A m \in Notices, p \in Phones : rings[m][p] \in Nat
          /\ \A m \in Directs : copies[m] \in Nat /\ m \in Notices
      BY DEF RingsInv, AnnouncementsTypeOK, Notices
    <3> QED  BY <2>1, <3>1, <3>2 DEF RingsInv, RingsMatchLosses, rows
  <2> QED  BY <2>2, <2>4, <2>9, <2>10 DEF RingsInv
<1> QED  BY <1>1, <1>2, <1>3, <1>4, <1>5, <1>6, <1>7, <1>8, <1>9, <1>10

LEMMA RingsHold == AnnouncementsSpec => []RingsInv
<1>1. RingsInv /\ [AnnouncementsNext]_announcementsVars => RingsInv'
  BY DeskStep, OtherStep, CourierStep DEF AnnouncementsNext
<1> QED  BY <1>1, RingsInit, PTL DEF AnnouncementsSpec

(* Type correctness of announcements, for any notices, phones and workers.  *)
THEOREM AnnouncementsTypeCorrect == AnnouncementsSpec => []AnnouncementsTypeOK
<1>1. RingsInv => AnnouncementsTypeOK
  BY DEF RingsInv
<1> QED  BY <1>1, RingsHold, PTL

(* A phone rings once for a notice, and once more for each worker that was  *)
(* lost before the mark of it, whatever requests, workers and losses overlap *)
(* (process and sendDirect of notifications.processor.ts).                  *)
THEOREM RingsAreAccountedFor == AnnouncementsSpec => []RingsMatchLosses
<1>1. RingsInv => RingsMatchLosses
  BY DEF RingsInv
<1> QED  BY <1>1, RingsHold, PTL

-----------------------------------------------------------------------------
(* LiveOps.  Where requests take turns one panel is busy at most.           *)
OnePanel == InTurn => \A p, q \in Panels : panel[p] # None /\ panel[q] # None => p = q

(* A flag was set and all three are still to be read back.                  *)
Unread == \E r \in Panels : PanelAt(r, "setting") /\ panel[r].begun

(* Who read them after p, having set one, tells the room after p.           *)
Corrected(p) == \E q \in Panels : Telling(q) /\ panel[q].begun /\ p \in panel[q].before

(* What a panel read is what holds, or another will tell the room later;    *)
(* so too for what the room was told, unless a request was lost.  A panel   *)
(* that read the flags since the last loss read them after those before it. *)
ReadsAreCorrected ==
  /\ ~Unread => /\ \A p \in Panels : Telling(p) /\ panel[p].since => panel[p].seen = flags \/ Corrected(p)
                /\ ~torn => screen = flags \/ \E q \in Panels : Telling(q) /\ panel[q].begun
  /\ ~torn => \A p \in Panels : Telling(p) => panel[p].since
  /\ \A p, q \in Panels : Telling(p) /\ Telling(q) /\ panel[q].since => panel[p].since \/ p \in panel[q].before

ScreensInv ==
  /\ LiveOpsTypeOK /\ OnePanel
  /\ \A p \in Panels : Telling(p) => p \notin panel[p].before
  /\ alone \/ InTurn => ReadsAreCorrected

LEMMA ScreensInit == LiveOpsInit => ScreensInv
BY DEF LiveOpsInit, ScreensInv, LiveOpsTypeOK, OnePanel, ReadsAreCorrected, Unread, PanelAt, Telling, AllOff, Flags

LEMMA SettingsAsked ==
  ASSUME NEW r \in Panels,
         \/ \E active \in BOOLEAN : SetCutToBreak(r, active)
         \/ \E captions, signLanguage \in BOOLEAN \cup {None} : SetOverlays(r, captions, signLanguage)
  PROVE  \E todo \in Seq(Flags \X BOOLEAN) : Asks(r, todo)
<1>1. CASE \E active \in BOOLEAN : SetCutToBreak(r, active)
  <2>1. PICK active \in BOOLEAN : SetCutToBreak(r, active)
    BY <1>1
  <2>2. <<<<"cutToBreak", active>>>> \in Seq(Flags \X BOOLEAN)
    BY DEF Flags
  <2> WITNESS <<<<"cutToBreak", active>>>> \in Seq(Flags \X BOOLEAN)
  <2> QED  BY <2>1 DEF SetCutToBreak
<1>2. CASE \E captions, signLanguage \in BOOLEAN \cup {None} : SetOverlays(r, captions, signLanguage)
  <2>1. PICK captions \in BOOLEAN \cup {None}, signLanguage \in BOOLEAN \cup {None} : SetOverlays(r, captions, signLanguage)
    BY <1>2
  <2> DEFINE one == IF captions = None THEN <<>> ELSE <<<<"captionsOverlay", captions>>>>
             two == IF signLanguage = None THEN <<>> ELSE <<<<"signLanguageOverlay", signLanguage>>>>
  <2>2. one \in Seq(Flags \X BOOLEAN)
    <3>1. CASE captions = None
      BY <3>1
    <3>2. CASE captions # None
      <4>1. <<"captionsOverlay", captions>> \in Flags \X BOOLEAN
        BY <3>2 DEF Flags
      <4> QED  BY <3>2, <4>1
    <3> QED  BY <3>1, <3>2
  <2>3. two \in Seq(Flags \X BOOLEAN)
    <3>1. CASE signLanguage = None
      BY <3>1
    <3>2. CASE signLanguage # None
      <4>1. <<"signLanguageOverlay", signLanguage>> \in Flags \X BOOLEAN
        BY <3>2 DEF Flags
      <4> QED  BY <3>2, <4>1
    <3> QED  BY <3>1, <3>2
  <2>4. Asks(r, one \o two)
    BY <2>1 DEF SetOverlays
  <2> HIDE DEF one, two
  <2>5. one \o two \in Seq(Flags \X BOOLEAN)
    BY <2>2, <2>3
  <2> WITNESS one \o two \in Seq(Flags \X BOOLEAN)
  <2> QED  BY <2>4
<1> QED  BY <1>1, <1>2

LEMMA ScreensStep == ScreensInv /\ [LiveOpsNext]_liveOpsVars => ScreensInv'
<1> SUFFICES ASSUME ScreensInv, [LiveOpsNext]_liveOpsVars PROVE ScreensInv'
  OBVIOUS
<1>t. \A q \in Panels : panel[q] # None => panel[q] \in PanelRecords
  BY DEF ScreensInv, LiveOpsTypeOK
<1>1. ASSUME NEW r \in Panels, NEW todo \in Seq(Flags \X BOOLEAN), Asks(r, todo) PROVE ScreensInv'
  <2> DEFINE x == [pc |-> "setting", todo |-> todo, begun |-> FALSE, seen |-> AllOff, before |-> {}, since |-> FALSE]
  <2>1. /\ x \in PanelRecords /\ x.pc = "setting" /\ ~x.begun
    BY DEF PanelRecords, AllOff
  <2>2. /\ panel[r] = None /\ (InTurn => Idle(panel)) /\ panel' = [panel EXCEPT ![r] = x]
        /\ UNCHANGED <<alone, flags, screen, torn, regime>>
    BY <1>1 DEF Asks, MayStart
  <2> HIDE DEF x
  <2>3. panel'[r] = x /\ \A q \in Panels : q # r => panel'[q] = panel[q]
    BY <2>2 DEF ScreensInv, LiveOpsTypeOK
  <2>4. \A q \in Panels : (Telling(q) <=> Telling(q)') /\ (Telling(q) => panel'[q] = panel[q])
    BY <2>1, <2>2, <2>3 DEF Telling
  <2>5. (Unread <=> Unread') /\ \A q \in Panels : Corrected(q) <=> Corrected(q)'
    BY <2>1, <2>2, <2>3, <2>4 DEF Unread, PanelAt, Corrected
  <2>6. OnePanel'
    BY <2>2, <2>3 DEF OnePanel, Idle, InTurn, ScreensInv, LiveOpsTypeOK
  <2>7. LiveOpsTypeOK'
    BY <2>1, <2>2 DEF ScreensInv, LiveOpsTypeOK
  <2>8. ReadsAreCorrected => ReadsAreCorrected'
    BY <2>2, <2>4, <2>5 DEF ReadsAreCorrected
  <2> QED  BY <2>2, <2>4, <2>6, <2>7, <2>8 DEF ScreensInv, InTurn
<1>2. ASSUME NEW r \in Panels, SetsFlag(r) PROVE ScreensInv'
  <2> DEFINE x == [panel[r] EXCEPT !.todo = Tail(@), !.begun = TRUE]
             set == Head(panel[r].todo)
  <2>1. /\ panel[r] # None /\ panel[r].pc = "setting" /\ panel[r].todo # <<>> /\ panel[r].todo \in Seq(Flags \X BOOLEAN)
        /\ panel' = [panel EXCEPT ![r] = x] /\ flags' = [flags EXCEPT ![set[1]] = set[2]]
        /\ UNCHANGED <<alone, screen, torn, regime>>
    BY <1>2, <1>t DEF SetsFlag, PanelAt, PanelRecords, ScreensInv, LiveOpsTypeOK
  <2>2. set \in Flags \X BOOLEAN /\ Tail(panel[r].todo) \in Seq(Flags \X BOOLEAN)
    BY <2>1
  <2>3. x \in PanelRecords /\ x.pc = "setting" /\ x.begun
    BY <1>t, <2>1, <2>2 DEF PanelRecords
  <2> HIDE DEF x
  <2>4. panel'[r] = x /\ x # None /\ \A q \in Panels : q # r => panel'[q] = panel[q]
    BY <2>1, <2>3, NoneIsNoPanel DEF ScreensInv, LiveOpsTypeOK
  <2>5. \A q \in Panels : (Telling(q) <=> Telling(q)') /\ (Telling(q) => panel'[q] = panel[q])
    BY <2>1, <2>3, <2>4 DEF Telling
  <2>6. Unread'
    BY <2>3, <2>4 DEF Unread, PanelAt
  <2>7. OnePanel'
    BY <2>1, <2>4 DEF OnePanel, InTurn, ScreensInv
  <2>8. LiveOpsTypeOK'
    BY <2>1, <2>2, <2>3 DEF ScreensInv, LiveOpsTypeOK
  <2>9. ReadsAreCorrected => ReadsAreCorrected'
    BY <2>1, <2>5, <2>6 DEF ReadsAreCorrected
  <2> QED  BY <2>1, <2>5, <2>7, <2>8, <2>9 DEF ScreensInv, InTurn
<1>3. ASSUME NEW r \in Panels, ReadsFlags(r) PROVE ScreensInv'
  <2> DEFINE x == [panel[r] EXCEPT !.pc = "telling", !.seen = flags, !.since = TRUE, !.before = {q \in Panels : Telling(q)}]
  <2>1. /\ panel[r] # None /\ panel[r].pc = "setting" /\ panel' = [panel EXCEPT ![r] = x]
        /\ UNCHANGED <<alone, flags, screen, torn, regime>>
    BY <1>3 DEF ReadsFlags, PanelAt, ScreensInv, LiveOpsTypeOK
  <2>2. /\ x \in PanelRecords /\ x.pc = "telling" /\ x.seen = flags /\ x.since = TRUE
        /\ x.before = {q \in Panels : Telling(q)} /\ x.begun = panel[r].begun
    BY <1>t, <2>1 DEF PanelRecords, ScreensInv, LiveOpsTypeOK
  <2> HIDE DEF x
  <2>3. panel'[r] = x /\ x # None /\ \A q \in Panels : q # r => panel'[q] = panel[q]
    BY <2>1, <2>2, NoneIsNoPanel DEF ScreensInv, LiveOpsTypeOK
  <2>4. ~Telling(r) /\ Telling(r)' /\ \A q \in Panels : q # r => (Telling(q) <=> Telling(q)')
    BY <2>1, <2>2, <2>3 DEF Telling
  <2>5. OnePanel'
    BY <2>1, <2>3 DEF OnePanel, InTurn, ScreensInv
  <2>6. LiveOpsTypeOK'
    BY <2>1, <2>2 DEF ScreensInv, LiveOpsTypeOK
  <2>7. \A q \in Panels : Corrected(q) => Corrected(q)'
    BY <2>3, <2>4 DEF Corrected
  <2>8. panel[r].begun => \A q \in Panels : Telling(q) => Corrected(q)'
    BY <2>2, <2>3, <2>4 DEF Corrected
  <2>9. ~Unread' /\ ~panel[r].begun => ~Unread
    BY <2>3 DEF Unread, PanelAt
  <2>10. ASSUME ReadsAreCorrected PROVE ReadsAreCorrected'
    <3>1. ASSUME ~Unread'
          PROVE  /\ \A p \in Panels : Telling(p)' /\ panel'[p].since => panel'[p].seen = flags' \/ Corrected(p)'
                 /\ ~torn' => screen' = flags' \/ \E q \in Panels : Telling(q)' /\ panel'[q].begun
      <4>1. CASE panel[r].begun
        BY <4>1, <2>1, <2>2, <2>3, <2>4, <2>8
      <4>2. CASE ~panel[r].begun
        BY <4>2, <3>1, <2>1, <2>2, <2>3, <2>4, <2>7, <2>9, <2>10 DEF ReadsAreCorrected
      <4> QED  BY <4>1, <4>2
    <3>2. ~torn' => \A p \in Panels : Telling(p)' => panel'[p].since
      BY <2>1, <2>2, <2>3, <2>4, <2>10 DEF ReadsAreCorrected
    <3>3. \A p, q \in Panels : Telling(p)' /\ Telling(q)' /\ panel'[q].since => panel'[p].since \/ p \in panel'[q].before
      BY <2>2, <2>3, <2>4, <2>10 DEF ReadsAreCorrected
    <3> QED  BY <3>1, <3>2, <3>3 DEF ReadsAreCorrected
  <2>11. \A p \in Panels : Telling(p)' => p \notin panel'[p].before
    BY <2>2, <2>3, <2>4 DEF ScreensInv
  <2> QED  BY <2>1, <2>5, <2>6, <2>10, <2>11 DEF ScreensInv, InTurn
(* Who leaves is forgotten by those who read after it.                      *)
<1>l. ASSUME NEW r \in Panels, panel[r] # None
      PROVE  /\ Leaves(r) \in [Panels -> PanelRecords \cup {None}] /\ Leaves(r)[r] = None
             /\ \A q \in Panels : q # r /\ panel[q] = None => Leaves(r)[q] = None
             /\ \A q \in Panels : q # r /\ panel[q] # None =>
                  /\ Leaves(r)[q] \in PanelRecords /\ Leaves(r)[q] # None
                  /\ Leaves(r)[q].pc = panel[q].pc /\ Leaves(r)[q].begun = panel[q].begun
                  /\ Leaves(r)[q].seen = panel[q].seen /\ Leaves(r)[q].since = panel[q].since
                  /\ Leaves(r)[q].before = panel[q].before \ {r}
  <2>1. ASSUME NEW q \in Panels, q # r, panel[q] # None
        PROVE  /\ Leaves(r)[q] \in PanelRecords /\ Leaves(r)[q] # None
               /\ Leaves(r)[q].pc = panel[q].pc /\ Leaves(r)[q].begun = panel[q].begun
               /\ Leaves(r)[q].seen = panel[q].seen /\ Leaves(r)[q].since = panel[q].since
               /\ Leaves(r)[q].before = panel[q].before \ {r}
    <3> DEFINE y == panel[q]
               x == [y EXCEPT !.before = y.before \ {r}]
    <3>1. Leaves(r)[q] = x
      BY <2>1 DEF Leaves
    <3>2. y \in PanelRecords
      BY <2>1, <1>t
    <3>3. /\ x \in PanelRecords /\ x.pc = y.pc /\ x.begun = y.begun
          /\ x.seen = y.seen /\ x.since = y.since /\ x.before = y.before \ {r}
      BY <3>2 DEF PanelRecords
    <3> HIDE DEF x
    <3> QED  BY <3>1, <3>3, NoneIsNoPanel
  <2>2. \A q \in Panels : q = r \/ panel[q] = None => Leaves(r)[q] = None
    BY DEF Leaves
  <2>3. Leaves(r) = [q \in Panels |-> Leaves(r)[q]]
    BY DEF Leaves
  <2>4. \A q \in Panels : Leaves(r)[q] \in PanelRecords \cup {None}
    BY <2>1, <2>2
  <2>5. Leaves(r) \in [Panels -> PanelRecords \cup {None}]
    BY <2>3, <2>4
  <2> QED  BY <2>1, <2>2, <2>5
<1>4. ASSUME NEW r \in Panels, BroadcastFlags(r) PROVE ScreensInv'
  <2>1. /\ panel[r] # None /\ Telling(r) /\ (alone => panel[r].before = {})
        /\ screen' = panel[r].seen /\ torn' = (torn /\ ~panel[r].since) /\ panel' = Leaves(r)
        /\ UNCHANGED <<alone, flags, regime>>
    BY <1>4 DEF BroadcastFlags, PanelAt, Telling
  <2>2. /\ panel' \in [Panels -> PanelRecords \cup {None}] /\ panel'[r] = None
        /\ \A q \in Panels : q # r /\ panel[q] = None => panel'[q] = None
        /\ \A q \in Panels : q # r /\ panel[q] # None =>
             /\ panel'[q] # None
             /\ panel'[q].pc = panel[q].pc /\ panel'[q].begun = panel[q].begun
             /\ panel'[q].seen = panel[q].seen /\ panel'[q].since = panel[q].since
             /\ panel'[q].before = panel[q].before \ {r}
    BY <2>1, <1>l
  <2>3. ~Telling(r)' /\ \A q \in Panels : q # r => (Telling(q) <=> Telling(q)')
    BY <2>2 DEF Telling
  <2>4. Unread <=> Unread'
    BY <2>1, <2>2 DEF Unread, PanelAt, Telling
  <2>5. OnePanel'
    BY <2>1, <2>2 DEF OnePanel, InTurn, ScreensInv
  <2>6. torn' \in BOOLEAN /\ screen' \in [Flags -> BOOLEAN]
    BY <2>1, <1>t DEF PanelRecords, ScreensInv, LiveOpsTypeOK
  <2>7. LiveOpsTypeOK'
    BY <2>1, <2>2, <2>6 DEF ScreensInv, LiveOpsTypeOK
  <2>8. \A p \in Panels : Telling(p)' => p \notin panel'[p].before
    BY <2>2, <2>3 DEF ScreensInv, Telling
  <2>9. ASSUME alone \/ InTurn, ReadsAreCorrected PROVE ReadsAreCorrected'
    <3>1. \A q \in Panels : Telling(q) /\ q # r => q \notin panel[r].before
      BY <2>1, <2>9 DEF OnePanel, ScreensInv, Telling
    <3>2. r \notin panel[r].before
      BY <2>1 DEF ScreensInv
    <3>3. \A p \in Panels : Telling(p) /\ p # r /\ Corrected(p) => Corrected(p)'
      BY <2>2, <2>3, <3>1 DEF Corrected, Telling
    <3>4. Corrected(r) => \E q \in Panels : Telling(q)' /\ panel'[q].begun
      BY <2>2, <2>3, <3>2 DEF Corrected, Telling
    <3>5. ~torn' => panel[r].since
      BY <2>1, <2>9 DEF ReadsAreCorrected
    <3>6. ~Unread' => \A p \in Panels : Telling(p)' /\ panel'[p].since => panel'[p].seen = flags' \/ Corrected(p)'
      BY <2>1, <2>2, <2>3, <2>4, <2>9, <3>3 DEF ReadsAreCorrected, Telling
    <3>7. ~Unread' /\ ~torn' => screen' = flags' \/ \E q \in Panels : Telling(q)' /\ panel'[q].begun
      BY <2>1, <2>4, <2>9, <3>4, <3>5 DEF ReadsAreCorrected
    <3>8. ~torn' => \A p \in Panels : Telling(p)' => panel'[p].since
      BY <2>1, <2>2, <2>3, <2>9, <3>1, <3>5 DEF ReadsAreCorrected, Telling
    <3>9. \A p, q \in Panels : Telling(p)' /\ Telling(q)' /\ panel'[q].since => panel'[p].since \/ p \in panel'[q].before
      BY <2>2, <2>3, <2>9 DEF ReadsAreCorrected, Telling
    <3> QED  BY <3>6, <3>7, <3>8, <3>9 DEF ReadsAreCorrected
  <2> QED  BY <2>1, <2>5, <2>7, <2>8, <2>9 DEF ScreensInv, InTurn
<1>5. ASSUME NEW r \in Panels, PanelDies(r) PROVE ScreensInv'
  <2> DEFINE rest == Leaves(r)
  <2>1. /\ panel[r] # None /\ torn' = (torn \/ panel[r].begun)
        /\ panel' = [q \in Panels |-> IF rest[q] = None \/ ~panel[r].begun THEN rest[q] ELSE [rest[q] EXCEPT !.since = FALSE]]
        /\ UNCHANGED <<alone, flags, screen, regime>>
    BY <1>5 DEF PanelDies
  <2>2. ASSUME NEW q \in Panels, q # r, panel[q] # None
        PROVE  /\ panel'[q] \in PanelRecords /\ panel'[q] # None
               /\ panel'[q].pc = panel[q].pc /\ panel'[q].begun = panel[q].begun
               /\ panel'[q].seen = panel[q].seen /\ panel'[q].before = panel[q].before \ {r}
               /\ panel[r].begun => panel'[q].since = FALSE
               /\ ~panel[r].begun => panel'[q].since = panel[q].since
    <3> DEFINE y == rest[q]
               x == [y EXCEPT !.since = FALSE]
    <3>1. /\ y \in PanelRecords /\ y # None /\ y.pc = panel[q].pc /\ y.begun = panel[q].begun
          /\ y.seen = panel[q].seen /\ y.since = panel[q].since /\ y.before = panel[q].before \ {r}
      BY <2>1, <2>2, <1>l
    <3>2. panel'[q] = IF ~panel[r].begun THEN y ELSE x
      BY <2>1, <3>1
    <3> HIDE DEF y
    <3>3. /\ x \in PanelRecords /\ x.pc = y.pc /\ x.begun = y.begun
          /\ x.seen = y.seen /\ x.since = FALSE /\ x.before = y.before
      BY <3>1 DEF PanelRecords
    <3> HIDE DEF x
    <3> QED  BY <3>1, <3>2, <3>3, NoneIsNoPanel
  <2>3. panel'[r] = None /\ \A q \in Panels : panel[q] = None => panel'[q] = None
    BY <2>1, <1>l
  <2>4. panel' \in [Panels -> PanelRecords \cup {None}]
    <3>1. panel' = [q \in Panels |-> panel'[q]]
      BY <2>1
    <3>2. \A q \in Panels : panel'[q] \in PanelRecords \cup {None}
      BY <2>2, <2>3
    <3> QED  BY <3>1, <3>2
  <2> HIDE DEF rest
  <2>5. ~Telling(r)' /\ \A q \in Panels : q # r => (Telling(q) <=> Telling(q)')
    BY <2>2, <2>3 DEF Telling
  <2>6. ~panel[r].begun => (Unread <=> Unread')
    BY <2>2, <2>3 DEF Unread, PanelAt
  <2>7. OnePanel'
    BY <2>1, <2>2, <2>3 DEF OnePanel, InTurn, ScreensInv
  <2>8. panel[r].begun \in BOOLEAN
    BY <2>1, <1>t DEF PanelRecords
  <2>9. torn' \in BOOLEAN
    BY <2>1, <2>8
  <2>10. LiveOpsTypeOK'
    BY <2>1, <2>4, <2>9 DEF ScreensInv, LiveOpsTypeOK
  <2>11. \A p \in Panels : Telling(p)' => p \notin panel'[p].before
    BY <2>2, <2>3, <2>5 DEF ScreensInv, Telling
  <2>12. ASSUME ReadsAreCorrected PROVE ReadsAreCorrected'
    <3>1. CASE panel[r].begun
      <4>1. torn' /\ \A p \in Panels : Telling(p)' => ~panel'[p].since
        BY <2>1, <2>2, <2>5, <3>1 DEF Telling
      <4> QED  BY <4>1 DEF ReadsAreCorrected
    <3>2. CASE ~panel[r].begun
      <4>1. \A p \in Panels : Telling(p) /\ p # r /\ Corrected(p) => Corrected(p)'
        BY <2>2, <2>5, <3>2 DEF Corrected, Telling
      <4>2. torn' <=> torn
        BY <2>1, <3>2
      <4>3. /\ ~Unread' => \A p \in Panels : Telling(p)' /\ panel'[p].since => panel'[p].seen = flags' \/ Corrected(p)'
            /\ ~torn' => \A p \in Panels : Telling(p)' => panel'[p].since
            /\ \A p, q \in Panels : Telling(p)' /\ Telling(q)' /\ panel'[q].since => panel'[p].since \/ p \in panel'[q].before
        <5>1. \A p \in Panels : Telling(p)' =>
                /\ p # r /\ Telling(p) /\ panel'[p].since = panel[p].since /\ panel'[p].seen = panel[p].seen
                /\ panel'[p].before = panel[p].before \ {r}
          BY <2>2, <2>5, <3>2 DEF Telling
        <5>2. ~Unread' => \A p \in Panels : Telling(p)' /\ panel'[p].since => panel'[p].seen = flags' \/ Corrected(p)'
          BY <2>1, <2>6, <2>12, <3>2, <4>1, <5>1 DEF ReadsAreCorrected
        <5>3. ~torn' => \A p \in Panels : Telling(p)' => panel'[p].since
          BY <2>12, <4>2, <5>1 DEF ReadsAreCorrected
        <5>4. \A p, q \in Panels : Telling(p)' /\ Telling(q)' /\ panel'[q].since => panel'[p].since \/ p \in panel'[q].before
          BY <2>12, <5>1 DEF ReadsAreCorrected
        <5> QED  BY <5>2, <5>3, <5>4
      <4>4. ASSUME NEW q \in Panels, Telling(q), panel[q].begun PROVE Telling(q)' /\ panel'[q].begun
        <5>1. q # r /\ panel[q] # None
          BY <3>2, <4>4 DEF Telling
        <5>2. panel'[q].begun = panel[q].begun /\ Telling(q)'
          BY <2>2, <2>5, <4>4, <5>1
        <5> QED  BY <4>4, <5>2
      <4>5. ~Unread' /\ ~torn' => screen' = flags' \/ \E q \in Panels : Telling(q)' /\ panel'[q].begun
        BY <2>1, <2>6, <2>12, <3>2, <4>2, <4>4 DEF ReadsAreCorrected
      <4> QED  BY <4>3, <4>5 DEF ReadsAreCorrected
    <3> QED  BY <3>1, <3>2
  <2> QED  BY <2>1, <2>7, <2>10, <2>11, <2>12 DEF ScreensInv, InTurn
<1>6. CASE UNCHANGED liveOpsVars
  BY <1>6 DEF liveOpsVars, ScreensInv, LiveOpsTypeOK, OnePanel, InTurn, ReadsAreCorrected, Unread, PanelAt, Telling, Corrected
<1> QED
  BY <1>1, <1>2, <1>3, <1>4, <1>5, <1>6, SettingsAsked DEF LiveOpsNext

LEMMA ScreensHold == LiveOpsSpec => []ScreensInv
BY ScreensInit, ScreensStep, PTL DEF LiveOpsSpec

(* Type correctness of the board, for any number of its requests.           *)
THEOREM LiveOpsTypeCorrect == LiveOpsSpec => []LiveOpsTypeOK
<1>1. ScreensInv => LiveOpsTypeOK
  BY DEF ScreensInv
<1> QED  BY <1>1, ScreensHold, PTL

(* On one instance the screens show the switches as they are once all       *)
(* requests of the board are done, unless one was lost after a set (the     *)
(* broadcasts of live-ops.service.ts).                                      *)
THEOREM ScreensFollowFlags == LiveOpsSpec => []FlagsReachScreens
<1>1. ScreensInv => FlagsReachScreens
  BY DEF ScreensInv, FlagsReachScreens, ReadsAreCorrected, Unread, PanelAt, Telling, Idle, LiveOpsTypeOK
<1> QED  BY <1>1, ScreensHold, PTL

-----------------------------------------------------------------------------
(* Reveal.  Where requests take turns one organiser's is there at most.     *)
OneHost == InTurn => \A p, q \in Hosts : host[p] # None /\ host[q] # None => p = q

Announcing(p) == HostAt(p, "telling")

(* What a request is about to tell the apps is what holds, or another will  *)
(* tell them later; so too for what they were told.                         *)
HostsAreCorrected ==
  /\ \A p \in Hosts : Announcing(p) /\ host[p].since =>
       host[p].to = revealed \/ \E q \in Hosts : Announcing(q) /\ p \in host[q].before
  /\ ~hushed => curtain = revealed \/ \E q \in Hosts : Announcing(q)
  /\ ~hushed => \A p \in Hosts : Announcing(p) => host[p].since
  /\ \A p, q \in Hosts : Announcing(p) /\ Announcing(q) /\ host[q].since => host[p].since \/ p \in host[q].before

(* An answer under way gave nothing away that was never revealed, and was   *)
(* refused nothing that was revealed all along.                             *)
Honest(a) ==
  /\ a.pc = "gating" =>
       /\ a.always => revealed /\ Gates[a.query] \subseteq a.todo \cup a.passed
       /\ revealed => a.ever
       /\ a.passed = {} \/ a.admin \/ a.ever
  /\ a.pc = "answered" /\ ~a.admin =>
       /\ a.learns = {} \/ a.ever
       /\ a.always => "names" \in a.learns

LineUpInv ==
  /\ RevealTypeOK /\ OneHost
  /\ \A p \in Hosts : Announcing(p) => p \notin host[p].before
  /\ united \/ InTurn => HostsAreCorrected
  /\ \A q \in Callers : ask[q] # None => Honest(ask[q])

LEMMA GatesTyped ==
  /\ \A query \in Queries : Gates[query] \subseteq {"rows", "where"}
  /\ "rows" \in Gates["listing"]
<1>1. Gates["nested"] = {} /\ Gates["listing"] = {"rows"} /\ Gates["search"] = {"rows", "where"}
  BY DEF Gates
<1> QED  BY <1>1 DEF Queries

LEMMA LineUpInit == RevealInit => LineUpInv
BY DEF RevealInit, LineUpInv, RevealTypeOK, OneHost, HostsAreCorrected, Announcing, HostAt

LEMMA HostStep ==
  ASSUME LineUpInv, NEW r \in Hosts,
         \/ \E to \in BOOLEAN : SetSpeakersRevealed(r, to)
         \/ SetsKey(r) \/ TellsApps(r) \/ HostDies(r)
  PROVE  LineUpInv'
<1>t. \A p \in Hosts : host[p] # None => host[p] \in HostRecords
  BY DEF LineUpInv, RevealTypeOK
<1>u. UNCHANGED <<revealed, ask>> => (RevealTypeOK' => \A q \in Callers : ask'[q] # None => Honest(ask[q])')
  BY DEF LineUpInv, Honest
<1>1. ASSUME NEW to \in BOOLEAN, SetSpeakersRevealed(r, to) PROVE LineUpInv'
  <2> DEFINE x == [pc |-> "setting", to |-> to, before |-> {}, since |-> FALSE]
  <2>1. /\ host[r] = None /\ (InTurn => Idle(host)) /\ host' = [host EXCEPT ![r] = x]
        /\ UNCHANGED <<united, revealed, curtain, hushed, ask, regime>>
    BY <1>1 DEF SetSpeakersRevealed, MayStart
  <2>2. x \in HostRecords /\ x.pc = "setting"
    BY DEF HostRecords
  <2> HIDE DEF x
  <2>3. host'[r] = x /\ \A p \in Hosts : p # r => host'[p] = host[p]
    BY <2>1 DEF LineUpInv, RevealTypeOK
  <2>4. \A p \in Hosts : (Announcing(p) <=> Announcing(p)') /\ (Announcing(p) => host'[p] = host[p])
    BY <2>1, <2>2, <2>3 DEF Announcing, HostAt
  <2>5. OneHost'
    BY <2>1, <2>3 DEF OneHost, Idle, InTurn, LineUpInv, RevealTypeOK
  <2>6. RevealTypeOK'
    BY <2>1, <2>2 DEF LineUpInv, RevealTypeOK
  <2>7. HostsAreCorrected => HostsAreCorrected'
    BY <2>1, <2>4 DEF HostsAreCorrected
  <2> QED  BY <1>u, <2>1, <2>4, <2>5, <2>6, <2>7 DEF LineUpInv, InTurn
<1>2. ASSUME SetsKey(r) PROVE LineUpInv'
  <2> DEFINE x == [host[r] EXCEPT !.pc = "telling", !.since = TRUE, !.before = {p \in Hosts : HostAt(p, "telling")}]
  <2>1. /\ host[r] # None /\ host[r].pc = "setting" /\ host' = [host EXCEPT ![r] = x] /\ revealed' = host[r].to
        /\ ask' = Observed(host[r].to) /\ UNCHANGED <<united, curtain, hushed, regime>>
    BY <1>2 DEF SetsKey, HostAt, LineUpInv, RevealTypeOK
  <2>2. /\ x \in HostRecords /\ x.pc = "telling" /\ x.since = TRUE /\ x.to = host[r].to
        /\ x.before = {p \in Hosts : Announcing(p)} /\ host[r].to \in BOOLEAN
    BY <1>t, <2>1 DEF HostRecords, Announcing
  <2> HIDE DEF x
  <2>3. host'[r] = x /\ x # None /\ \A p \in Hosts : p # r => host'[p] = host[p]
    BY <2>1, <2>2, NoneIsNoRequest DEF LineUpInv, RevealTypeOK
  <2>4. ~Announcing(r) /\ Announcing(r)' /\ \A p \in Hosts : p # r => (Announcing(p) <=> Announcing(p)')
    BY <2>1, <2>2, <2>3 DEF Announcing, HostAt
  <2>5. OneHost'
    BY <2>1, <2>3 DEF OneHost, InTurn, LineUpInv
  <2>6. ASSUME NEW q \in Callers
        PROVE  ask'[q] \in AskRecords \cup {None} /\ (ask'[q] # None => Honest(ask[q])')
    <3> DEFINE a == ask[q]
               b == [a EXCEPT !.ever = a.ever \/ host[r].to, !.always = a.always /\ host[r].to]
    <3>1. ask'[q] = IF a = None \/ a.pc = "answered" THEN a ELSE b
      BY <2>1 DEF Observed
    <3>2. CASE a = None \/ a.pc = "answered"
      <4>1. ask'[q] = ask[q]
        BY <3>1, <3>2
      <4> QED  BY <3>2, <4>1 DEF LineUpInv, RevealTypeOK, Honest
    <3>3. CASE a # None /\ a.pc # "answered"
      <4>1. a \in AskRecords /\ a.pc = "gating"
        BY <3>3 DEF LineUpInv, RevealTypeOK, AskRecords
      <4>2. Honest(a)
        BY <3>3 DEF LineUpInv
      <4>3. a.ever \in BOOLEAN /\ a.always \in BOOLEAN
        BY <4>1 DEF AskRecords
      <4>4. (a.ever \/ host[r].to) \in BOOLEAN /\ (a.always /\ host[r].to) \in BOOLEAN
        BY <4>3, <2>2
      <4> DEFINE past == a.ever \/ host[r].to
                 always == a.always /\ host[r].to
      <4>5. b = [a EXCEPT !.ever = past, !.always = always]
        OBVIOUS
      <4> HIDE DEF past, always, b
      <4>6. /\ b \in AskRecords /\ b.pc = "gating" /\ b.query = a.query /\ b.todo = a.todo /\ b.passed = a.passed
            /\ b.admin = a.admin /\ b.ever = past /\ b.always = always
        BY <4>1, <4>4, <4>5 DEF AskRecords, past, always
      <4>7. ask'[q] = b
        BY <3>1, <3>3
      <4>8. b.ever <=> a.ever \/ revealed'
        BY <4>6, <2>1 DEF past
      <4>9. b.always <=> a.always /\ revealed'
        BY <4>6, <2>1 DEF always
      <4>10. b.passed = {} \/ b.admin \/ b.ever
        BY <4>1, <4>2, <4>6, <4>8 DEF Honest
      <4>11. b.always => Gates[b.query] \subseteq b.todo \cup b.passed
        BY <4>1, <4>2, <4>6, <4>9 DEF Honest
      <4> QED  BY <4>6, <4>7, <4>8, <4>9, <4>10, <4>11 DEF Honest
    <3> QED  BY <3>2, <3>3
  <2>7. RevealTypeOK'
    <3>1. ask' = [q \in Callers |-> ask'[q]]
      BY <2>1 DEF Observed
    <3>2. ask' \in [Callers -> AskRecords \cup {None}]
      BY <2>6, <3>1
    <3> QED  BY <2>1, <2>2, <3>2 DEF LineUpInv, RevealTypeOK
  <2>8. ASSUME HostsAreCorrected PROVE HostsAreCorrected'
    <3>1. \A p \in Hosts : Announcing(p) => p \in host'[r].before
      BY <2>2, <2>3
    <3>2. host'[r].to = revealed' /\ host'[r].since
      BY <2>1, <2>2, <2>3
    <3> QED  BY <2>1, <2>3, <2>4, <2>8, <3>1, <3>2 DEF HostsAreCorrected
  <2>9. \A p \in Hosts : Announcing(p)' => p \notin host'[p].before
    BY <2>2, <2>3, <2>4 DEF LineUpInv
  <2> QED  BY <2>1, <2>5, <2>6, <2>7, <2>8, <2>9 DEF LineUpInv, InTurn
(* Who leaves is forgotten by those who set the key after it.               *)
<1>l. ASSUME host[r] # None, NEW p \in Hosts, p # r, host[p] # None
      PROVE  /\ HostLeaves(r)[p] \in HostRecords /\ HostLeaves(r)[p] # None
             /\ HostLeaves(r)[p].pc = host[p].pc /\ HostLeaves(r)[p].to = host[p].to
             /\ HostLeaves(r)[p].since = host[p].since
             /\ HostLeaves(r)[p].before = host[p].before \ {r}
  <2> DEFINE y == host[p]
             x == [y EXCEPT !.before = y.before \ {r}]
  <2>1. HostLeaves(r)[p] = x
    BY <1>l DEF HostLeaves
  <2>2. y \in HostRecords
    BY <1>l, <1>t
  <2>3. x \in HostRecords /\ x.pc = y.pc /\ x.to = y.to /\ x.since = y.since /\ x.before = y.before \ {r}
    BY <2>2 DEF HostRecords
  <2> HIDE DEF x
  <2> QED  BY <2>1, <2>3, NoneIsNoRequest
<1>n. \A p \in Hosts : p = r \/ host[p] = None => HostLeaves(r)[p] = None
  BY DEF HostLeaves
<1>3. ASSUME TellsApps(r) PROVE LineUpInv'
  <2>1. /\ host[r] # None /\ Announcing(r) /\ (united => host[r].before = {})
        /\ curtain' = host[r].to /\ hushed' = (hushed /\ ~host[r].since) /\ host' = HostLeaves(r)
        /\ UNCHANGED <<united, revealed, ask, regime>>
    BY <1>3 DEF TellsApps, HostAt, Announcing
  <2>2. /\ host'[r] = None /\ \A p \in Hosts : host[p] = None => host'[p] = None
        /\ \A p \in Hosts : p # r /\ host[p] # None =>
             /\ host'[p] \in HostRecords /\ host'[p] # None
             /\ host'[p].pc = host[p].pc /\ host'[p].to = host[p].to /\ host'[p].since = host[p].since
             /\ host'[p].before = host[p].before \ {r}
    BY <2>1, <1>l, <1>n
  <2>3. host' \in [Hosts -> HostRecords \cup {None}]
    <3>1. host' = [p \in Hosts |-> host'[p]]
      BY <2>1 DEF HostLeaves
    <3>2. \A p \in Hosts : host'[p] \in HostRecords \cup {None}
      BY <2>2
    <3> QED  BY <3>1, <3>2
  <2>4. ~Announcing(r)' /\ \A p \in Hosts : p # r => (Announcing(p) <=> Announcing(p)')
    BY <2>2 DEF Announcing, HostAt
  <2>5. OneHost'
    BY <2>1, <2>2 DEF OneHost, InTurn, LineUpInv
  <2>6. hushed' \in BOOLEAN /\ curtain' \in BOOLEAN
    BY <2>1, <1>t DEF HostRecords
  <2>7. RevealTypeOK'
    BY <2>1, <2>3, <2>6 DEF LineUpInv, RevealTypeOK
  <2>8. \A p \in Hosts : Announcing(p)' => p \notin host'[p].before
    BY <2>2, <2>4 DEF LineUpInv, Announcing, HostAt
  <2>9. ASSUME united \/ InTurn, HostsAreCorrected PROVE HostsAreCorrected'
    <3>1. \A p \in Hosts : Announcing(p) /\ p # r => p \notin host[r].before
      BY <2>1, <2>9 DEF OneHost, LineUpInv, Announcing, HostAt
    <3>2. r \notin host[r].before
      BY <2>1 DEF LineUpInv
    <3>3. \A p \in Hosts : Announcing(p)' =>
            /\ p # r /\ Announcing(p) /\ host'[p].to = host[p].to /\ host'[p].since = host[p].since
            /\ host'[p].before = host[p].before \ {r}
      BY <2>2, <2>4 DEF Announcing, HostAt
    <3>4. ~hushed' => host[r].since
      BY <2>1, <2>9 DEF HostsAreCorrected
    <3>5. \A p \in Hosts : Announcing(p)' /\ host'[p].since =>
            host'[p].to = revealed' \/ \E q \in Hosts : Announcing(q)' /\ p \in host'[q].before
      <4> SUFFICES ASSUME NEW p \in Hosts, Announcing(p)', host'[p].since, host'[p].to # revealed'
                   PROVE  \E q \in Hosts : Announcing(q)' /\ p \in host'[q].before
        OBVIOUS
      <4>1. PICK q \in Hosts : Announcing(q) /\ p \in host[q].before
        BY <2>1, <2>9, <3>3 DEF HostsAreCorrected
      <4>2. q # r /\ p # r /\ Announcing(q)'
        BY <2>4, <3>1, <3>3, <4>1
      <4> QED  BY <3>3, <4>1, <4>2
    <3>6. ~hushed' => curtain' = revealed' \/ \E q \in Hosts : Announcing(q)'
      BY <2>1, <2>4, <2>9, <3>2, <3>4 DEF HostsAreCorrected
    <3>7. ~hushed' => \A p \in Hosts : Announcing(p)' => host'[p].since
      BY <2>1, <2>9, <3>1, <3>3, <3>4 DEF HostsAreCorrected
    <3>8. \A p, q \in Hosts : Announcing(p)' /\ Announcing(q)' /\ host'[q].since => host'[p].since \/ p \in host'[q].before
      BY <2>9, <3>3 DEF HostsAreCorrected
    <3> QED  BY <3>5, <3>6, <3>7, <3>8 DEF HostsAreCorrected
  <2> QED  BY <1>u, <2>1, <2>5, <2>7, <2>8, <2>9 DEF LineUpInv, InTurn
<1>4. ASSUME HostDies(r) PROVE LineUpInv'
  <2> DEFINE rest == HostLeaves(r)
  <2>1. /\ host[r] # None /\ hushed' = (hushed \/ Announcing(r))
        /\ host' = [p \in Hosts |-> IF rest[p] # None /\ Announcing(r) THEN [rest[p] EXCEPT !.since = FALSE] ELSE rest[p]]
        /\ UNCHANGED <<united, revealed, curtain, ask, regime>>
    BY <1>4 DEF HostDies, Announcing
  <2>2. ASSUME NEW p \in Hosts, p # r, host[p] # None
        PROVE  /\ host'[p] \in HostRecords /\ host'[p] # None
               /\ host'[p].pc = host[p].pc /\ host'[p].to = host[p].to
               /\ host'[p].before = host[p].before \ {r}
               /\ Announcing(r) => host'[p].since = FALSE
               /\ ~Announcing(r) => host'[p].since = host[p].since
    <3> DEFINE y == rest[p]
               x == [y EXCEPT !.since = FALSE]
    <3>1. /\ y \in HostRecords /\ y # None /\ y.pc = host[p].pc /\ y.to = host[p].to
          /\ y.since = host[p].since /\ y.before = host[p].before \ {r}
      BY <2>1, <2>2, <1>l
    <3>2. host'[p] = IF Announcing(r) THEN x ELSE y
      BY <2>1, <3>1
    <3> HIDE DEF y
    <3>3. x \in HostRecords /\ x.pc = y.pc /\ x.to = y.to /\ x.since = FALSE /\ x.before = y.before
      BY <3>1 DEF HostRecords
    <3> HIDE DEF x
    <3> QED  BY <3>1, <3>2, <3>3, NoneIsNoRequest
  <2>3. host'[r] = None /\ \A p \in Hosts : host[p] = None => host'[p] = None
    BY <2>1, <1>n
  <2>4. host' \in [Hosts -> HostRecords \cup {None}]
    <3>1. host' = [p \in Hosts |-> host'[p]]
      BY <2>1
    <3>2. \A p \in Hosts : host'[p] \in HostRecords \cup {None}
      BY <2>2, <2>3
    <3> QED  BY <3>1, <3>2
  <2> HIDE DEF rest
  <2>5. ~Announcing(r)' /\ \A p \in Hosts : p # r => (Announcing(p) <=> Announcing(p)')
    BY <2>2, <2>3 DEF Announcing, HostAt
  <2>6. OneHost'
    BY <2>1, <2>2, <2>3 DEF OneHost, InTurn, LineUpInv
  <2>7. hushed' \in BOOLEAN
    BY <2>1
  <2>8. RevealTypeOK'
    BY <2>1, <2>4, <2>7 DEF LineUpInv, RevealTypeOK
  <2>9. \A p \in Hosts : Announcing(p)' => p \notin host'[p].before
    BY <2>2, <2>3, <2>5 DEF LineUpInv, Announcing, HostAt
  <2>10. ASSUME HostsAreCorrected PROVE HostsAreCorrected'
    <3>1. CASE Announcing(r)
      <4>1. hushed' /\ \A p \in Hosts : Announcing(p)' => ~host'[p].since
        BY <2>1, <2>2, <2>5, <3>1 DEF Announcing, HostAt
      <4> QED  BY <4>1 DEF HostsAreCorrected
    <3>2. CASE ~Announcing(r)
      <4>1. \A p \in Hosts : Announcing(p)' <=> Announcing(p)
        BY <2>5, <3>2
      <4>2. \A p \in Hosts : Announcing(p) =>
              /\ p # r /\ host'[p].to = host[p].to /\ host'[p].since = host[p].since
              /\ host'[p].before = host[p].before \ {r}
        BY <2>2, <3>2 DEF Announcing, HostAt
      <4>3. hushed' <=> hushed
        BY <2>1, <3>2
      <4>4. \A p, q \in Hosts : Announcing(p) /\ Announcing(q) =>
              (p \in host'[q].before <=> p \in host[q].before)
        BY <4>2
      <4>5. \A p \in Hosts : Announcing(p)' /\ host'[p].since =>
              host'[p].to = revealed' \/ \E q \in Hosts : Announcing(q)' /\ p \in host'[q].before
        <5> SUFFICES ASSUME NEW p \in Hosts, Announcing(p), host[p].since
                     PROVE  host[p].to = revealed \/ \E q \in Hosts : Announcing(q) /\ p \in host'[q].before
          BY <2>1, <4>1, <4>2
        <5> QED  BY <2>10, <4>4 DEF HostsAreCorrected
      <4>6. ~hushed' => curtain' = revealed' \/ \E q \in Hosts : Announcing(q)'
        BY <2>1, <2>10, <4>1, <4>3 DEF HostsAreCorrected
      <4>7. ~hushed' => \A p \in Hosts : Announcing(p)' => host'[p].since
        BY <2>10, <4>1, <4>2, <4>3 DEF HostsAreCorrected
      <4>8. \A p, q \in Hosts : Announcing(p)' /\ Announcing(q)' /\ host'[q].since =>
              host'[p].since \/ p \in host'[q].before
        BY <2>10, <4>1, <4>2, <4>4 DEF HostsAreCorrected
      <4> QED  BY <4>5, <4>6, <4>7, <4>8 DEF HostsAreCorrected
    <3> QED  BY <3>1, <3>2
  <2> QED  BY <1>u, <2>1, <2>6, <2>8, <2>9, <2>10 DEF LineUpInv, InTurn
<1> QED  BY <1>1, <1>2, <1>3, <1>4

LEMMA AskStep ==
  ASSUME LineUpInv, NEW q \in Callers,
         \/ \E query \in Queries, admin \in BOOLEAN : AsksLineUp(q, query, admin)
         \/ \E gate \in {"rows", "where"} : ReadsGate(q, gate)
         \/ Intercepts(q) \/ AskEnds(q)
  PROVE  LineUpInv'
<1> DEFINE a == ask[q]
<1>t. a # None => a \in AskRecords /\ Honest(a)
  BY DEF LineUpInv, RevealTypeOK
(* It is enough that the request itself stays typed and honest.             *)
<1>s. ASSUME NEW x \in AskRecords \cup {None}, ask' = [ask EXCEPT ![q] = x], x # None => Honest(x),
             UNCHANGED <<united, revealed, curtain, hushed, host, regime>>
      PROVE  LineUpInv'
  <2>1. RevealTypeOK'
    BY <1>s DEF LineUpInv, RevealTypeOK
  <2>2. OneHost' /\ (\A p \in Hosts : Announcing(p)' => p \notin host'[p].before)
        /\ (united' \/ InTurn' => HostsAreCorrected')
    BY <1>s DEF LineUpInv, OneHost, InTurn, HostsAreCorrected, Announcing, HostAt
  <2>3. ASSUME NEW p \in Callers, ask'[p] # None PROVE Honest(ask[p])'
    <3>1. ask'[p] = IF p = q THEN x ELSE ask[p]
      BY <1>s DEF LineUpInv, RevealTypeOK
    <3>2. Honest(ask'[p])
      BY <2>3, <3>1, <1>s DEF LineUpInv
    <3> QED  BY <3>2, <1>s DEF Honest
  <2> QED  BY <2>1, <2>2, <2>3 DEF LineUpInv
<1>1. ASSUME NEW query \in Queries, NEW admin \in BOOLEAN, AsksLineUp(q, query, admin) PROVE LineUpInv'
  <2> DEFINE x == [pc |-> "gating", query |-> query, admin |-> admin, todo |-> Gates[query],
                   passed |-> {}, learns |-> {}, ever |-> revealed, always |-> revealed]
  <2>1. ask' = [ask EXCEPT ![q] = x] /\ UNCHANGED <<united, revealed, curtain, hushed, host, regime>>
    BY <1>1 DEF AsksLineUp
  <2>2. x \in AskRecords
    BY GatesTyped DEF AskRecords, LineUpInv, RevealTypeOK
  <2>3. Honest(x)
    BY DEF Honest
  <2> HIDE DEF x
  <2> QED  BY <1>s, <2>1, <2>2, <2>3
<1>2. ASSUME NEW gate \in {"rows", "where"}, ReadsGate(q, gate) PROVE LineUpInv'
  <2> DEFINE passed == IF a.admin \/ revealed THEN a.passed \cup {gate} ELSE a.passed
             x == [a EXCEPT !.todo = a.todo \ {gate}, !.passed = passed]
  <2>1. /\ a # None /\ a.pc = "gating" /\ gate \in a.todo /\ ask' = [ask EXCEPT ![q] = x]
        /\ UNCHANGED <<united, revealed, curtain, hushed, host, regime>>
    BY <1>2 DEF ReadsGate, AskAt, LineUpInv, RevealTypeOK
  <2>2. passed \subseteq {"rows", "where"}
    BY <1>t, <2>1 DEF AskRecords
  <2> HIDE DEF passed
  <2>3. /\ x \in AskRecords /\ x.pc = "gating" /\ x.query = a.query /\ x.admin = a.admin
        /\ x.todo = a.todo \ {gate} /\ x.passed = passed /\ x.ever = a.ever /\ x.always = a.always
    BY <1>t, <2>1, <2>2 DEF AskRecords
  <2> HIDE DEF x
  <2>4. passed = {} \/ x.admin \/ x.ever
    BY <1>t, <2>1, <2>3 DEF Honest, passed
  <2>5. x.always => revealed /\ Gates[x.query] \subseteq x.todo \cup passed
    BY <1>t, <2>1, <2>3 DEF Honest, passed
  <2>6. Honest(x)
    BY <1>t, <2>1, <2>3, <2>4, <2>5 DEF Honest
  <2> QED  BY <1>s, <2>1, <2>3, <2>6
<1>3. ASSUME Intercepts(q) PROVE LineUpInv'
  <2> DEFINE learnt == Learns(a.query, a.passed, a.admin \/ revealed)
             x == [a EXCEPT !.pc = "answered", !.learns = learnt]
  <2>1. /\ a # None /\ a.pc = "gating" /\ a.todo = {} /\ ask' = [ask EXCEPT ![q] = x]
        /\ UNCHANGED <<united, revealed, curtain, hushed, host, regime>>
    BY <1>3 DEF Intercepts, AskAt, LineUpInv, RevealTypeOK
  <2>2. learnt \subseteq {"names", "match"}
    BY DEF Learns
  <2>3. ~a.admin => /\ learnt = {} \/ a.ever
                    /\ a.always => "names" \in learnt
    <3>1. learnt # {} => a.passed # {} \/ a.admin \/ revealed
      BY DEF Learns
    <3>2. ~a.admin => learnt = {} \/ a.ever
      BY <1>t, <2>1, <3>1 DEF Honest
    <3>3. a.always => revealed /\ (a.query = "listing" => "rows" \in a.passed)
      BY <1>t, <2>1, GatesTyped DEF Honest
    <3>4. a.always => "names" \in learnt
      BY <3>3 DEF Learns
    <3> QED  BY <3>2, <3>4
  <2> HIDE DEF learnt
  <2>4. /\ x \in AskRecords /\ x.pc = "answered" /\ x.admin = a.admin /\ x.learns = learnt
        /\ x.ever = a.ever /\ x.always = a.always
    BY <1>t, <2>1, <2>2 DEF AskRecords
  <2> HIDE DEF x
  <2>5. Honest(x)
    BY <2>3, <2>4 DEF Honest
  <2> QED  BY <1>s, <2>1, <2>4, <2>5
<1>4. ASSUME AskEnds(q) PROVE LineUpInv'
  <2>1. ask' = [ask EXCEPT ![q] = None] /\ UNCHANGED <<united, revealed, curtain, hushed, host, regime>>
    BY <1>4 DEF AskEnds
  <2> QED  BY <1>s, <2>1
<1> QED  BY <1>1, <1>2, <1>3, <1>4

LEMMA LineUpHolds == RevealSpec => []LineUpInv
<1>1. UNCHANGED revealVars /\ LineUpInv => LineUpInv'
  <2> SUFFICES ASSUME UNCHANGED revealVars, LineUpInv PROVE LineUpInv'
    OBVIOUS
  <2>1. \A q \in Callers : Honest(ask[q])' <=> Honest(ask[q])
    BY DEF revealVars, Honest
  <2> QED  BY <2>1 DEF revealVars, LineUpInv, RevealTypeOK, OneHost, InTurn, HostsAreCorrected, Announcing, HostAt
<1>2. LineUpInv /\ [RevealNext]_revealVars => LineUpInv'
  BY <1>1, HostStep, AskStep DEF RevealNext
<1> QED  BY <1>2, LineUpInit, PTL DEF RevealSpec

(* Type correctness of the reveal, for any number of requests.              *)
THEOREM RevealTypeCorrect == RevealSpec => []RevealTypeOK
<1>1. LineUpInv => RevealTypeOK
  BY DEF LineUpInv
<1> QED  BY <1>1, LineUpHolds, PTL

(* No answer names a speaker who was never revealed while it was asked for, *)
(* none hides one who was revealed throughout, and on one instance the apps *)
(* were last told what holds (SpeakerRevealInterceptor, mustHideSpeakers,   *)
(* setSpeakersRevealed).                                                    *)
THEOREM LineUpIsKept == RevealSpec => []LineUpFollowsTheSwitch
<1>1. ASSUME LineUpInv PROVE LineUpFollowsTheSwitch
  <2>1. \A q \in Callers : Answered(q) => (ask[q].learns = {} \/ ask[q].ever) /\ (ask[q].always => "names" \in ask[q].learns)
    BY <1>1 DEF LineUpInv, Honest, Answered, AskAt
  <2>2. (united \/ InTurn) /\ Idle(host) /\ ~hushed => curtain = revealed
    BY <1>1 DEF LineUpInv, RevealTypeOK, HostsAreCorrected, Announcing, HostAt, Idle
  <2> QED  BY <2>1, <2>2 DEF LineUpFollowsTheSwitch
<1> QED  BY <1>1, LineUpHolds, PTL

-----------------------------------------------------------------------------
(* The composition.  A step of one component is a stutter of every other:   *)
(* they share the regime alone, which none changes.                        *)
LEMMA OneActs ==
  ASSUME [Next]_vars
  PROVE  /\ [TokensNext]_tokensVars
         /\ [CodesNext]_codesVars
         /\ [AccountsNext]_accountsVars
         /\ [NetworkNext]_networkVars
         /\ [DiscussionsNext]_discussionsVars
         /\ [SessionRecordsNext]_recordsVars
         /\ [AnnouncementsNext]_announcementsVars
         /\ [AccessNext]_accessVars
         /\ [CertificatesNext]_certificateVars
         /\ [LiveOpsNext]_liveOpsVars
         /\ [RevealNext]_revealVars
<1>1. CASE UNCHANGED vars
  BY <1>1 DEF vars
<1>2. CASE Next
  <2>1. CASE TokensNext /\ UNCHANGED <<codesVars, accountsVars, networkVars, discussionsVars, recordsVars, announcementsVars, accessVars, certificateVars, liveOpsVars, revealVars>>
    BY <2>1
  <2>2. CASE CodesNext /\ UNCHANGED <<tokensVars, accountsVars, networkVars, discussionsVars, recordsVars, announcementsVars, accessVars, certificateVars, liveOpsVars, revealVars>>
    BY <2>2
  <2>3. CASE AccountsNext /\ UNCHANGED <<tokensVars, codesVars, networkVars, discussionsVars, recordsVars, announcementsVars, accessVars, certificateVars, liveOpsVars, revealVars>>
    BY <2>3
  <2>4. CASE NetworkNext /\ UNCHANGED <<tokensVars, codesVars, accountsVars, discussionsVars, recordsVars, announcementsVars, accessVars, certificateVars, liveOpsVars, revealVars>>
    BY <2>4
  <2>5. CASE DiscussionsNext /\ UNCHANGED <<tokensVars, codesVars, accountsVars, networkVars, recordsVars, announcementsVars, accessVars, certificateVars, liveOpsVars, revealVars>>
    BY <2>5
  <2>6. CASE SessionRecordsNext /\ UNCHANGED <<tokensVars, codesVars, accountsVars, networkVars, discussionsVars, announcementsVars, accessVars, certificateVars, liveOpsVars, revealVars>>
    BY <2>6
  <2>7. CASE AnnouncementsNext /\ UNCHANGED <<tokensVars, codesVars, accountsVars, networkVars, discussionsVars, recordsVars, accessVars, certificateVars, liveOpsVars, revealVars>>
    BY <2>7
  <2>8. CASE AccessNext /\ UNCHANGED <<tokensVars, codesVars, accountsVars, networkVars, discussionsVars, recordsVars, announcementsVars, certificateVars, liveOpsVars, revealVars>>
    BY <2>8
  <2>9. CASE CertificatesNext /\ UNCHANGED <<tokensVars, codesVars, accountsVars, networkVars, discussionsVars, recordsVars, announcementsVars, accessVars, liveOpsVars, revealVars>>
    BY <2>9
  <2>10. CASE LiveOpsNext /\ UNCHANGED <<tokensVars, codesVars, accountsVars, networkVars, discussionsVars, recordsVars, announcementsVars, accessVars, certificateVars, revealVars>>
    BY <2>10
  <2>11. CASE RevealNext /\ UNCHANGED <<tokensVars, codesVars, accountsVars, networkVars, discussionsVars, recordsVars, announcementsVars, accessVars, certificateVars, liveOpsVars>>
    BY <2>11
  <2> QED  BY <1>2, <2>1, <2>2, <2>3, <2>4, <2>5, <2>6, <2>7, <2>8, <2>9, <2>10, <2>11 DEF Next, Plays
<1> QED  BY <1>1, <1>2

(* A behaviour of the composition is one of each component's specification: *)
(* of the one that plays, and of the others, which stay as they began.      *)
LEMMA ComponentsKeepTheirSpecs ==
  Spec => /\ TokensSpec
          /\ CodesSpec
          /\ AccountsSpec
          /\ NetworkSpec
          /\ DiscussionsSpec
          /\ SessionRecordsSpec
          /\ AnnouncementsSpec
          /\ AccessSpec
          /\ CertificatesSpec
          /\ LiveOpsSpec
          /\ RevealSpec
<1>1. Spec => TokensSpec
  <2>1. Init => TokensInit
    BY DEF Init
  <2> QED  BY <2>1, OneActs, PTL DEF Spec, TokensSpec
<1>2. Spec => CodesSpec
  <2>1. Init => CodesInit
    BY DEF Init
  <2> QED  BY <2>1, OneActs, PTL DEF Spec, CodesSpec
<1>3. Spec => AccountsSpec
  <2>1. Init => AccountsInit
    BY DEF Init
  <2> QED  BY <2>1, OneActs, PTL DEF Spec, AccountsSpec
<1>4. Spec => NetworkSpec
  <2>1. Init => NetworkInit
    BY DEF Init
  <2> QED  BY <2>1, OneActs, PTL DEF Spec, NetworkSpec
<1>5. Spec => DiscussionsSpec
  <2>1. Init => DiscussionsInit
    BY DEF Init
  <2> QED  BY <2>1, OneActs, PTL DEF Spec, DiscussionsSpec
<1>6. Spec => SessionRecordsSpec
  <2>1. Init => SessionRecordsInit
    BY DEF Init
  <2> QED  BY <2>1, OneActs, PTL DEF Spec, SessionRecordsSpec
<1>7. Spec => AnnouncementsSpec
  <2>1. Init => AnnouncementsInit
    BY DEF Init
  <2> QED  BY <2>1, OneActs, PTL DEF Spec, AnnouncementsSpec
<1>8. Spec => AccessSpec
  <2>1. Init => AccessInit
    BY DEF Init
  <2> QED  BY <2>1, OneActs, PTL DEF Spec, AccessSpec
<1>9. Spec => CertificatesSpec
  <2>1. Init => CertificatesInit
    BY DEF Init
  <2> QED  BY <2>1, OneActs, PTL DEF Spec, CertificatesSpec
<1>10. Spec => LiveOpsSpec
  <2>1. Init => LiveOpsInit
    BY DEF Init
  <2> QED  BY <2>1, OneActs, PTL DEF Spec, LiveOpsSpec
<1>11. Spec => RevealSpec
  <2>1. Init => RevealInit
    BY DEF Init
  <2> QED  BY <2>1, OneActs, PTL DEF Spec, RevealSpec
<1> QED  BY <1>1, <1>2, <1>3, <1>4, <1>5, <1>6, <1>7, <1>8, <1>9, <1>10, <1>11

(* Whichever component plays, every one is in a state of its types.         *)
THEOREM ComposedTypeCorrect == Spec => []TypeOK
<1>1. Init => scene \in Scenes
  BY DEF Init
<1>2. scene \in Scenes /\ [Next]_vars => (scene \in Scenes)'
  BY DEF Next, Plays, vars
<1>3. Spec => [](scene \in Scenes)
  BY <1>1, <1>2, PTL DEF Spec
<1>4. scene \in Scenes /\ TokensTypeOK /\ CodesTypeOK /\ AccountsTypeOK
        /\ NetworkTypeOK /\ DiscussionsTypeOK /\ SessionRecordsTypeOK
        /\ AnnouncementsTypeOK /\ AccessTypeOK /\ CertificatesTypeOK /\ LiveOpsTypeOK /\ RevealTypeOK
      => TypeOK
  BY DEF TypeOK
<1> QED  BY <1>3, <1>4, ComponentsKeepTheirSpecs,
            TokensTypeCorrect, CodesTypeCorrect, AccountsTypeCorrect, NetworkTypeCorrect, DiscussionsTypeCorrect, SessionRecordsTypeCorrect,
            AnnouncementsTypeCorrect, AccessTypeCorrect, CertificatesTypeCorrect, LiveOpsTypeCorrect, RevealTypeCorrect, PTL
=============================================================================
