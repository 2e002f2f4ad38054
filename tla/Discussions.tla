---------------------------- MODULE Discussions ----------------------------
(***************************************************************************)
(* Comments under a session, their votes and their two counters            *)
(* (discussions.service.ts).                                               *)
(*                                                                         *)
(* A vote is one READ COMMITTED transaction: what it wrote is in its slot   *)
(* until it commits, and others wait for the rows it wrote.  That a comment *)
(* is flagged or hidden, no vote asks; what screens are told is left out.   *)
(* Each "Slip:" is a plausible wrong version of what follows it.           *)
(***************************************************************************)
EXTENDS Integers, FiniteSets, Requests

CONSTANTS Voters, Comments,
          Ballots \* slots of votes under way

Sides == {"like", "dislike"}
Choices == Sides \cup {None}

ASSUME NoneIsNoSide == None \notin Sides
ASSUME VotersAreFew == IsFiniteSet(Voters)

VARIABLES
  posted,  \* session_comments
  counter, \* likes and dislikes of each comment
  choice,  \* comment_votes: by comment and voter
  ballot   \* votes under way

discussionsVars == <<posted, counter, choice, ballot, regime>>

BallotRecords == [pc : {"reading", "writing", "counting", "committing"}, c : Comments, voter : Voters,
                  previous : Choices, value : Choices]

DiscussionsInit ==
  /\ posted = {}
  /\ counter = [c \in Comments |-> [s \in Sides |-> 0]]
  /\ choice = [c \in Comments |-> [v \in Voters |-> None]]
  /\ ballot = [r \in Ballots |-> None]
  /\ regime \in Regimes

BallotTo(r, step) == ballot' = [ballot EXCEPT ![r] = step]
BallotAt(r, pc) == ballot[r] # None /\ ballot[r].pc = pc

-----------------------------------------------------------------------------
PostComment(c) ==
  /\ c \notin posted
  /\ posted' = posted \cup {c}
  /\ UNCHANGED <<counter, choice, ballot, regime>>

-----------------------------------------------------------------------------
(* vote.  While requests are in turn, those of one delegate are: votes of   *)
(* different delegates overlap as they like.                               *)
VoteStarts(r, v, c, value) ==
  /\ ballot[r] = None /\ c \in posted
  /\ InTurn => \A x \in Ballots : ballot[x] # None => ballot[x].voter # v
  /\ BallotTo(r, [pc |-> "reading", c |-> c, voter |-> v, previous |-> None, value |-> value])
  /\ UNCHANGED <<posted, counter, choice, regime>>

VoteReads(r) ==
  LET b == ballot[r] IN
  /\ BallotAt(r, "reading")
  /\ BallotTo(r, [b EXCEPT !.previous = choice[b.c][b.voter],
                          !.pc = IF choice[b.c][b.voter] = b.value THEN "committing" ELSE "writing"])
  /\ UNCHANGED <<posted, counter, choice, regime>>

Changes(b) == b.previous # b.value
HoldsChoice(x, b) == /\ BallotAt(x, "counting") \/ (BallotAt(x, "committing") /\ Changes(ballot[x]))
                     /\ ballot[x].c = b.c /\ ballot[x].voter = b.voter
HoldsCounter(x, c) == BallotAt(x, "committing") /\ Changes(ballot[x]) /\ ballot[x].c = c

(* delete, update or insert of the row, after whoever holds it: of these    *)
(* only an insert beside a row is refused, and its transaction with it.     *)
VoteWrites(r) ==
  LET b == ballot[r] IN
  /\ BallotAt(r, "writing")
  /\ \A x \in Ballots : ~HoldsChoice(x, b)
  /\ BallotTo(r, IF b.previous = None /\ choice[b.c][b.voter] # None THEN None
                 ELSE [b EXCEPT !.pc = "counting"])
  /\ UNCHANGED <<posted, counter, choice, regime>>

(* The increments wait for whoever holds the comment's row.                 *)
VoteCounts(r) ==
  /\ BallotAt(r, "counting")
  /\ \A x \in Ballots : ~HoldsCounter(x, ballot[r].c)
  /\ BallotTo(r, [ballot[r] EXCEPT !.pc = "committing"])
  /\ UNCHANGED <<posted, counter, choice, regime>>

Moved(b, s) == (IF b.value = s THEN 1 ELSE 0) - (IF b.previous = s THEN 1 ELSE 0)

(* A change of a row that went changes none.                                *)
Cast(b) == IF Changes(b) /\ (b.previous = None \/ choice[b.c][b.voter] # None)
           THEN [choice EXCEPT ![b.c][b.voter] = b.value] ELSE choice

(* Slip: the counter of the side that was left stays.                       *)
VoteCommitsOneSide(r) ==
  LET b == ballot[r] IN
  /\ BallotAt(r, "committing")
  /\ choice' = Cast(b)
  /\ counter' = [counter EXCEPT ![b.c] = [s \in Sides |->
       @[s] + IF b.value = s /\ Changes(b) THEN 1 ELSE IF b.value = None THEN Moved(b, s) ELSE 0]]
  /\ BallotTo(r, None)
  /\ UNCHANGED <<posted, regime>>

VoteCommits(r) ==
  LET b == ballot[r] IN
  /\ BallotAt(r, "committing")
  /\ choice' = Cast(b)
  /\ counter' = [counter EXCEPT ![b.c] = [s \in Sides |-> counter[b.c][s] + Moved(b, s)]]
  /\ BallotTo(r, None)
  /\ UNCHANGED <<posted, regime>>

(* The transaction is rolled back.                                          *)
VoteDies(r) ==
  /\ MayDie /\ ballot[r] # None
  /\ BallotTo(r, None)
  /\ UNCHANGED <<posted, counter, choice, regime>>

DiscussionsNext ==
  \/ \E c \in Comments : PostComment(c)
  \/ \E r \in Ballots :
       \/ VoteReads(r) \/ VoteWrites(r) \/ VoteCounts(r) \/ VoteCommits(r) \/ VoteDies(r)
       \/ \E v \in Voters, c \in Comments, value \in Choices : VoteStarts(r, v, c, value)

DiscussionsSpec == DiscussionsInit /\ [][DiscussionsNext]_discussionsVars

-----------------------------------------------------------------------------
DiscussionsTypeOK ==
  /\ posted \subseteq Comments
  /\ counter \in [Comments -> [Sides -> Int]]
  /\ choice \in [Comments -> [Voters -> Choices]]
  /\ ballot \in [Ballots -> BallotRecords \cup {None}] /\ regime \in Regimes

(* "The counters and the vote row move together" (lines 131-134): however   *)
(* the votes of different delegates overlap, and whichever are lost, each   *)
(* counter is the number of votes on its side.                             *)
CountersMatchVotes ==
  InTurn => \A c \in Comments, s \in Sides :
    counter[c][s] = Cardinality({v \in Voters : choice[c][v] = s})
=============================================================================
