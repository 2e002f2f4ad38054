----------------------------- MODULE PitchBallot -----------------------------
(***************************************************************************)
(* What the pitchathon ballot promises, each act in one step: a ballot is  *)
(* accepted only while its topic is open and stands for one pitch of that  *)
(* topic; closing freezes the standing of that instant for good; a pitch   *)
(* that holds ballots stays where it is; a topic or a pitch is removed     *)
(* only after its ballots are given back.  Voting.tla implements it while  *)
(* admin requests run alone.                                               *)
(***************************************************************************)
EXTENDS Naturals, FiniteSets

CONSTANTS Delegates, Topics, Entries, None

VARIABLES
  state,  \* None, "pending", "open" or "closed"
  final,  \* the frozen standing of a closed topic
  home,   \* the topic a pitch competes in
  ballot  \* the pitch a delegate stands for in a topic

pvars == <<state, final, home, ballot>>

Standing(t) == [e \in Entries |-> Cardinality({d \in Delegates : ballot[d][t] = e})]

PInit ==
  /\ state = [t \in Topics |-> None]
  /\ final = [t \in Topics |-> None]
  /\ home = [e \in Entries |-> None]
  /\ ballot = [d \in Delegates |-> [t \in Topics |-> None]]

AddTopic(t) ==
  /\ state[t] = None
  /\ state' = [state EXCEPT ![t] = "pending"]
  /\ UNCHANGED <<final, home, ballot>>

Open(t) ==
  /\ state[t] = "pending"
  /\ state' = [state EXCEPT ![t] = "open"]
  /\ UNCHANGED <<final, home, ballot>>

Close(t) ==
  /\ state[t] \in {"pending", "open"}
  /\ state' = [state EXCEPT ![t] = "closed"]
  /\ final' = [final EXCEPT ![t] = Standing(t)]
  /\ UNCHANGED <<home, ballot>>

(* The delegates in D who stand for a pitch of t are back to "not yet voted". *)
GiveBack(D, t) ==
  /\ ballot' = [d \in Delegates |->
       IF d \in D THEN [ballot[d] EXCEPT ![t] = None] ELSE ballot[d]]
  /\ UNCHANGED <<state, final, home>>

DropTopic(t) ==
  /\ state[t] # None
  /\ \A d \in Delegates : ballot[d][t] = None
  /\ state' = [state EXCEPT ![t] = None]
  /\ final' = [final EXCEPT ![t] = None]
  /\ home' = [e \in Entries |-> IF home[e] = t THEN None ELSE home[e]]
  /\ UNCHANGED ballot

AddPitch(e, t) ==
  /\ home[e] = None
  /\ state[t] # None
  /\ home' = [home EXCEPT ![e] = t]
  /\ UNCHANGED <<state, final, ballot>>

MovePitch(e, t) ==
  /\ home[e] # None
  /\ state[t] # None
  /\ \A d \in Delegates : ballot[d][home[e]] # e
  /\ home' = [home EXCEPT ![e] = t]
  /\ UNCHANGED <<state, final, ballot>>

DropPitch(e) ==
  /\ home[e] # None
  /\ \A d \in Delegates, t \in Topics : ballot[d][t] # e
  /\ home' = [home EXCEPT ![e] = None]
  /\ UNCHANGED <<state, final, ballot>>

Stand(d, e) ==
  /\ home[e] # None
  /\ state[home[e]] = "open"
  /\ ballot' = [ballot EXCEPT ![d][home[e]] = e]
  /\ UNCHANGED <<state, final, home>>

PNext ==
  \/ \E t \in Topics : AddTopic(t) \/ Open(t) \/ Close(t) \/ DropTopic(t)
  \/ \E e \in Entries, t \in Topics : AddPitch(e, t) \/ MovePitch(e, t)
  \/ \E e \in Entries : DropPitch(e)
  \/ \E d \in Delegates, e \in Entries : Stand(d, e)
  \/ \E D \in SUBSET Delegates, t \in Topics : GiveBack(D, t)

PSpec == PInit /\ [][PNext]_pvars
=============================================================================
