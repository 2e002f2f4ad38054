------------------------------- MODULE Reveal -------------------------------
(***************************************************************************)
(* The reveal of the speakers (sessions.service.ts, search.service.ts,     *)
(* speaker-reveal.interceptor.ts): one Redis key that the organisers set,  *)
(* and what is asked meanwhile.  A handler reads the key before it lists   *)
(* or matches speakers, and the interceptor reads it again over the        *)
(* finished answer.                                                        *)
(*                                                                         *)
(* Answers do not change each other: one at a time is looked at.  The push *)
(* that goes with a reveal is an announcement of the module Announcements. *)
(* Each "Slip:" is a plausible wrong version of what follows it.           *)
(***************************************************************************)
EXTENDS Naturals, Requests

CONSTANTS Hosts,  \* requests that set the switch
          Callers \* requests whose answers may speak of speakers

(* nested: any answer whose sessions carry their speakers; listing: GET      *)
(* speakers; search: GET search, for a speaker's role.                       *)
Queries == {"nested", "listing", "search"}

(* What a handler reads the switch for: the rows of speakers, and whether a  *)
(* session may match by its speakers.                                        *)
Gates == [nested |-> {}, listing |-> {"rows"}, search |-> {"rows", "where"}]

VARIABLES
  united,   \* whether one instance serves everybody, picked once
  revealed, \* summit:speakers:revealed
  curtain,  \* what the open apps were last told
  hushed,   \* whether a request was lost between the key and the apps, and
            \* none set and told since: history
  host, ask

revealVars == <<united, revealed, curtain, hushed, host, ask, regime>>

(* before: who had set the key earlier and not told the apps yet.           *)
HostRecords == [pc : {"setting", "telling"}, to : BOOLEAN, before : SUBSET Hosts, since : BOOLEAN]

(* ever, always: whether the line-up was revealed at some moment, and at     *)
(* all, since the request came: history.                                     *)
AskRecords == [pc : {"gating", "answered"}, query : Queries, admin : BOOLEAN,
               todo : SUBSET {"rows", "where"}, passed : SUBSET {"rows", "where"},
               learns : SUBSET {"names", "match"}, ever : BOOLEAN, always : BOOLEAN]

ASSUME NoneIsNoRequest == None \notin HostRecords \cup AskRecords

RevealInit ==
  /\ united \in BOOLEAN
  /\ revealed = FALSE /\ curtain = FALSE /\ hushed = FALSE
  /\ host = [r \in Hosts |-> None] /\ ask = [q \in Callers |-> None]
  /\ regime \in Regimes

HostAt(r, pc) == host[r] # None /\ host[r].pc = pc
AskAt(q, pc) == ask[q] # None /\ ask[q].pc = pc

-----------------------------------------------------------------------------
SetSpeakersRevealed(r, to) ==
  /\ MayStart(host, r) /\ (InTurn => Idle(ask))
  /\ host' = [host EXCEPT ![r] = [pc |-> "setting", to |-> to, before |-> {}, since |-> FALSE]]
  /\ UNCHANGED <<united, revealed, curtain, hushed, ask, regime>>

Observed(to) ==
  [q \in Callers |-> IF ask[q] = None \/ ask[q].pc = "answered" THEN ask[q]
                     ELSE [ask[q] EXCEPT !.ever = @ \/ to, !.always = @ /\ to]]

SetsKey(r) ==
  /\ HostAt(r, "setting")
  /\ revealed' = host[r].to
  /\ host' = [host EXCEPT ![r].pc = "telling", ![r].since = TRUE,
                          ![r].before = {p \in Hosts : HostAt(p, "telling")}]
  /\ ask' = Observed(host[r].to)
  /\ UNCHANGED <<united, curtain, hushed, regime>>

HostLeaves(r) ==
  [p \in Hosts |-> IF p = r \/ host[p] = None THEN None ELSE [host[p] EXCEPT !.before = @ \ {r}]]

(* One instance resumes its requests in the order Redis answered them.      *)
TellsApps(r) ==
  /\ HostAt(r, "telling")
  /\ united => host[r].before = {}
  /\ curtain' = host[r].to
  /\ hushed' = (hushed /\ ~host[r].since)
  /\ host' = HostLeaves(r)
  /\ UNCHANGED <<united, revealed, ask, regime>>

HostDies(r) ==
  /\ MayDie /\ host[r] # None
  /\ hushed' = (hushed \/ HostAt(r, "telling"))
  /\ LET rest == HostLeaves(r) IN
     host' = [p \in Hosts |-> IF rest[p] # None /\ HostAt(r, "telling")
                              THEN [rest[p] EXCEPT !.since = FALSE] ELSE rest[p]]
  /\ UNCHANGED <<united, revealed, curtain, ask, regime>>

-----------------------------------------------------------------------------
AsksLineUp(q, query, admin) ==
  /\ MayStart(ask, q) /\ (InTurn => Idle(host))
  /\ ask' = [ask EXCEPT ![q] = [pc |-> "gating", query |-> query, admin |-> admin, todo |-> Gates[query],
                                passed |-> {}, learns |-> {}, ever |-> revealed, always |-> revealed]]
  /\ UNCHANGED <<united, revealed, curtain, hushed, host, regime>>

(* Slip: only the rows of speakers are withheld.                            *)
ReadsRowsGate(q, gate) ==
  /\ AskAt(q, "gating") /\ gate \in ask[q].todo
  /\ ask' = [ask EXCEPT ![q].todo = @ \ {gate},
                        ![q].passed = IF ask[q].admin \/ revealed \/ gate = "where"
                                      THEN @ \cup {gate} ELSE @]
  /\ UNCHANGED <<united, revealed, curtain, hushed, host, regime>>

(* mustHideSpeakers; a search asks for sessions and speakers side by side.  *)
ReadsGate(q, gate) ==
  /\ AskAt(q, "gating") /\ gate \in ask[q].todo
  /\ ask' = [ask EXCEPT ![q].todo = @ \ {gate},
                        ![q].passed = IF ask[q].admin \/ revealed THEN @ \cup {gate} ELSE @]
  /\ UNCHANGED <<united, revealed, curtain, hushed, host, regime>>

(* What an answer gives away when the interceptor lets it be, or not: a      *)
(* listing has no key "speakers" to redact, an answer with one keeps a       *)
(* placeholder for its speakers, if it had any.                              *)
Learns(query, passed, public) ==
  {learnt \in {"names", "match"} :
     \/ learnt = "names" /\ query = "listing" /\ "rows" \in passed
     \/ learnt = "names" /\ query # "listing" /\ public
     \/ learnt = "match" /\ query = "search" /\ passed # {}}

(* SpeakerRevealInterceptor: reads the key last, then redacts.              *)
Intercepts(q) ==
  LET a == ask[q] IN
  /\ AskAt(q, "gating") /\ a.todo = {}
  /\ ask' = [ask EXCEPT ![q].pc = "answered",
                        ![q].learns = Learns(a.query, a.passed, a.admin \/ revealed)]
  /\ UNCHANGED <<united, revealed, curtain, hushed, host, regime>>

(* The answer was looked at, or never came.                                 *)
AskEnds(q) ==
  /\ ask[q] # None /\ (AskAt(q, "answered") \/ MayDie)
  /\ ask' = [ask EXCEPT ![q] = None]
  /\ UNCHANGED <<united, revealed, curtain, hushed, host, regime>>

RevealNext ==
  \/ \E r \in Hosts : \/ \E to \in BOOLEAN : SetSpeakersRevealed(r, to)
                      \/ SetsKey(r) \/ TellsApps(r) \/ HostDies(r)
  \/ \E q \in Callers : \/ \E query \in Queries, admin \in BOOLEAN : AsksLineUp(q, query, admin)
                        \/ \E gate \in {"rows", "where"} : ReadsGate(q, gate)
                        \/ Intercepts(q) \/ AskEnds(q)

RevealSpec == RevealInit /\ [][RevealNext]_revealVars

-----------------------------------------------------------------------------
RevealTypeOK ==
  /\ united \in BOOLEAN /\ revealed \in BOOLEAN /\ curtain \in BOOLEAN /\ hushed \in BOOLEAN
  /\ host \in [Hosts -> HostRecords \cup {None}] /\ ask \in [Callers -> AskRecords \cup {None}]
  /\ regime \in Regimes

Answered(q) == AskAt(q, "answered") /\ ~ask[q].admin

(* No answer to a delegate names a speaker, or shows by its hits that one    *)
(* matched, unless the line-up was revealed while it was asked for; one that *)
(* was asked for and answered while it was revealed names them, so that an   *)
(* app that asks again when it is told (line 199) shows them; and on one     *)
(* instance what the apps were told last is what holds once the organisers'  *)
(* requests are done, unless one was lost before it told them.               *)
LineUpFollowsTheSwitch ==
  /\ \A q \in Callers : Answered(q) =>
       /\ ask[q].learns = {} \/ ask[q].ever
       /\ ask[q].always => "names" \in ask[q].learns
  /\ (united \/ InTurn) /\ Idle(host) /\ ~hushed => curtain = revealed
=============================================================================
