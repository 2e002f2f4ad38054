---------------------------- MODULE Certificates ----------------------------
(***************************************************************************)
(* One delegate's certificate of participation (resources.service.ts) and  *)
(* the checklist that may guard it (participation.service.ts): issued once,*)
(* under any number of requests for it, for its PDF, and for the account's *)
(* deletion.                                                               *)
(*                                                                         *)
(* What a delegate did is a count per step of the checklist; it may go     *)
(* down again, when a connection is removed, or a question, a pitch or a   *)
(* session goes with what hung off it.  Codes are numbered as they are     *)
(* drawn and never collide.                                                *)
(* Each "Slip:" is a plausible wrong version of what follows it.           *)
(***************************************************************************)
EXTENDS Naturals, Requests

CONSTANTS Steps,
          Need,     \* what each step asks for: CONNECTIONS_REQUIRED of one, 1 of the others
          Issues,   \* slots for requests
          MaxDrawn  \* a bound

ASSUME StepsNeedSomething == Need \in [Steps -> Nat \ {0}]
ASSUME CertificateBounds == MaxDrawn \in Nat /\ None \notin 1..MaxDrawn

VARIABLES
  required, \* CERTIFICATE_REQUIRE_PARTICIPATION
  standing, \* whether the account stands
  did,      \* what was done of each step, up to what it needs
  ever,     \* the steps that were complete at some time: history
  serials,  \* codes drawn so far
  issued,   \* the code in the row of the certificates table, or None
  showed,   \* the codes the delegate was shown: history
  issue     \* requests under way

certificateVars == <<required, standing, did, ever, serials, issued, showed, issue, regime>>

IssueRecords == [pc : {"looking", "counting", "saving", "answering", "deleting"},
                 counted : SUBSET Steps, done : SUBSET Steps, code : Nat]

CertificatesInit ==
  /\ required \in BOOLEAN /\ standing = TRUE
  /\ did = [s \in Steps |-> 0] /\ ever = {}
  /\ serials = 0 /\ issued = None /\ showed = {}
  /\ issue = [r \in Issues |-> None]
  /\ regime \in Regimes

IssueAt(r, pc) == issue[r] # None /\ issue[r].pc = pc
IssueTo(r, pc) == issue' = [issue EXCEPT ![r].pc = pc]
IssueEnds(r) == issue' = [issue EXCEPT ![r] = None]
IssueOpens(r, pc) ==
  /\ MayStart(issue, r) /\ standing
  /\ issue' = [issue EXCEPT ![r] = [pc |-> pc, counted |-> {}, done |-> {}, code |-> 0]]
  /\ UNCHANGED <<required, standing, did, ever, serials, issued, showed, regime>>

-----------------------------------------------------------------------------
Participates(s) ==
  /\ InTurn => Idle(issue)
  /\ standing /\ did[s] < Need[s]
  /\ did' = [did EXCEPT ![s] = @ + 1]
  /\ ever' = IF did'[s] = Need[s] THEN ever \cup {s} ELSE ever
  /\ UNCHANGED <<required, standing, serials, issued, showed, issue, regime>>

Undone(s) ==
  /\ InTurn => Idle(issue)
  /\ did[s] > 0
  /\ did' = [did EXCEPT ![s] = @ - 1]
  /\ UNCHANGED <<required, standing, ever, serials, issued, showed, issue, regime>>

(* certificates/me and certificates/me.pdf.                                 *)
AsksCertificate(r) == IssueOpens(r, "looking")

FindsCertificate(r) ==
  /\ IssueAt(r, "looking")
  /\ issue' = [issue EXCEPT ![r] =
       IF issued # None THEN [@ EXCEPT !.pc = "answering", !.code = issued]
       ELSE [@ EXCEPT !.pc = IF required THEN "counting" ELSE "saving"]]
  /\ UNCHANGED <<required, standing, did, ever, serials, issued, showed, regime>>

(* statusFor: the counts are queries at once, each at an instant of its own. *)
CountsStep(r, s) ==
  /\ IssueAt(r, "counting") /\ s \notin issue[r].counted
  /\ issue' = [issue EXCEPT ![r].counted = @ \cup {s},
                            ![r].done = IF did[s] >= Need[s] THEN @ \cup {s} ELSE @]
  /\ UNCHANGED <<required, standing, did, ever, serials, issued, showed, regime>>

Unlocks(r) ==
  /\ IssueAt(r, "counting") /\ issue[r].counted = Steps
  /\ IF issue[r].done = Steps THEN IssueTo(r, "saving") ELSE IssueEnds(r)
  /\ UNCHANGED <<required, standing, did, ever, serials, issued, showed, regime>>

(* Slip: the row is written whether or not there is one: an upsert.         *)
UpsertsCertificate(r) ==
  /\ IssueAt(r, "saving") /\ serials < MaxDrawn
  /\ serials' = serials + 1 /\ issued' = serials + 1
  /\ issue' = [issue EXCEPT ![r].pc = "answering", ![r].code = serials + 1]
  /\ UNCHANGED <<required, standing, did, ever, showed, regime>>

(* An insert: the delegate's index is unique, the second of two fails.      *)
SavesCertificate(r) ==
  /\ IssueAt(r, "saving") /\ serials < MaxDrawn
  /\ serials' = serials + 1
  /\ IF issued = None
     THEN /\ issued' = serials + 1
          /\ issue' = [issue EXCEPT ![r].pc = "answering", ![r].code = serials + 1]
     ELSE IssueEnds(r) /\ UNCHANGED issued
  /\ UNCHANGED <<required, standing, did, ever, showed, regime>>

ShowsCertificate(r) ==
  /\ IssueAt(r, "answering")
  /\ showed' = showed \cup {issue[r].code}
  /\ IssueEnds(r)
  /\ UNCHANGED <<required, standing, did, ever, serials, issued, regime>>

(* deleteAccount: the certificate goes in the transaction of the account.   *)
AsksDeletion(r) == IssueOpens(r, "deleting")

DeletesAccount(r) ==
  /\ IssueAt(r, "deleting")
  /\ standing' = FALSE /\ issued' = None
  /\ did' = [s \in Steps |-> 0]
  /\ IssueEnds(r)
  /\ UNCHANGED <<required, ever, serials, showed, regime>>

IssueDies(r) ==
  /\ MayDie /\ issue[r] # None
  /\ IssueEnds(r)
  /\ UNCHANGED <<required, standing, did, ever, serials, issued, showed, regime>>

CertificatesNext ==
  \/ \E s \in Steps : Participates(s) \/ Undone(s)
  \/ \E r \in Issues :
       \/ AsksCertificate(r) \/ FindsCertificate(r) \/ Unlocks(r) \/ SavesCertificate(r)
       \/ ShowsCertificate(r) \/ AsksDeletion(r) \/ DeletesAccount(r) \/ IssueDies(r)
       \/ \E s \in Steps : CountsStep(r, s)

CertificatesSpec == CertificatesInit /\ [][CertificatesNext]_certificateVars

-----------------------------------------------------------------------------
CertificatesTypeOK ==
  /\ required \in BOOLEAN /\ standing \in BOOLEAN
  /\ did \in [Steps -> Nat] /\ ever \subseteq Steps
  /\ serials \in 0..MaxDrawn
  /\ issued \in 1..serials \cup {None} /\ showed \subseteq 1..serials
  /\ issue \in [Issues -> IssueRecords \cup {None}] /\ regime \in Regimes

(* "so the one they screenshotted stays valid" (lines 82-83): whichever     *)
(* requests overlap or are lost, and whatever is undone later, every code   *)
(* the delegate was shown is the one in the table as long as the account    *)
(* stands; one request at a time, none is left when it goes.  And "a        *)
(* certificate that says participation should require having participated": *)
(* where that is required, each step was complete once.                     *)
CertificatesLast ==
  /\ standing => showed \subseteq {issued}
  /\ ~standing /\ InTurn => issued = None
  /\ required /\ issued # None => ever = Steps
=============================================================================
