------------------------------ MODULE LiveOps ------------------------------
(***************************************************************************)
(* The three switches of a live session's broadcast (live-ops.service.ts): *)
(* each a Redis key that is set, after which all three are read back and   *)
(* sent to the session's room.                                             *)
(*                                                                         *)
(* With one API instance the answers of Redis come back in the order of    *)
(* the commands, and so do the broadcasts; with several they do not.       *)
(* Each "Slip:" is a plausible wrong version of what follows it.           *)
(***************************************************************************)
EXTENDS Naturals, Sequences, Requests

CONSTANT Panels \* requests of the board

Flags == {"cutToBreak", "captionsOverlay", "signLanguageOverlay"}

VARIABLES
  alone,  \* whether one instance serves everybody
  flags,  \* liveops:<flag>:<session>
  screen, \* what the room was last sent
  torn,   \* whether a request was lost after it set a flag and nobody
          \* read the flags since and told the room: history
  panel   \* requests under way

liveOpsVars == <<alone, flags, screen, torn, panel, regime>>

(* before: who had read the flags earlier and not told the room yet.        *)
PanelRecords == [pc : {"setting", "telling"}, todo : Seq(Flags \X BOOLEAN), begun : BOOLEAN,
                 seen : [Flags -> BOOLEAN], before : SUBSET Panels, since : BOOLEAN]

ASSUME NoneIsNoPanel == None \notin PanelRecords

AllOff == [f \in Flags |-> FALSE]

LiveOpsInit ==
  /\ alone \in BOOLEAN
  /\ flags = AllOff /\ screen = AllOff /\ torn = FALSE
  /\ panel = [r \in Panels |-> None]
  /\ regime \in Regimes

PanelAt(r, pc) == panel[r] # None /\ panel[r].pc = pc
Asks(r, todo) ==
  /\ MayStart(panel, r)
  /\ panel' = [panel EXCEPT ![r] = [pc |-> "setting", todo |-> todo, begun |-> FALSE,
                                    seen |-> AllOff, before |-> {}, since |-> FALSE]]
  /\ UNCHANGED <<alone, flags, screen, torn, regime>>

-----------------------------------------------------------------------------
SetCutToBreak(r, active) == Asks(r, <<<<"cutToBreak", active>>>>)

(* Of the overlays either, both or none is given; captions come first.      *)
SetOverlays(r, captions, signLanguage) ==
  Asks(r, (IF captions = None THEN <<>> ELSE <<<<"captionsOverlay", captions>>>>)
          \o (IF signLanguage = None THEN <<>> ELSE <<<<"signLanguageOverlay", signLanguage>>>>))

SetsFlag(r) ==
  /\ PanelAt(r, "setting") /\ panel[r].todo # <<>>
  /\ LET set == Head(panel[r].todo) IN flags' = [flags EXCEPT ![set[1]] = set[2]]
  /\ panel' = [panel EXCEPT ![r].todo = Tail(@), ![r].begun = TRUE]
  /\ UNCHANGED <<alone, screen, torn, regime>>

Telling(q) == panel[q] # None /\ panel[q].pc = "telling"

(* Slip: the switches are read before the last of them is set.              *)
ReadsBeforeSet(r) ==
  /\ PanelAt(r, "setting") /\ Len(panel[r].todo) <= 1
  /\ flags' = IF panel[r].todo = <<>> THEN flags
              ELSE [flags EXCEPT ![panel[r].todo[1][1]] = panel[r].todo[1][2]]
  /\ panel' = [panel EXCEPT ![r].pc = "telling", ![r].seen = flags, ![r].since = TRUE,
                            ![r].before = {q \in Panels : Telling(q)}]
  /\ UNCHANGED <<alone, screen, torn, regime>>

(* getflags: the three keys in one command.                                 *)
ReadsFlags(r) ==
  /\ PanelAt(r, "setting") /\ panel[r].todo = <<>>
  /\ panel' = [panel EXCEPT ![r].pc = "telling", ![r].seen = flags, ![r].since = TRUE,
                            ![r].before = {q \in Panels : Telling(q)}]
  /\ UNCHANGED <<alone, flags, screen, torn, regime>>

Leaves(r) ==
  [q \in Panels |-> IF q = r \/ panel[q] = None THEN None ELSE [panel[q] EXCEPT !.before = @ \ {r}]]

BroadcastFlags(r) ==
  /\ PanelAt(r, "telling")
  /\ alone => panel[r].before = {}
  /\ screen' = panel[r].seen
  /\ torn' = (torn /\ ~panel[r].since)
  /\ panel' = Leaves(r)
  /\ UNCHANGED <<alone, flags, regime>>

PanelDies(r) ==
  /\ MayDie /\ panel[r] # None
  /\ torn' = (torn \/ panel[r].begun)
  /\ LET rest == Leaves(r) IN
     panel' = [q \in Panels |-> IF rest[q] = None \/ ~panel[r].begun THEN rest[q]
                                ELSE [rest[q] EXCEPT !.since = FALSE]]
  /\ UNCHANGED <<alone, flags, screen, regime>>

LiveOpsNext ==
  \E r \in Panels :
    \/ \E active \in BOOLEAN : SetCutToBreak(r, active)
    \/ \E captions, signLanguage \in BOOLEAN \cup {None} : SetOverlays(r, captions, signLanguage)
    \/ SetsFlag(r) \/ ReadsFlags(r) \/ BroadcastFlags(r) \/ PanelDies(r)

LiveOpsSpec == LiveOpsInit /\ [][LiveOpsNext]_liveOpsVars

-----------------------------------------------------------------------------
LiveOpsTypeOK ==
  /\ alone \in BOOLEAN /\ torn \in BOOLEAN
  /\ flags \in [Flags -> BOOLEAN] /\ screen \in [Flags -> BOOLEAN]
  /\ panel \in [Panels -> PanelRecords \cup {None}] /\ regime \in Regimes

(* A screen that is on learns of a switch by the broadcast alone (lines     *)
(* 86-94): on one instance, however the board's requests overlap, the       *)
(* screens show the switches as they are once all requests are done, unless *)
(* one was lost after it set a switch and nobody pressed another since.     *)
FlagsReachScreens ==
  (alone \/ InTurn) /\ Idle(panel) /\ ~torn => screen = flags
=============================================================================
