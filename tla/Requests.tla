------------------------------ MODULE Requests ------------------------------
(***************************************************************************)
(* How the requests of one component overlap, shared by the modules about  *)
(* delegates.  A request under way is a record in a slot of its component; *)
(* an idle slot holds None.                                                *)
(***************************************************************************)
CONSTANTS Regimes, \* of {"single", "lossy", "shared"}
          None

ASSUME RequestSwitches == Regimes \subseteq {"single", "lossy", "shared"}

VARIABLE regime \* "single": one request at a time, and each ends;
                \* "lossy": one at a time, and its process may be lost midway;
                \* "shared": the code's own, any overlap and any loss

InTurn == regime # "shared"
MayDie == regime # "single"

Idle(slots) == \A r \in DOMAIN slots : slots[r] = None
MayStart(slots, r) == slots[r] = None /\ (InTurn => Idle(slots))
=============================================================================
