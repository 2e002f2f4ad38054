------------------------------ MODULE Accounts ------------------------------
(***************************************************************************)
(* The delegates table and the registration list (delegates.service.ts,    *)
(* and registration in auth.service.ts): who has an account, with which    *)
(* tier, and who claimed which entry of the list.                          *)
(*                                                                         *)
(* A delegate is an address, which is unique in the table; an entry is for *)
(* one address, or, with None, for whoever has its invite code.  Of the    *)
(* columns that save writes, the tier and pendingReview are kept.          *)
(* Each "Slip:" is a plausible wrong version of what follows it.           *)
(***************************************************************************)
EXTENDS Naturals, FiniteSets, Requests

CONSTANTS Delegates, Entries, AccountCalls,
          Founder,  \* the administrator that is seeded
          Grantable \* tiers an operator or an entry may give: not the staff's

Staff == {"admin", "session_admin"}
Tiers == Grantable \cup Staff

ASSUME AccountTiers ==
  "standard" \in Grantable /\ Grantable \cap Staff = {} /\ Founder \in Delegates

VARIABLES
  account, \* delegates: None, or a row
  entry,   \* registration_entries: None, or a row
  call     \* requests under way

accountsVars == <<account, entry, call, regime>>

(* via is history: the entry that gave the account its tier.                *)
AccountRows == [tier : Tiers, pending : BOOLEAN, via : Entries \cup {None}]
EntryRows == [for : Delegates \cup {None}, tier : Grantable, by : Delegates \cup {None}]
Calls == [pc : {"creating", "claiming", "counting", "saving", "revoking", "deleting", "approving", "saveEntry"},
          d : Delegates \cup {None}, e : Entries \cup {None},
          row : AccountRows \cup EntryRows \cup {None}]

ASSUME NoneIsNoRow == None \notin AccountRows \cup EntryRows \cup Calls \cup Delegates \cup Entries

Exists(d) == account[d] # None
(* A bound: an address registers again when nothing is under way that read  *)
(* the account it had.                                                     *)
Fresh(d) == ~Exists(d) /\ \A r \in AccountCalls :
              call[r] # None /\ call[r].d = d => call[r].pc = "creating"
Rows == {e \in Entries : entry[e] # None}
Admins == {d \in Delegates : Exists(d) /\ account[d].tier = "admin"}

(* Seeded: one administrator, and an empty list.                            *)
AccountsInit ==
  /\ account = [d \in Delegates |->
       IF d = Founder THEN [tier |-> "admin", pending |-> FALSE, via |-> None] ELSE None]
  /\ entry = [e \in Entries |-> None]
  /\ call = [r \in AccountCalls |-> None]
  /\ regime \in Regimes

CallTo(r, pc, d, e, row) == call' = [call EXCEPT ![r] = [pc |-> pc, d |-> d, e |-> e, row |-> row]]
CallEnds(r) == call' = [call EXCEPT ![r] = None]
At(r, pc) == call[r] # None /\ call[r].pc = pc

-----------------------------------------------------------------------------
(* registration: the code was valid; no account yet; then the entry its     *)
(* invite code names, or the one for its address, if nobody claimed it.     *)
Unclaimed == {e \in Rows : entry[e].by = None}
Matching(d) ==
  LET mine == {e \in Unclaimed : entry[e].for = d}
  IN  Unclaimed \cup (IF mine = {} THEN {None} ELSE {})

RegisterReads(r, d, e) ==
  /\ MayStart(call, r)
  /\ Fresh(d) /\ e \in Matching(d)
  /\ CallTo(r, "creating", d, e, [tier |-> IF e = None THEN "standard" ELSE entry[e].tier,
                                  pending |-> FALSE, via |-> e])
  /\ UNCHANGED <<account, entry, regime>>

CreateStaffReads(r, d, role) ==
  /\ MayStart(call, r)
  /\ Fresh(d) /\ role \in Staff
  /\ CallTo(r, "creating", d, None, [tier |-> role, pending |-> FALSE, via |-> None])
  /\ UNCHANGED <<account, entry, regime>>

(* createDelegate: the address is unique.                                   *)
CreateDelegate(r) ==
  LET c == call[r] IN
  /\ At(r, "creating")
  /\ account' = IF Exists(c.d) THEN account ELSE [account EXCEPT ![c.d] = c.row]
  /\ IF Exists(c.d) \/ c.e = None THEN CallEnds(r) ELSE CallTo(r, "claiming", c.d, c.e, None)
  /\ UNCHANGED <<entry, regime>>

ClaimRegistration(r) ==
  LET c == call[r] IN
  /\ At(r, "claiming")
  /\ entry' = IF c.e \in Unclaimed THEN [entry EXCEPT ![c.e].by = c.d] ELSE entry
  /\ CallEnds(r)
  /\ UNCHANGED <<account, regime>>

-----------------------------------------------------------------------------
(* Reads of a delegate that will be saved: save compares the entity with    *)
(* the row as it is by then, and so writes back all that was read.          *)
Saves(r, d, row) == CallTo(r, "saving", d, None, row)

SetTier(r, d, tier) ==
  /\ MayStart(call, r) /\ Exists(d) /\ tier \in Grantable
  /\ Saves(r, d, [account[d] EXCEPT !.tier = tier, !.pending = FALSE])
  /\ UNCHANGED <<account, entry, regime>>

SetApproval(r, d) ==
  /\ MayStart(call, r) /\ Exists(d)
  /\ Saves(r, d, [account[d] EXCEPT !.pending = ~@])
  /\ UNCHANGED <<account, entry, regime>>

UpdateProfile(r, d) ==
  /\ MayStart(call, r) /\ Exists(d)
  /\ Saves(r, d, account[d])
  /\ UNCHANGED <<account, entry, regime>>

GrantAdmin(r, d, role) ==
  /\ MayStart(call, r) /\ Exists(d) /\ role \in Staff
  /\ Saves(r, d, [account[d] EXCEPT !.tier = role])
  /\ UNCHANGED <<account, entry, regime>>

(* An administrator may not revoke its own access: somebody else asks.      *)
RevokeAdmin(r, d, by) ==
  LET row == [account[d] EXCEPT !.tier = "standard"] IN
  /\ MayStart(call, r) /\ Exists(d) /\ by \in Admins
  /\ IF account[d].tier = "admin"
     THEN by # d /\ CallTo(r, "counting", d, None, row)
     ELSE Saves(r, d, row)
  /\ UNCHANGED <<account, entry, regime>>

DeleteReads(r, d) ==
  /\ MayStart(call, r) /\ Exists(d)
  /\ CallTo(r, IF account[d].tier = "admin" THEN "counting" ELSE "deleting", d, None, None)
  /\ UNCHANGED <<account, entry, regime>>

(* Slip: the deletion counts nobody.                                       *)
CountsRevocations(r) ==
  LET c == call[r] IN
  /\ At(r, "counting")
  /\ IF c.row = None THEN CallTo(r, "deleting", c.d, None, None)
     ELSE IF Cardinality(Admins) <= 1 THEN CallEnds(r) ELSE CallTo(r, "revoking", c.d, None, c.row)
  /\ UNCHANGED <<account, entry, regime>>

CountsAdmins(r) ==
  LET c == call[r] IN
  /\ At(r, "counting")
  /\ IF Cardinality(Admins) <= 1 THEN CallEnds(r)
     ELSE CallTo(r, IF c.row = None THEN "deleting" ELSE "revoking", c.d, None, c.row)
  /\ UNCHANGED <<account, entry, regime>>

(* Repository.save of a row that is gone inserts it, and fails: the         *)
(* password was not read.                                                  *)
SaveDelegate(r) ==
  LET c == call[r] IN
  /\ At(r, "saving") \/ At(r, "revoking")
  /\ account' = IF Exists(c.d) THEN [account EXCEPT ![c.d] = c.row] ELSE account
  /\ CallEnds(r)
  /\ UNCHANGED <<entry, regime>>

(* Slip: the invite is not released.                                       *)
DeleteKeepsClaim(r) ==
  /\ At(r, "deleting")
  /\ account' = [account EXCEPT ![call[r].d] = None]
  /\ CallEnds(r)
  /\ UNCHANGED <<entry, regime>>

(* deleteAccount, one transaction: the invite is released, the row goes.    *)
DeleteCommits(r) ==
  LET d == call[r].d IN
  /\ At(r, "deleting")
  /\ account' = [account EXCEPT ![d] = None]
  /\ entry' = [e \in Entries |->
       IF e \in Rows /\ entry[e].by = d THEN [entry[e] EXCEPT !.by = None] ELSE entry[e]]
  /\ CallEnds(r)
  /\ UNCHANGED regime

(* approveAll reads who waits, only to tell them.                           *)
ApproveAllReads(r) ==
  /\ MayStart(call, r)
  /\ \E d \in Delegates : Exists(d) /\ account[d].pending
  /\ CallTo(r, "approving", None, None, None)
  /\ UNCHANGED <<account, entry, regime>>

ApproveAll(r) ==
  /\ At(r, "approving")
  /\ account' = [d \in Delegates |-> IF Exists(d) THEN [account[d] EXCEPT !.pending = FALSE] ELSE None]
  /\ CallEnds(r)
  /\ UNCHANGED <<entry, regime>>

-----------------------------------------------------------------------------
(* The list: an address stands on it once.  A bound: a name is not taken    *)
(* again while an account has its tier from the entry that had it.          *)
FreeAddress(d, e) == d = None \/ \A x \in Rows \ {e} : entry[x].for # d

AddEntry(e, d, tier) ==
  /\ InTurn => Idle(call)
  /\ entry[e] = None /\ FreeAddress(d, e)
  /\ \A x \in Delegates : Exists(x) => account[x].via # e
  /\ entry' = [entry EXCEPT ![e] = [for |-> d, tier |-> tier, by |-> None]]
  /\ UNCHANGED <<account, call, regime>>

UpdateEntryReads(r, e, d, tier) ==
  /\ MayStart(call, r) /\ e \in Rows
  /\ CallTo(r, "saveEntry", None, e, [entry[e] EXCEPT !.for = d, !.tier = tier])
  /\ UNCHANGED <<account, entry, regime>>

(* Repository.save again: an entry that is gone is inserted anew.           *)
SaveEntry(r) ==
  LET c == call[r] IN
  /\ At(r, "saveEntry")
  /\ entry' = IF FreeAddress(c.row.for, c.e) THEN [entry EXCEPT ![c.e] = c.row] ELSE entry
  /\ CallEnds(r)
  /\ UNCHANGED <<account, regime>>

DeleteEntry(e) ==
  /\ InTurn => Idle(call)
  /\ e \in Rows
  /\ entry' = [entry EXCEPT ![e] = None]
  /\ UNCHANGED <<account, call, regime>>

CallDies(r) ==
  /\ MayDie /\ call[r] # None
  /\ CallEnds(r)
  /\ UNCHANGED <<account, entry, regime>>

AccountsNext ==
  \/ \E r \in AccountCalls :
       \/ CreateDelegate(r) \/ ClaimRegistration(r) \/ CountsAdmins(r) \/ SaveDelegate(r)
       \/ DeleteCommits(r) \/ ApproveAllReads(r) \/ ApproveAll(r) \/ SaveEntry(r) \/ CallDies(r)
       \/ \E d \in Delegates :
            \/ SetApproval(r, d) \/ UpdateProfile(r, d) \/ DeleteReads(r, d)
            \/ \E e \in Entries \cup {None} : RegisterReads(r, d, e)
            \/ \E role \in Staff : CreateStaffReads(r, d, role) \/ GrantAdmin(r, d, role)
            \/ \E tier \in Grantable : SetTier(r, d, tier)
            \/ \E by \in Delegates : RevokeAdmin(r, d, by)
       \/ \E e \in Entries, d \in Delegates \cup {None}, tier \in Grantable : UpdateEntryReads(r, e, d, tier)
  \/ \E e \in Entries : \/ DeleteEntry(e)
                        \/ \E d \in Delegates \cup {None}, tier \in Grantable : AddEntry(e, d, tier)

AccountsSpec == AccountsInit /\ [][AccountsNext]_accountsVars

-----------------------------------------------------------------------------
AccountsTypeOK ==
  /\ account \in [Delegates -> AccountRows \cup {None}]
  /\ entry \in [Entries -> EntryRows \cup {None}]
  /\ call \in [AccountCalls -> Calls \cup {None}] /\ regime \in Regimes

(* "same guard as revoking admin: never let the platform lose its last     *)
(* admin" (line 1152): while one request is served at a time, neither a     *)
(* revocation nor a deletion takes the last one, whichever is lost midway;  *)
(* what can is a save that counts nobody.                                  *)
LosesLastAdmin == Admins # {} /\ Admins' = {}
AdminsAreGuarded ==
  [][InTurn /\ LosesLastAdmin => \E r \in AccountCalls : At(r, "saving")]_accountsVars

(* An invite lets one person in (matchRegistration, claimRegistration): one *)
(* at a time, an entry is claimed by exactly the account that has its tier  *)
(* from it, and is free again when that account is deleted.                 *)
EntriesGrantOnce ==
  regime = "single" /\ Idle(call) => \A e \in Rows, d \in Delegates :
    entry[e].by = d <=> Exists(d) /\ account[d].via = e
=============================================================================
