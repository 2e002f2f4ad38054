------------------------------- MODULE Tokens -------------------------------
(***************************************************************************)
(* One delegate's refresh tokens (auth.service.ts): login, rotation by     *)
(* refresh, the reuse that revokes everything, logout and password reset.  *)
(*                                                                         *)
(* A token that was handed out may be presented by anyone who ever held a  *)
(* copy of it, in any order and any number of times.  Rows are never       *)
(* deleted while the account stands, and no token expires within a run.    *)
(* Each "Slip:" is a plausible wrong version of what follows it.           *)
(***************************************************************************)
EXTENDS Naturals, Sequences, Requests

CONSTANTS AuthCalls,
          MaxTokens, MaxEras \* bounds

ASSUME TokenBounds == MaxTokens \in Nat /\ MaxEras \in Nat

VARIABLES
  token,  \* refresh_tokens, in the order they were saved
  handed, \* the tokens whose answer reached a client
  era,    \* how often everything was revoked: history
  auth    \* requests under way

tokensVars == <<token, handed, era, auth, regime>>

(* Of a row, consumedAt and revokedAt; and, as history, the token it was    *)
(* issued for, or 0, the login both come from, and the era of that login.  *)
TokenRows == [consumed : BOOLEAN, revoked : BOOLEAN, from : Nat, root : Nat, era : Nat]
AuthRecords == [pc : {"issuing", "marking", "answering", "revoking", "revokingAgain"},
                old : Nat, new : Nat]

ASSUME NoneIsNoAuth == None \notin AuthRecords

Live(t) == ~token[t].consumed /\ ~token[t].revoked

TokensInit ==
  /\ token = <<>> /\ handed = {}
  /\ era = 0
  /\ auth = [r \in AuthCalls |-> None]
  /\ regime \in Regimes

AuthTo(r, pc, old, new) == auth' = [auth EXCEPT ![r] = [pc |-> pc, old |-> old, new |-> new]]
AuthEnds(r) == auth' = [auth EXCEPT ![r] = None]

-----------------------------------------------------------------------------
Login(r) ==
  /\ MayStart(auth, r)
  /\ AuthTo(r, "issuing", 0, 0)
  /\ UNCHANGED <<token, handed, era, regime>>

(* A revoked token is refused; of the others a consumed one is theft.      *)
RefreshRead(r, t) ==
  /\ MayStart(auth, r)
  /\ t \in handed /\ ~token[t].revoked
  /\ token[t].consumed => era < MaxEras
  /\ AuthTo(r, IF token[t].consumed THEN "revoking" ELSE "issuing", t, 0)
  /\ UNCHANGED <<token, handed, era, regime>>

(* Slip: a reuse revokes the login it belongs to and no other.              *)
RevokeFamily(r) ==
  LET old == auth[r].old IN
  /\ auth[r] # None /\ auth[r].pc \in {"revoking", "revokingAgain"}
  /\ token' = [t \in DOMAIN token |->
       IF Live(t) /\ (old = 0 \/ token[t].root = token[old].root)
       THEN [token[t] EXCEPT !.revoked = TRUE] ELSE token[t]]
  /\ IF auth[r].pc = "revoking"
     THEN AuthTo(r, "revokingAgain", auth[r].old, 0) /\ UNCHANGED era
     ELSE AuthEnds(r) /\ era' = era + 1
  /\ UNCHANGED <<handed, regime>>

(* update ... where revokedAt is null and consumedAt is null: twice by a    *)
(* refresh that met a reuse, once by a reset after the password and the     *)
(* code.                                                                   *)
RevokeAll(r) ==
  /\ auth[r] # None /\ auth[r].pc \in {"revoking", "revokingAgain"}
  /\ token' = [t \in DOMAIN token |-> IF Live(t) THEN [token[t] EXCEPT !.revoked = TRUE] ELSE token[t]]
  /\ IF auth[r].pc = "revoking"
     THEN AuthTo(r, "revokingAgain", auth[r].old, 0) /\ UNCHANGED era
     ELSE AuthEnds(r) /\ era' = era + 1
  /\ UNCHANGED <<handed, regime>>

ResetPassword(r) ==
  /\ MayStart(auth, r) /\ era < MaxEras
  /\ AuthTo(r, "revokingAgain", 0, 0)
  /\ UNCHANGED <<token, handed, era, regime>>

(* Slip: the save is not waited for, and fails.                             *)
IssueTokensUnsaved(r) ==
  /\ auth[r] # None /\ auth[r].pc = "issuing" /\ Len(token) < MaxTokens
  /\ AuthTo(r, IF auth[r].old = 0 THEN "answering" ELSE "marking", auth[r].old, Len(token) + 1)
  /\ UNCHANGED <<token, handed, era, regime>>

(* issueTokens: the new row, of no family but that of the token presented.  *)
IssueTokens(r) ==
  LET old == auth[r].old
      new == Len(token) + 1
  IN
  /\ auth[r] # None /\ auth[r].pc = "issuing"
  /\ new <= MaxTokens
  /\ token' = Append(token,
       [consumed |-> FALSE, revoked |-> FALSE, from |-> old,
        root |-> IF old = 0 THEN new ELSE token[old].root,
        era  |-> IF old = 0 THEN era ELSE token[old].era])
  /\ AuthTo(r, IF old = 0 THEN "answering" ELSE "marking", old, new)
  /\ UNCHANGED <<handed, era, regime>>

MarkConsumed(r) ==
  LET old == auth[r].old IN
  /\ auth[r] # None /\ auth[r].pc = "marking"
  /\ token' = [token EXCEPT ![old].consumed = TRUE]
  /\ AuthTo(r, "answering", old, auth[r].new)
  /\ UNCHANGED <<handed, era, regime>>

TokensAnswer(r) ==
  /\ auth[r] # None /\ auth[r].pc = "answering"
  /\ handed' = handed \cup {auth[r].new}
  /\ AuthEnds(r)
  /\ UNCHANGED <<token, era, regime>>

(* logout revokes the one row, whatever became of it; the access token it   *)
(* puts on a list is looked up nowhere.                                    *)
Logout(t) ==
  /\ InTurn => Idle(auth)
  /\ t \in handed
  /\ token' = [token EXCEPT ![t].revoked = TRUE]
  /\ UNCHANGED <<handed, era, auth, regime>>

AuthDies(r) ==
  /\ MayDie /\ auth[r] # None
  /\ AuthEnds(r)
  /\ UNCHANGED <<token, handed, era, regime>>

TokensNext ==
  \/ \E r \in AuthCalls :
       \/ Login(r) \/ ResetPassword(r) \/ RevokeAll(r) \/ IssueTokens(r)
       \/ MarkConsumed(r) \/ TokensAnswer(r) \/ AuthDies(r)
       \/ \E t \in DOMAIN token : RefreshRead(r, t)
  \/ \E t \in DOMAIN token : Logout(t)

TokensSpec == TokensInit /\ [][TokensNext]_tokensVars

-----------------------------------------------------------------------------
TokensTypeOK ==
  /\ token \in Seq(TokenRows) /\ handed \subseteq DOMAIN token
  /\ era \in Nat /\ regime \in Regimes
  /\ auth \in [AuthCalls -> AuthRecords \cup {None}]
  /\ \A t \in DOMAIN token : token[t].from < t /\ token[t].root <= t

(* Rotation and its alarm (lines 70-137, 214-241).  One request at a time,  *)
(* whatever copies of tokens come back and whichever request is lost: what *)
(* is live was logged in after the last time everything was revoked, and a *)
(* token whose successor a client holds is of no more use.  When none is   *)
(* lost either, a login has one live token at most.                        *)
SessionsRotate ==
  InTurn /\ Idle(auth) =>
    /\ \A t \in DOMAIN token : Live(t) => token[t].era = era
    /\ \A t \in DOMAIN token, u \in handed : token[u].from = t => ~Live(t)
    /\ regime = "single" => \A t, u \in DOMAIN token :
         Live(t) /\ Live(u) /\ token[t].root = token[u].root => t = u
=============================================================================
