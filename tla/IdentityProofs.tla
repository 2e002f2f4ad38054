-------------------------- MODULE IdentityProofs --------------------------
(***************************************************************************)
(* Proofs about who a caller is and what that opens: the refresh tokens of *)
(* Tokens, the one-time codes of Codes, the accounts and entries of        *)
(* Accounts and the access tokens of Access.  Each component is taken      *)
(* alone, with its own specification.                                      *)
(***************************************************************************)
EXTENDS Tokens, Codes, Accounts, Access, FiniteSetTheorems, TLAPS

-----------------------------------------------------------------------------
(* Access tokens.  A token carries the tier of the account, or one it had   *)
(* until a moment after which the token lasts no longer than AccessTtl.     *)
Backed(p) ==
  /\ now < p.exp /\ p.exp <= now + AccessTtl
  /\ p.role = role \/ (lastHeld[p.role] # None /\ p.exp <= lastHeld[p.role] + AccessTtl)

(* What is read and about to be signed was held within this unit of time.   *)
RightsInv ==
  /\ AccessTypeOK
  /\ signing # None => signing = role \/ lastHeld[signing] = now
  /\ \A p \in passes : Backed(p)

LEMMA RightsStep == RightsInv /\ [AccessNext]_accessVars => RightsInv'
<1> SUFFICES ASSUME RightsInv, [AccessNext]_accessVars PROVE RightsInv'
  OBVIOUS
<1> USE AccessBounds, NoneIsNoTime
<1>t. /\ now \in 0..MaxNow /\ lastHeld \in [Roles -> 0..MaxNow \cup {None}]
      /\ \A p \in passes : p \in Passes /\ p.role \in Roles /\ p.exp \in Nat /\ Backed(p)
  BY DEF RightsInv, AccessTypeOK, Passes
<1>1. ASSUME NEW r \in Roles \cup {None}, role # None, role' = r, lastHeld' = [lastHeld EXCEPT ![role] = now],
             UNCHANGED <<now, signing, passes, regime>>
      PROVE  RightsInv'
  <2>1. role \in Roles
    BY <1>1 DEF RightsInv, AccessTypeOK
  <2>2. /\ lastHeld' \in [Roles -> 0..MaxNow \cup {None}] /\ lastHeld'[role] = now /\ now # None
        /\ \A q \in Roles : q # role => lastHeld'[q] = lastHeld[q]
    BY <1>1, <1>t, <2>1
  <2>3. AccessTypeOK'
    BY <1>1, <2>2 DEF RightsInv, AccessTypeOK
  <2>4. signing' # None => signing' = role' \/ lastHeld'[signing'] = now'
    BY <1>1, <2>2 DEF RightsInv, AccessTypeOK
  <2>5. ASSUME NEW p \in passes PROVE Backed(p)'
    BY <1>1, <1>t, <2>1, <2>2 DEF Backed
  <2> QED  BY <1>1, <2>3, <2>4, <2>5 DEF RightsInv
<1>2. CASE ReadsDelegate
  BY <1>2 DEF ReadsDelegate, RightsInv, AccessTypeOK, Backed
<1>3. CASE SignsAccess
  <2>1. PICK new : new = [role |-> signing, exp |-> now + AccessTtl]
    OBVIOUS
  <2>2. /\ signing \in Roles /\ signing' = None /\ passes' = passes \cup {new}
        /\ UNCHANGED <<now, role, lastHeld, regime>>
    BY <1>3, <2>1 DEF SignsAccess, RightsInv, AccessTypeOK
  <2>3. new \in Passes
    BY <1>t, <2>1, <2>2 DEF Passes
  <2>4. Backed(new)'
    BY <1>3, <1>t, <2>1, <2>2 DEF SignsAccess, RightsInv, Backed
  <2>5. \A p \in passes : Backed(p)'
    BY <1>t, <2>2 DEF Backed
  <2>6. AccessTypeOK'
    BY <2>2, <2>3 DEF RightsInv, AccessTypeOK
  <2> QED  BY <2>2, <2>4, <2>5, <2>6 DEF RightsInv
<1>4. CASE Tick
  <2>1. /\ signing = None /\ now' = now + 1 /\ now' \in 0..MaxNow /\ passes' = {p \in passes : p.exp > now + 1}
        /\ UNCHANGED <<role, lastHeld, signing, regime>>
    BY <1>4, <1>t DEF Tick
  <2>2. ASSUME NEW p \in passes' PROVE Backed(p)'
    BY <1>t, <2>1 DEF Backed
  <2> QED  BY <2>1, <2>2 DEF RightsInv, AccessTypeOK
<1>5. CASE UNCHANGED accessVars
  BY <1>5 DEF accessVars, RightsInv, AccessTypeOK, Backed
<1> QED  BY <1>1, <1>2, <1>3, <1>4, <1>5 DEF AccessNext, RoleChanges, AccountGoes

LEMMA RightsHold == AccessSpec => []RightsInv
<1>1. AccessInit => RightsInv
  BY AccessBounds DEF AccessInit, RightsInv, AccessTypeOK
<1> QED  BY <1>1, RightsStep, PTL DEF AccessSpec

(* Type correctness of the access tokens, for any lifetime and clock.       *)
THEOREM AccessTypeCorrect == AccessSpec => []AccessTypeOK
<1>1. RightsInv => AccessTypeOK
  BY DEF RightsInv
<1> QED  BY <1>1, RightsHold, PTL

(* A right that was taken away is gone AccessTtl later, however tokens are  *)
(* renewed meanwhile (issueTokens, and guards that ask the token alone).    *)
THEOREM RightsEnd == AccessSpec => []RightsLapse
<1>1. ASSUME RightsInv PROVE RightsLapse
  <2>1. ASSUME NEW p \in passes
        PROVE  p.role = role \/ (lastHeld[p.role] # None /\ now < lastHeld[p.role] + AccessTtl)
    BY <1>1, AccessBounds DEF RightsInv, AccessTypeOK, Passes, Backed
  <2> QED  BY <2>1 DEF RightsLapse
<1> QED  BY <1>1, RightsHold, PTL

-----------------------------------------------------------------------------
(* Refresh tokens.  A request speaks of tokens that were issued, and of its *)
(* own new one, which was issued for the old one.                          *)
Refers(c) ==
  /\ c.old = 0 \/ c.old \in DOMAIN token
  /\ c.pc = "marking" => c.old \in DOMAIN token
  /\ c.pc \in {"marking", "answering"} => c.new \in DOMAIN token /\ token[c.new].from = c.old

(* One request at a time: a token is replaced while it is live, and is of   *)
(* no use when its successor is answered.                                  *)
Rotating(c) ==
  c.old # 0 => /\ c.pc = "issuing" => Live(c.old)
               /\ c.pc = "answering" => ~Live(c.old)

OneCall == InTurn => \A q, r \in AuthCalls : auth[q] # None /\ auth[r] # None => q = r

Superseded(t, u) == \E r \in AuthCalls : /\ auth[r] # None /\ auth[r].pc = "marking"
                                         /\ {t, u} = {auth[r].old, auth[r].new}

SessionsInv ==
  /\ TokensTypeOK /\ OneCall
  /\ \A r \in AuthCalls : auth[r] # None => Refers(auth[r])
  /\ InTurn =>
       /\ \A t \in DOMAIN token : Live(t) => token[t].era = era
       /\ \A u \in handed : token[u].from # 0 => ~Live(token[u].from)
       /\ \A r \in AuthCalls : auth[r] # None => Rotating(auth[r])
  /\ regime = "single" => \A t, u \in DOMAIN token :
       Live(t) /\ Live(u) /\ token[t].root = token[u].root => t = u \/ Superseded(t, u)

(* What a step that only marks rows as consumed or revoked keeps.           *)
Marked ==
  /\ token' \in Seq(TokenRows) /\ DOMAIN token' = DOMAIN token
  /\ \A t \in DOMAIN token :
       /\ token'[t].from = token[t].from /\ token'[t].root = token[t].root /\ token'[t].era = token[t].era
       /\ token[t].consumed => token'[t].consumed
       /\ token[t].revoked => token'[t].revoked

LEMMA MarkOne ==
  ASSUME TokensTypeOK, NEW t \in DOMAIN token, NEW consumed \in BOOLEAN, NEW revoked \in BOOLEAN,
         token[t].consumed => consumed, token[t].revoked => revoked,
         token' = [token EXCEPT ![t] = [token[t] EXCEPT !.consumed = consumed, !.revoked = revoked]]
  PROVE  Marked /\ token'[t].consumed = consumed /\ token'[t].revoked = revoked
<1> DEFINE x == [token[t] EXCEPT !.consumed = consumed, !.revoked = revoked]
<1>1. token[t] \in TokenRows /\ token \in Seq(TokenRows)
  BY DEF TokensTypeOK
<1>2. /\ x \in TokenRows /\ x.from = token[t].from /\ x.root = token[t].root /\ x.era = token[t].era
      /\ x.consumed = consumed /\ x.revoked = revoked
  BY <1>1 DEF TokenRows
<1> HIDE DEF x
<1>3. token' = [token EXCEPT ![t] = x]
  BY DEF x
<1>4. token' \in Seq(TokenRows) /\ DOMAIN token' = DOMAIN token
  BY <1>1, <1>2, <1>3
<1>5. token'[t] = x /\ \A u \in DOMAIN token : u # t => token'[u] = token[u]
  BY <1>1, <1>3
<1>6. \A u \in DOMAIN token :
       /\ token'[u].from = token[u].from /\ token'[u].root = token[u].root /\ token'[u].era = token[u].era
       /\ token[u].consumed => token'[u].consumed
       /\ token[u].revoked => token'[u].revoked
  <2> SUFFICES ASSUME NEW u \in DOMAIN token
               PROVE  /\ token'[u].from = token[u].from /\ token'[u].root = token[u].root /\ token'[u].era = token[u].era
                      /\ token[u].consumed => token'[u].consumed
                      /\ token[u].revoked => token'[u].revoked
    OBVIOUS
  <2> QED  BY <1>2, <1>5
<1> QED  BY <1>2, <1>4, <1>5, <1>6 DEF Marked

LEMMA MarkAll ==
  ASSUME TokensTypeOK,
         token' = [t \in DOMAIN token |-> IF Live(t) THEN [token[t] EXCEPT !.revoked = TRUE] ELSE token[t]]
  PROVE  Marked /\ \A t \in DOMAIN token : ~Live(t)'
<1>1. token \in Seq(TokenRows) /\ \A t \in DOMAIN token : token[t] \in TokenRows
  BY DEF TokensTypeOK
<1>2. ASSUME NEW t \in DOMAIN token
      PROVE  /\ token'[t] \in TokenRows
             /\ token'[t].from = token[t].from /\ token'[t].root = token[t].root /\ token'[t].era = token[t].era
             /\ token[t].consumed => token'[t].consumed
             /\ token[t].revoked => token'[t].revoked
             /\ token'[t].consumed \/ token'[t].revoked
  <2> DEFINE x == [token[t] EXCEPT !.revoked = TRUE]
  <2>1. /\ x \in TokenRows /\ x.from = token[t].from /\ x.root = token[t].root /\ x.era = token[t].era
        /\ x.consumed = token[t].consumed /\ x.revoked = TRUE
    BY <1>1 DEF TokenRows
  <2>2. token'[t] = IF Live(t) THEN x ELSE token[t]
    OBVIOUS
  <2> HIDE DEF x
  <2>3. CASE Live(t)
    BY <2>1, <2>2, <2>3
  <2>4. CASE ~Live(t)
    BY <1>1, <2>2, <2>4 DEF Live
  <2> QED  BY <2>3, <2>4
<1>3. DOMAIN token' = DOMAIN token /\ DOMAIN token = 1..Len(token) /\ Len(token) \in Nat
  BY <1>1
<1>4. token' \in [1..Len(token) -> TokenRows]
  BY <1>2, <1>3
<1>5. token' \in Seq(TokenRows)
  BY <1>3, <1>4
<1> QED  BY <1>2, <1>3, <1>5 DEF Marked, Live

(* A step of one call: where they take turns there is no other.             *)
LEMMA OneCallStep ==
  ASSUME SessionsInv, NEW r \in AuthCalls, auth[r] # None \/ MayStart(auth, r),
         NEW x \in AuthRecords \cup {None}, auth' = [auth EXCEPT ![r] = x], regime' = regime
  PROVE  /\ auth' \in [AuthCalls -> AuthRecords \cup {None}] /\ auth'[r] = x
         /\ \A q \in AuthCalls : q # r => auth'[q] = auth[q]
         /\ InTurn => \A q \in AuthCalls : q # r => auth[q] = None
         /\ OneCall'
<1>1. /\ auth' \in [AuthCalls -> AuthRecords \cup {None}] /\ auth'[r] = x
      /\ \A q \in AuthCalls : q # r => auth'[q] = auth[q]
  BY DEF SessionsInv, TokensTypeOK
<1>2. InTurn => \A q \in AuthCalls : q # r => auth[q] = None
  BY DEF SessionsInv, TokensTypeOK, OneCall, MayStart, Idle
<1> QED  BY <1>1, <1>2 DEF OneCall, InTurn

(* What marks alone change: less is live, and nothing else.                 *)
LEMMA MarkedKeeps ==
  ASSUME SessionsInv, Marked, UNCHANGED <<handed, regime>>, era' \in Nat,
         auth' \in [AuthCalls -> AuthRecords \cup {None}]
  PROVE  /\ TokensTypeOK'
         /\ \A c : Refers(c) => Refers(c)'
         /\ \A t \in DOMAIN token : Live(t)' => Live(t)
         /\ InTurn => \A u \in handed' : token'[u].from # 0 => ~Live(token[u].from)'
<1>1. TokensTypeOK'
  BY DEF SessionsInv, TokensTypeOK, Marked
<1>2. \A c : Refers(c) => Refers(c)'
  BY DEF Marked, Refers
<1>3. \A t \in DOMAIN token : Live(t)' => Live(t)
  BY DEF Marked, Live
<1>4. ASSUME InTurn, NEW u \in handed', token'[u].from # 0 PROVE ~Live(token[u].from)'
  <2>1. u \in DOMAIN token /\ u \in Nat /\ token[u] \in TokenRows /\ token[u].from < u
    BY DEF SessionsInv, TokensTypeOK
  <2>2. PICK t : t = token[u].from /\ t = token'[u].from
    BY <2>1 DEF Marked
  <2>3. t \in DOMAIN token
    <3>1. DOMAIN token = 1..Len(token) /\ Len(token) \in Nat
      BY DEF SessionsInv, TokensTypeOK
    <3>2. t \in Nat /\ t # 0
      BY <1>4, <2>1, <2>2 DEF TokenRows
    <3> QED  BY <2>1, <2>2, <3>1, <3>2
  <2>4. ~Live(t)
    BY <1>4, <2>2 DEF SessionsInv, InTurn
  <2>5. ~Live(t)'
    BY <1>3, <2>3, <2>4
  <2> QED  BY <2>2, <2>5 DEF Live
<1> QED  BY <1>1, <1>2, <1>3, <1>4

LEMMA SessionsStep == SessionsInv /\ [TokensNext]_tokensVars => SessionsInv'
<1> SUFFICES ASSUME SessionsInv, [TokensNext]_tokensVars PROVE SessionsInv'
  OBVIOUS
<1>t. /\ token \in Seq(TokenRows) /\ DOMAIN token = 1..Len(token) /\ Len(token) \in Nat /\ handed \subseteq DOMAIN token
      /\ era \in Nat /\ \A t \in DOMAIN token : token[t] \in TokenRows /\ token[t].from < t /\ token[t].root <= t
      /\ \A r \in AuthCalls : auth[r] # None => auth[r] \in AuthRecords /\ Refers(auth[r])
  BY DEF SessionsInv, TokensTypeOK
<1>r. InTurn' <=> InTurn
  BY DEF InTurn, TokensNext, tokensVars, Login, ResetPassword, RevokeAll, IssueTokens, MarkConsumed, TokensAnswer,
         AuthDies, RefreshRead, Logout
(* Steps that leave the tokens alone.                                       *)
<1>1. ASSUME NEW r \in AuthCalls, auth[r] # None \/ MayStart(auth, r), auth[r] # None => auth[r].pc # "marking" \/ MayDie,
             NEW x \in AuthRecords \cup {None},
             auth' = [auth EXCEPT ![r] = x], UNCHANGED <<token, era, regime>>, handed' \subseteq DOMAIN token,
             x # None => Refers(x) /\ (InTurn => Rotating(x)),
             InTurn => \A u \in handed' : token[u].from # 0 => ~Live(token[u].from)
      PROVE  SessionsInv'
  <2>1. /\ auth' \in [AuthCalls -> AuthRecords \cup {None}] /\ auth'[r] = x
        /\ \A q \in AuthCalls : q # r => auth'[q] = auth[q]
        /\ InTurn => \A q \in AuthCalls : q # r => auth[q] = None
        /\ OneCall'
    BY <1>1, OneCallStep
  <2>2. TokensTypeOK'
    BY <1>1, <1>t, <2>1 DEF SessionsInv, TokensTypeOK
  <2>3. \A q \in AuthCalls : auth'[q] # None => Refers(auth[q])'
    BY <1>1, <1>t, <2>1 DEF Refers
  <2>4. \A t \in DOMAIN token : Live(t)' <=> Live(t)
    BY <1>1 DEF Live
  <2>5. InTurn => /\ \A t \in DOMAIN token' : Live(t)' => token'[t].era = era'
                  /\ \A u \in handed' : token'[u].from # 0 => ~Live(token[u].from)'
    BY <1>1, <2>4 DEF SessionsInv, Live
  <2>6. ASSUME InTurn, NEW q \in AuthCalls, auth'[q] # None PROVE Rotating(auth[q])'
    <3>1. q = r /\ auth'[q] = x
      BY <2>1, <2>6
    <3> QED  BY <1>1, <2>6, <3>1 DEF Rotating, Live
  <2>7. ASSUME regime = "single", NEW t \in DOMAIN token, NEW u \in DOMAIN token, Superseded(t, u) PROVE Superseded(t, u)'
    <3>1. PICK q \in AuthCalls : auth[q] # None /\ auth[q].pc = "marking" /\ {t, u} = {auth[q].old, auth[q].new}
      BY <2>7 DEF Superseded
    <3>2. q # r
      BY <1>1, <2>7, <2>1, <3>1 DEF MayDie, MayStart
    <3> QED  BY <2>1, <3>1, <3>2 DEF Superseded
  <2>8. regime' = "single" => \A t, u \in DOMAIN token' :
          Live(t)' /\ Live(u)' /\ token'[t].root = token'[u].root => t = u \/ Superseded(t, u)'
    BY <1>1, <2>4, <2>7 DEF SessionsInv
  <2> QED  BY <1>r, <2>1, <2>2, <2>3, <2>5, <2>6, <2>8 DEF SessionsInv
<1>2. ASSUME NEW r \in AuthCalls, Login(r) \/ ResetPassword(r) PROVE SessionsInv'
  <2>1. PICK pc \in {"issuing", "revokingAgain"} : auth' = [auth EXCEPT ![r] = [pc |-> pc, old |-> 0, new |-> 0]]
    BY <1>2 DEF Login, ResetPassword, AuthTo
  <2> DEFINE x == [pc |-> pc, old |-> 0, new |-> 0]
  <2>2. x \in AuthRecords /\ Refers(x) /\ Rotating(x)
    BY DEF AuthRecords, Refers, Rotating
  <2>3. MayStart(auth, r) /\ auth[r] = None /\ UNCHANGED <<token, handed, era, regime>>
    BY <1>2 DEF Login, ResetPassword, MayStart
  <2> HIDE DEF x
  <2>4. auth' = [auth EXCEPT ![r] = x]
    BY <2>1 DEF x
  <2>5. InTurn => \A u \in handed' : token[u].from # 0 => ~Live(token[u].from)
    BY <2>3 DEF SessionsInv
  <2> QED  BY <1>1, <1>t, <2>2, <2>3, <2>4, <2>5
<1>3. ASSUME NEW r \in AuthCalls, NEW t \in DOMAIN token, RefreshRead(r, t) PROVE SessionsInv'
  <2>1. PICK pc \in {"issuing", "revoking"} : /\ auth' = [auth EXCEPT ![r] = [pc |-> pc, old |-> t, new |-> 0]]
                                              /\ pc = "issuing" => ~token[t].consumed
    BY <1>3 DEF RefreshRead, AuthTo
  <2> DEFINE x == [pc |-> pc, old |-> t, new |-> 0]
  <2>2. MayStart(auth, r) /\ auth[r] = None /\ ~token[t].revoked /\ UNCHANGED <<token, handed, era, regime>>
    BY <1>3 DEF RefreshRead, MayStart
  <2>3. x \in AuthRecords /\ Refers(x) /\ Rotating(x)
    BY <1>t, <2>1, <2>2 DEF AuthRecords, Refers, Rotating, Live
  <2> HIDE DEF x
  <2>4. auth' = [auth EXCEPT ![r] = x]
    BY <2>1 DEF x
  <2>5. InTurn => \A u \in handed' : token[u].from # 0 => ~Live(token[u].from)
    BY <2>2 DEF SessionsInv
  <2> QED  BY <1>1, <1>t, <2>2, <2>3, <2>4, <2>5
<1>4. ASSUME NEW r \in AuthCalls, TokensAnswer(r) PROVE SessionsInv'
  <2>1. /\ auth[r] # None /\ auth[r].pc = "answering" /\ handed' = handed \cup {auth[r].new}
        /\ auth' = [auth EXCEPT ![r] = None] /\ UNCHANGED <<token, era, regime>>
    BY <1>4 DEF TokensAnswer, AuthEnds
  <2>2. auth[r].new \in DOMAIN token /\ token[auth[r].new].from = auth[r].old
    BY <1>t, <2>1 DEF Refers
  <2>3. InTurn => \A u \in handed' : token[u].from # 0 => ~Live(token[u].from)
    BY <2>1, <2>2 DEF SessionsInv, Rotating
  <2>4. handed' \subseteq DOMAIN token
    BY <1>t, <2>1, <2>2
  <2> QED  BY <1>1, <2>1, <2>3, <2>4
<1>5. ASSUME NEW r \in AuthCalls, AuthDies(r) PROVE SessionsInv'
  <2>1. MayDie /\ auth[r] # None /\ auth' = [auth EXCEPT ![r] = None] /\ UNCHANGED <<token, handed, era, regime>>
    BY <1>5 DEF AuthDies, AuthEnds
  <2>2. InTurn => \A u \in handed' : token[u].from # 0 => ~Live(token[u].from)
    BY <2>1 DEF SessionsInv
  <2> QED  BY <1>1, <1>t, <2>1, <2>2
<1>6. ASSUME NEW r \in AuthCalls, RevokeAll(r) PROVE SessionsInv'
  <2>1. /\ auth[r] # None /\ auth[r].pc \in {"revoking", "revokingAgain"}
        /\ token' = [t \in DOMAIN token |-> IF Live(t) THEN [token[t] EXCEPT !.revoked = TRUE] ELSE token[t]]
        /\ era' \in Nat /\ UNCHANGED <<handed, regime>>
    BY <1>6, <1>t DEF RevokeAll
  <2>2. PICK x \in AuthRecords \cup {None} : /\ auth' = [auth EXCEPT ![r] = x]
                                             /\ x # None => x.pc = "revokingAgain" /\ x.old = auth[r].old
    <3> DEFINE y == [pc |-> "revokingAgain", old |-> auth[r].old, new |-> 0]
    <3>1. y \in AuthRecords /\ y.pc = "revokingAgain" /\ y.old = auth[r].old
      BY <1>t, <2>1 DEF AuthRecords
    <3>2. auth' = [auth EXCEPT ![r] = y] \/ auth' = [auth EXCEPT ![r] = None]
      BY <1>6 DEF RevokeAll, AuthTo, AuthEnds
    <3> HIDE DEF y
    <3> QED  BY <3>1, <3>2
  <2>3. Marked /\ \A t \in DOMAIN token : ~Live(t)'
    BY <2>1, MarkAll DEF SessionsInv
  <2>4. /\ auth' \in [AuthCalls -> AuthRecords \cup {None}] /\ auth'[r] = x
        /\ \A q \in AuthCalls : q # r => auth'[q] = auth[q]
        /\ InTurn => \A q \in AuthCalls : q # r => auth[q] = None
        /\ OneCall'
    BY <2>1, <2>2, OneCallStep
  <2>5. /\ TokensTypeOK' /\ \A c : Refers(c) => Refers(c)'
        /\ InTurn => \A u \in handed' : token'[u].from # 0 => ~Live(token[u].from)'
    BY <2>1, <2>3, <2>4, MarkedKeeps
  <2>6. \A q \in AuthCalls : auth'[q] # None => Refers(auth[q])'
    <3>1. x # None => Refers(x)
      BY <1>t, <2>1, <2>2 DEF Refers
    <3>2. ASSUME NEW q \in AuthCalls, auth'[q] # None PROVE Refers(auth[q])'
      <4>1. PICK c : c = auth'[q]
        OBVIOUS
      <4>2. Refers(c)'
        BY <1>t, <2>4, <2>5, <3>1, <3>2, <4>1
      <4> QED  BY <4>1, <4>2 DEF Refers
    <3> QED  BY <3>2
  <2>7. ASSUME InTurn, NEW q \in AuthCalls, auth'[q] # None PROVE Rotating(auth[q])'
    <3>1. auth'[q] = x
      BY <2>4, <2>7
    <3> QED  BY <2>2, <2>7, <3>1 DEF Rotating
  <2>8. DOMAIN token' = DOMAIN token
    BY <2>3 DEF Marked
  <2> QED  BY <1>r, <2>3, <2>4, <2>5, <2>6, <2>7, <2>8 DEF SessionsInv
<1>7. ASSUME NEW r \in AuthCalls, MarkConsumed(r) PROVE SessionsInv'
  <2> DEFINE x == [pc |-> "answering", old |-> auth[r].old, new |-> auth[r].new]
  <2>1. /\ auth[r] # None /\ auth[r].pc = "marking" /\ auth[r] \in AuthRecords /\ Refers(auth[r])
        /\ auth' = [auth EXCEPT ![r] = x] /\ UNCHANGED <<handed, era, regime>>
    BY <1>7, <1>t DEF MarkConsumed, AuthTo
  <2>2. PICK old : old = auth[r].old
    OBVIOUS
  <2>3. old \in DOMAIN token /\ token[old] \in TokenRows
    BY <1>t, <2>1, <2>2 DEF Refers
  <2>4. token' = [token EXCEPT ![old] = [token[old] EXCEPT !.consumed = TRUE, !.revoked = token[old].revoked]]
    <3>1. token' = [token EXCEPT ![old].consumed = TRUE]
      BY <1>7, <2>2 DEF MarkConsumed
    <3>2. [token[old] EXCEPT !.consumed = TRUE] = [token[old] EXCEPT !.consumed = TRUE, !.revoked = token[old].revoked]
      BY <2>3 DEF TokenRows
    <3> QED  BY <3>1, <3>2
  <2>5. token[old].consumed \in BOOLEAN /\ token[old].revoked \in BOOLEAN
    BY <2>3 DEF TokenRows
  <2>6. Marked /\ token'[old].consumed = TRUE
    BY <2>3, <2>4, <2>5, MarkOne DEF SessionsInv
  <2>7. x \in AuthRecords /\ x.pc = "answering" /\ x.old = old /\ Refers(x)
    BY <2>1, <2>2 DEF AuthRecords, Refers
  <2> HIDE DEF x
  <2>8. /\ auth' \in [AuthCalls -> AuthRecords \cup {None}] /\ auth'[r] = x
        /\ \A q \in AuthCalls : q # r => auth'[q] = auth[q]
        /\ InTurn => \A q \in AuthCalls : q # r => auth[q] = None
        /\ OneCall'
    BY <2>1, <2>7, OneCallStep
  <2>9. /\ TokensTypeOK' /\ \A c : Refers(c) => Refers(c)'
        /\ \A t \in DOMAIN token : Live(t)' => Live(t)
        /\ InTurn => \A u \in handed' : token'[u].from # 0 => ~Live(token[u].from)'
    BY <1>t, <2>1, <2>6, <2>8, MarkedKeeps
  <2>10. ASSUME NEW q \in AuthCalls, auth'[q] # None PROVE Refers(auth[q])'
    <3>1. PICK c : c = auth'[q]
      OBVIOUS
    <3>2. Refers(c)'
      BY <1>t, <2>7, <2>8, <2>9, <2>10, <3>1
    <3> QED  BY <3>1, <3>2 DEF Refers
  <2>11. ~Live(old)'
    BY <2>6 DEF Live
  <2>12. ASSUME InTurn, NEW q \in AuthCalls, auth'[q] # None PROVE Rotating(auth[q])'
    <3>1. auth'[q] = x
      BY <2>8, <2>12
    <3> QED  BY <2>7, <2>11, <3>1 DEF Rotating, Live
  <2>13. DOMAIN token' = DOMAIN token /\ \A t \in DOMAIN token : token'[t].era = token[t].era /\ token'[t].root = token[t].root
    BY <2>6 DEF Marked
  <2>14. InTurn => \A t \in DOMAIN token' : Live(t)' => token'[t].era = era'
    BY <2>1, <2>9, <2>13 DEF SessionsInv
  <2>15. ASSUME regime' = "single", NEW t \in DOMAIN token, NEW u \in DOMAIN token, Live(t)', Live(u)', token'[t].root = token'[u].root
         PROVE  t = u
    <3>1. t = u \/ Superseded(t, u)
      BY <2>1, <2>9, <2>13, <2>15 DEF SessionsInv
    <3>2. ASSUME Superseded(t, u) PROVE FALSE
      <4>1. PICK q \in AuthCalls : auth[q] # None /\ {t, u} = {auth[q].old, auth[q].new}
        BY <3>2 DEF Superseded
      <4>2. q = r
        BY <2>1, <2>8, <2>15, <4>1 DEF InTurn
      <4> QED  BY <2>2, <2>11, <2>15, <4>1, <4>2 DEF Live
    <3> QED  BY <3>1, <3>2
  <2> QED  BY <1>r, <2>8, <2>9, <2>10, <2>12, <2>13, <2>14, <2>15 DEF SessionsInv
<1>8. ASSUME NEW t \in DOMAIN token, Logout(t) PROVE SessionsInv'
  <2>1. token[t] \in TokenRows /\ UNCHANGED <<handed, era, auth, regime>> /\ (InTurn => \A r \in AuthCalls : auth[r] = None)
    BY <1>8, <1>t DEF Logout, Idle, SessionsInv, TokensTypeOK
  <2>2. token' = [token EXCEPT ![t] = [token[t] EXCEPT !.consumed = token[t].consumed, !.revoked = TRUE]]
    <3>1. token' = [token EXCEPT ![t].revoked = TRUE]
      BY <1>8 DEF Logout
    <3>2. [token[t] EXCEPT !.revoked = TRUE] = [token[t] EXCEPT !.consumed = token[t].consumed, !.revoked = TRUE]
      BY <2>1 DEF TokenRows
    <3> QED  BY <3>1, <3>2
  <2>3. token[t].consumed \in BOOLEAN /\ token[t].revoked \in BOOLEAN
    BY <2>1 DEF TokenRows
  <2>4. Marked
    BY <2>2, <2>3, MarkOne DEF SessionsInv
  <2>5. /\ TokensTypeOK' /\ \A c : Refers(c) => Refers(c)'
        /\ \A u \in DOMAIN token : Live(u)' => Live(u)
        /\ InTurn => \A u \in handed' : token'[u].from # 0 => ~Live(token[u].from)'
    BY <1>t, <2>1, <2>4, MarkedKeeps DEF SessionsInv, TokensTypeOK
  <2>6. DOMAIN token' = DOMAIN token /\ \A u \in DOMAIN token : token'[u].era = token[u].era /\ token'[u].root = token[u].root
    BY <2>4 DEF Marked
  <2>7. InTurn => \A u \in DOMAIN token' : Live(u)' => token'[u].era = era'
    BY <2>1, <2>5, <2>6 DEF SessionsInv
  <2>8. regime' = "single" => \A v, u \in DOMAIN token' : Live(v)' /\ Live(u)' /\ token'[v].root = token'[u].root => v = u
    BY <2>1, <2>5, <2>6 DEF SessionsInv, Superseded, InTurn
  <2>9. ASSUME NEW q \in AuthCalls, auth'[q] # None PROVE Refers(auth[q])'
    <3>1. PICK c : c = auth[q]
      OBVIOUS
    <3>2. Refers(c)'
      BY <1>t, <2>1, <2>5, <2>9, <3>1
    <3> QED  BY <2>1, <3>1, <3>2 DEF Refers
  <2>10. OneCall'
    BY <2>1 DEF SessionsInv, OneCall, InTurn
  <2> QED  BY <1>r, <2>1, <2>5, <2>7, <2>8, <2>9, <2>10 DEF SessionsInv
(* The new token is of its predecessor's login; a first one, of a new one.  *)
<1>9. ASSUME NEW r \in AuthCalls, IssueTokens(r) PROVE SessionsInv'
  <2>1. PICK old, n, root, tera :
          /\ old = auth[r].old /\ n = Len(token) + 1
          /\ root = (IF old = 0 THEN n ELSE token[old].root)
          /\ tera = (IF old = 0 THEN era ELSE token[old].era)
    OBVIOUS
  <2> DEFINE row == [consumed |-> FALSE, revoked |-> FALSE, from |-> old, root |-> root, era |-> tera]
             x   == [pc |-> IF old = 0 THEN "answering" ELSE "marking", old |-> old, new |-> n]
  <2>2. /\ auth[r] # None /\ auth[r].pc = "issuing" /\ auth[r] \in AuthRecords /\ Refers(auth[r])
        /\ token' = Append(token, row) /\ auth' = [auth EXCEPT ![r] = x] /\ UNCHANGED <<handed, era, regime>>
    BY <1>9, <1>t, <2>1 DEF IssueTokens, AuthTo
  <2>3. old = 0 \/ (old \in DOMAIN token /\ token[old] \in TokenRows /\ token[old].root <= old)
    BY <1>t, <2>1, <2>2 DEF Refers
  <2>4. old \in Nat /\ n \in Nat /\ root \in Nat /\ tera \in Nat /\ old < n /\ root <= n
    <3>1. n = Len(token) + 1 /\ Len(token) \in Nat /\ DOMAIN token = 1..Len(token) /\ era \in Nat
      BY <1>t, <2>1
    <3>2. CASE old = 0
      BY <2>1, <3>1, <3>2
    <3>3. CASE old # 0
      <4>1. /\ old \in 1..Len(token) /\ token[old].root <= old
            /\ root = token[old].root /\ tera = token[old].era
        BY <2>1, <2>3, <3>1, <3>3
      <4>2. token[old].root \in Nat /\ token[old].era \in Nat
        BY <2>3, <3>3 DEF TokenRows
      <4> QED  BY <3>1, <4>1, <4>2
    <3> QED  BY <3>2, <3>3
  <2>5. row \in TokenRows /\ row.from = old /\ row.root = root /\ row.era = tera
    BY <2>4 DEF TokenRows
  <2>6. x \in AuthRecords /\ x.old = old /\ x.new = n /\ x.pc = (IF old = 0 THEN "answering" ELSE "marking")
    BY <2>4 DEF AuthRecords
  <2> HIDE DEF row, x
  <2>7. /\ token' \in Seq(TokenRows) /\ DOMAIN token' = DOMAIN token \cup {n} /\ token'[n] = row
        /\ \A t \in DOMAIN token : token'[t] = token[t]
    BY <1>t, <2>1, <2>2, <2>5
  <2>8. /\ auth' \in [AuthCalls -> AuthRecords \cup {None}] /\ auth'[r] = x
        /\ \A q \in AuthCalls : q # r => auth'[q] = auth[q]
        /\ InTurn => \A q \in AuthCalls : q # r => auth[q] = None
        /\ OneCall'
    BY <2>2, <2>6, OneCallStep
  <2>9. TokensTypeOK'
    BY <1>t, <2>2, <2>4, <2>5, <2>7, <2>8 DEF SessionsInv, TokensTypeOK
  <2>10. ASSUME NEW q \in AuthCalls, auth'[q] # None PROVE Refers(auth[q])'
    <3>1. CASE q = r
      BY <2>3, <2>5, <2>6, <2>7, <2>8, <3>1 DEF Refers
    <3>2. CASE q # r
      BY <1>t, <2>7, <2>8, <2>10, <3>2 DEF Refers
    <3> QED  BY <3>1, <3>2
  <2>11. \A t \in DOMAIN token : Live(t)' <=> Live(t)
    BY <2>7 DEF Live
  <2>12. ASSUME InTurn, NEW t \in DOMAIN token', Live(t)' PROVE token'[t].era = era'
    <3>1. CASE t \in DOMAIN token
      BY <2>2, <2>7, <2>11, <2>12, <3>1 DEF SessionsInv
    <3>2. tera = era
      BY <2>1, <2>2, <2>3, <2>12 DEF SessionsInv, Rotating
    <3> QED  BY <2>2, <2>5, <2>7, <3>1, <3>2
  <2>13. ASSUME InTurn, NEW u \in handed', token'[u].from # 0 PROVE ~Live(token[u].from)'
    <3>1. u \in DOMAIN token /\ token'[u] = token[u] /\ token[u].from < u /\ token[u] \in TokenRows /\ ~Live(token[u].from)
      BY <1>t, <2>2, <2>7, <2>13 DEF SessionsInv
    <3>2. PICK t : t = token[u].from
      OBVIOUS
    <3>3. t \in DOMAIN token
      BY <1>t, <2>13, <3>1, <3>2 DEF TokenRows
    <3>4. ~Live(t)'
      BY <2>11, <3>1, <3>2, <3>3
    <3> QED  BY <3>1, <3>2, <3>4 DEF Live
  <2>14. ASSUME InTurn, NEW q \in AuthCalls, auth'[q] # None PROVE Rotating(auth[q])'
    <3>1. auth'[q] = x
      BY <2>8, <2>14
    <3> QED  BY <2>6, <3>1 DEF Rotating
  <2>15. ASSUME regime = "single", NEW t \in DOMAIN token, Live(t), token[t].root = root PROVE Superseded(t, n)'
    <3>1. old # 0
      BY <1>t, <2>1, <2>15
    <3>2. Live(old) /\ token[old].root = root /\ old \in DOMAIN token
      BY <2>1, <2>2, <2>3, <2>15, <3>1 DEF SessionsInv, Rotating, InTurn
    <3>3. t = old \/ Superseded(t, old)
      BY <2>15, <3>2 DEF SessionsInv
    <3>4. ~Superseded(t, old)
      BY <2>2, <2>8, <2>15 DEF Superseded, InTurn
    <3>5. auth'[r] # None
      BY <2>6, <2>8, NoneIsNoAuth
    <3> QED  BY <2>6, <2>8, <3>1, <3>3, <3>4, <3>5 DEF Superseded
  <2>16. ASSUME regime' = "single", NEW t \in DOMAIN token', NEW u \in DOMAIN token', Live(t)', Live(u)', token'[t].root = token'[u].root
         PROVE  t = u \/ Superseded(t, u)'
    <3>1. CASE t \in DOMAIN token /\ u \in DOMAIN token
      <4>1. t = u \/ Superseded(t, u)
        BY <2>2, <2>7, <2>11, <2>16, <3>1 DEF SessionsInv
      <4>2. ~Superseded(t, u)
        BY <2>2, <2>8, <2>16 DEF Superseded, InTurn
      <4> QED  BY <4>1, <4>2
    <3>2. CASE t \in DOMAIN token /\ u = n
      BY <2>2, <2>5, <2>7, <2>11, <2>15, <2>16, <3>2
    <3>3. CASE u \in DOMAIN token /\ t = n
      <4>1. Superseded(u, t)'
        BY <2>2, <2>5, <2>7, <2>11, <2>15, <2>16, <3>3
      <4> QED  BY <4>1 DEF Superseded
    <3> QED  BY <2>7, <3>1, <3>2, <3>3
  <2> QED  BY <1>r, <2>8, <2>9, <2>10, <2>12, <2>13, <2>14, <2>16 DEF SessionsInv
<1>10. CASE UNCHANGED tokensVars
  <2>1. UNCHANGED <<token, handed, era, auth, regime>>
    BY <1>10 DEF tokensVars
  <2>2. TokensTypeOK' /\ OneCall'
    BY <2>1 DEF SessionsInv, TokensTypeOK, OneCall, InTurn
  <2>3. \A r \in AuthCalls : auth'[r] # None => Refers(auth[r])' /\ (InTurn => Rotating(auth[r])')
    BY <2>1 DEF SessionsInv, Refers, Rotating, Live
  <2>4. \A t : Live(t)' <=> Live(t)
    BY <2>1 DEF Live
  <2>5. InTurn => /\ \A t \in DOMAIN token' : Live(t)' => token'[t].era = era'
                  /\ \A u \in handed' : token'[u].from # 0 => ~Live(token[u].from)'
    BY <2>1, <2>4 DEF SessionsInv, Live
  <2>6. \A t, u : Superseded(t, u)' <=> Superseded(t, u)
    BY <2>1 DEF Superseded
  <2>7. regime' = "single" => \A t, u \in DOMAIN token' :
          Live(t)' /\ Live(u)' /\ token'[t].root = token'[u].root => t = u \/ Superseded(t, u)'
    BY <2>1, <2>4, <2>6 DEF SessionsInv
  <2> QED  BY <1>r, <2>2, <2>3, <2>5, <2>7 DEF SessionsInv
<1> QED  BY <1>2, <1>3, <1>4, <1>5, <1>6, <1>7, <1>8, <1>9, <1>10 DEF TokensNext

LEMMA SessionsHold == TokensSpec => []SessionsInv
<1>1. TokensInit => SessionsInv
  BY DEF TokensInit, SessionsInv, TokensTypeOK, OneCall
<1> QED  BY <1>1, SessionsStep, PTL DEF TokensSpec

(* Type correctness of the refresh tokens, for any requests and bounds.     *)
THEOREM TokensTypeCorrect == TokensSpec => []TokensTypeOK
<1>1. SessionsInv => TokensTypeOK
  BY DEF SessionsInv
<1> QED  BY <1>1, SessionsHold, PTL

(* One request at a time, whatever copies of tokens come back: nothing that *)
(* was live before everything was revoked is live, a token whose successor  *)
(* a client holds is of no use, and a login has one live token at most when *)
(* no request is lost either (refresh, issueTokens, revokeAllForDelegate).  *)
THEOREM RotationHolds == TokensSpec => []SessionsRotate
<1>1. ASSUME SessionsInv PROVE SessionsRotate
  <2> SUFFICES ASSUME InTurn, Idle(auth) PROVE SessionsRotate
    BY DEF SessionsRotate
  <2>1. \A r \in AuthCalls : auth[r] = None
    BY <1>1 DEF SessionsInv, TokensTypeOK, Idle
  <2>2. \A t \in DOMAIN token : Live(t) => token[t].era = era
    BY <1>1 DEF SessionsInv
  <2>3. ASSUME NEW t \in DOMAIN token, NEW u \in handed, token[u].from = t PROVE ~Live(t)
    <3>1. t # 0
      BY <1>1 DEF SessionsInv, TokensTypeOK
    <3> QED  BY <1>1, <2>3, <3>1 DEF SessionsInv
  <2>4. ASSUME regime = "single", NEW t \in DOMAIN token, NEW u \in DOMAIN token, Live(t), Live(u), token[t].root = token[u].root
        PROVE  t = u
    BY <1>1, <2>1, <2>4 DEF SessionsInv, Superseded
  <2> QED  BY <2>2, <2>3, <2>4 DEF SessionsRotate
<1> QED  BY <1>1, SessionsHold, PTL

-----------------------------------------------------------------------------
(* One-time codes.  Who is at which step; what the count still allows; and  *)
(* the guesses a code can meet where requests overlap.                     *)
SendersAt(pc) == {r \in Senders : sender[r] # None /\ sender[r].pc = pc}
CheckersAt(pc) == {r \in Checkers : checker[r] # None /\ checker[r].pc = pc}

Allowed == IF attempts < MaxAttempts THEN MaxAttempts - attempts ELSE 0
Bound == MaxAttempts * (1 + Cardinality(Senders)) + Cardinality(Checkers)
Ahead == Cardinality(CheckersAt("looking")) + MaxAttempts * Cardinality(SendersAt("resetting")) + Allowed

OneRequest == InTurn =>
  /\ \A q, r \in Senders : sender[q] # None /\ sender[r] # None => q = r
  /\ \A q, r \in Checkers : checker[q] # None /\ checker[r] # None => q = r
  /\ \A q \in Senders, r \in Checkers : sender[q] = None \/ checker[r] = None

(* What a code has met and may still meet stays within the bound; in turn,  *)
(* the count is never behind the guesses made at the code that is stored.  *)
CapInv ==
  /\ CodesTypeOK /\ OneRequest
  /\ code <= drawn /\ \A c \in CodeNames : c > drawn => tried[c] = 0
  /\ \A c \in CodeNames : tried[c] <= Bound /\ (InTurn => tried[c] <= MaxAttempts)
  /\ code # 0 => tried[code] + Ahead <= Bound
  /\ InTurn =>
       /\ code # 0 /\ SendersAt("resetting") = {} => tried[code] <= attempts
       /\ code # 0 /\ SendersAt("resetting") # {} => tried[code] = 0
       /\ CheckersAt("looking") # {} => attempts <= MaxAttempts /\ (code # 0 => tried[code] < attempts)

(* One at a time: the last code mailed is the one stored for as long as it  *)
(* can work, and the count is what it was tried; a code that let its caller *)
(* act is not stored when the next request starts.                         *)
Works == mailed # 0 /\ mailed \notin expired /\ acted[mailed] = 0 /\ tried[mailed] < MaxAttempts

Known ==
  /\ mailed <= drawn
  /\ \A c \in CodeNames : acted[c] <= 1 /\ (c > drawn => c \notin expired /\ acted[c] = 0)

HourEnds == rate.count > 0 => rate.expires \/ SendersAt("expiring") # {}

Stored == SendersAt("resetting") = {} /\ SendersAt("mailing") = {} =>
  /\ code \in {0, mailed}
  /\ Works => code = mailed /\ attempts = tried[mailed] + (IF CheckersAt("looking") = {} THEN 0 ELSE 1)

Sending == \A r \in SendersAt("resetting") \cup SendersAt("mailing") :
  /\ sender[r].code = drawn /\ drawn # 0 /\ tried[drawn] = 0 /\ acted[drawn] = 0
  /\ code = drawn \/ (code = 0 /\ drawn \in expired)
  /\ sender[r].pc = "mailing" => attempts = 0

Checking ==
  /\ code # 0 /\ CheckersAt("spending") = {} => acted[code] = 0
  /\ \A r \in CheckersAt("valid") : checker[r].guess = mailed /\ mailed # 0 /\ acted[mailed] = 0
  /\ CheckersAt("spending") # {} => mailed # 0 /\ acted[mailed] = 1
  /\ CheckersAt("capped") # {} => ~Works

WorkInv == regime = "single" => Known /\ HourEnds /\ Stored /\ Sending /\ Checking

LEMMA CodesTypeStep == CodesTypeOK /\ [CodesNext]_codesVars => CodesTypeOK'
<1> SUFFICES ASSUME CodesTypeOK, [CodesNext]_codesVars PROVE CodesTypeOK'
  OBVIOUS
<1> USE CodeBounds DEF codeKeys, codeHistory
<1>t. /\ rate \in [count : Nat, expires : BOOLEAN] /\ attempts \in Nat /\ code \in 0..MaxCodes /\ drawn \in 0..MaxCodes
      /\ mailed \in 0..MaxCodes /\ expired \subseteq CodeNames /\ tried \in [CodeNames -> Nat] /\ acted \in [CodeNames -> Nat]
      /\ sender \in [Senders -> SenderRecords \cup {None}] /\ checker \in [Checkers -> CheckerRecords \cup {None}]
  BY DEF CodesTypeOK
<1>s. ASSUME NEW r \in Senders, NEW x \in SenderRecords \cup {None}, SenderTo(r, x)
      PROVE  sender' \in [Senders -> SenderRecords \cup {None}]
  BY <1>t, <1>s DEF SenderTo
<1>c. ASSUME NEW r \in Checkers, NEW x \in CheckerRecords \cup {None}, CheckerTo(r, x)
      PROVE  checker' \in [Checkers -> CheckerRecords \cup {None}]
  BY <1>t, <1>c DEF CheckerTo
<1>1. ASSUME NEW r \in Senders, RequestCounts(r) PROVE CodesTypeOK'
  <2>1. rate' \in [count : Nat, expires : BOOLEAN]
    BY <1>1, <1>t DEF RequestCounts
  <2>2. PICK x \in SenderRecords : SenderTo(r, x)
    BY <1>1 DEF RequestCounts, SenderRecords
  <2>3. sender' \in [Senders -> SenderRecords \cup {None}]
    BY <1>s, <2>2
  <2> QED  BY <1>1, <2>1, <2>3 DEF RequestCounts, CodesTypeOK
<1>2. ASSUME NEW r \in Senders, RequestExpires(r) PROVE CodesTypeOK'
  <2>1. rate' \in [count : Nat, expires : BOOLEAN]
    BY <1>2, <1>t DEF RequestExpires
  <2>2. PICK x \in SenderRecords : SenderTo(r, x)
    BY <1>2 DEF RequestExpires, SenderRecords
  <2>3. sender' \in [Senders -> SenderRecords \cup {None}]
    BY <1>s, <2>2
  <2> QED  BY <1>2, <2>1, <2>3 DEF RequestExpires, CodesTypeOK
<1>3. ASSUME NEW r \in Senders, RequestRefused(r) \/ SenderDies(r) PROVE CodesTypeOK'
  <2>1. sender' \in [Senders -> SenderRecords \cup {None}]
    BY <1>3, <1>s DEF RequestRefused, SenderDies
  <2> QED  BY <1>3, <2>1 DEF RequestRefused, SenderDies, CodesTypeOK
<1>4. ASSUME NEW r \in Senders, RequestStores(r) PROVE CodesTypeOK'
  <2>1. drawn' \in 0..MaxCodes /\ code' \in 0..MaxCodes
    BY <1>4, <1>t DEF RequestStores
  <2>2. [pc |-> "resetting", code |-> drawn + 1] \in SenderRecords
    BY <1>4, <1>t DEF RequestStores, SenderRecords
  <2>3. sender' \in [Senders -> SenderRecords \cup {None}]
    BY <1>4, <1>s, <2>2 DEF RequestStores
  <2> QED  BY <1>4, <2>1, <2>3 DEF RequestStores, CodesTypeOK
<1>5. ASSUME NEW r \in Senders, RequestResets(r) PROVE CodesTypeOK'
  <2>1. [sender[r] EXCEPT !.pc = "mailing"] \in SenderRecords
    BY <1>5, <1>t DEF RequestResets, SenderRecords
  <2>2. sender' \in [Senders -> SenderRecords \cup {None}]
    BY <1>5, <1>s, <2>1 DEF RequestResets
  <2> QED  BY <1>5, <2>2 DEF RequestResets, CodesTypeOK
<1>6. ASSUME NEW r \in Senders, RequestMails(r) PROVE CodesTypeOK'
  <2>1. mailed' \in 0..MaxCodes
    BY <1>6, <1>t DEF RequestMails, SenderRecords
  <2>2. sender' \in [Senders -> SenderRecords \cup {None}]
    BY <1>6, <1>s DEF RequestMails
  <2> QED  BY <1>6, <2>1, <2>2 DEF RequestMails, CodesTypeOK
<1>7. ASSUME NEW r \in Checkers, NEW guess \in 0..MaxCodes, CheckCounts(r, guess) PROVE CodesTypeOK'
  <2>1. PICK x \in CheckerRecords : CheckerTo(r, x)
    BY <1>7 DEF CheckCounts, CheckerRecords
  <2>2. checker' \in [Checkers -> CheckerRecords \cup {None}]
    BY <1>c, <2>1
  <2> QED  BY <1>7, <2>2 DEF CheckCounts, CodesTypeOK
<1>8. ASSUME NEW r \in Checkers, CheckDeletes(r) \/ CallerRefuses(r) \/ Consume(r) \/ CheckerDies(r) PROVE CodesTypeOK'
  <2>1. checker' \in [Checkers -> CheckerRecords \cup {None}]
    BY <1>8, <1>c DEF CheckDeletes, CallerRefuses, Consume, CheckerDies
  <2> QED  BY <1>8, <2>1 DEF CheckDeletes, CallerRefuses, Consume, CheckerDies, CodesTypeOK
<1>9. ASSUME NEW r \in Checkers, CheckLooks(r) PROVE CodesTypeOK'
  <2>1. [checker[r] EXCEPT !.pc = "valid"] \in CheckerRecords
    BY <1>9, <1>t DEF CheckLooks, CheckerRecords
  <2>2. checker' \in [Checkers -> CheckerRecords \cup {None}]
    BY <1>9, <1>c, <2>1 DEF CheckLooks
  <2>3. tried' \in [CodeNames -> Nat]
    BY <1>9, <1>t DEF CheckLooks, Compared, CodeNames
  <2> QED  BY <1>9, <2>2, <2>3 DEF CheckLooks, CodesTypeOK
<1>10. ASSUME NEW r \in Checkers, CallerActs(r) PROVE CodesTypeOK'
  <2>1. [checker[r] EXCEPT !.pc = "spending"] \in CheckerRecords
    BY <1>10, <1>t DEF CallerActs, CheckerRecords
  <2>2. checker' \in [Checkers -> CheckerRecords \cup {None}]
    BY <1>10, <1>c, <2>1 DEF CallerActs
  <2>3. acted' \in [CodeNames -> Nat]
    <3>1. acted' = [acted EXCEPT ![checker[r].guess] = acted[checker[r].guess] + 1]
      BY <1>10 DEF CallerActs
    <3>2. PICK g : g = checker[r].guess
      OBVIOUS
    <3>3. CASE g \in CodeNames
      BY <1>t, <3>1, <3>2, <3>3
    <3>4. CASE g \notin CodeNames
      BY <1>t, <3>1, <3>2, <3>4
    <3> QED  BY <3>3, <3>4
  <2> QED  BY <1>10, <2>2, <2>3 DEF CallerActs, CodesTypeOK
<1>11. CASE CodeExpires
  BY <1>11, <1>t DEF CodeExpires, CodesTypeOK, CodeNames
<1>12. CASE HourPasses
  BY <1>12 DEF HourPasses, CodesTypeOK
<1>13. CASE UNCHANGED codesVars
  BY <1>13 DEF codesVars, CodesTypeOK
<1> QED  BY <1>1, <1>2, <1>3, <1>4, <1>5, <1>6, <1>7, <1>8, <1>9, <1>10, <1>11, <1>12, <1>13 DEF CodesNext

LEMMA Times ==
  ASSUME NEW a \in Nat, NEW m \in Nat, NEW n \in Nat
  PROVE  /\ a * m \in Nat /\ a * (m + 1) = a * m + a
         /\ m <= n => a * m <= a * n
<1>1. a * m \in Nat /\ a * (m + 1) = a * m + a
  OBVIOUS
<1>2. ASSUME m <= n PROVE a * m <= a * n
  <2>1. PICK k \in Nat : n = m + k
    BY <1>2
  <2>2. a * n = a * m + a * k /\ a * k \in Nat /\ a * m \in Nat
    BY <2>1
  <2> QED  BY <2>2
<1> QED  BY <1>1, <1>2

LEMMA CountsAreFinite ==
  /\ \A pc : IsFiniteSet(SendersAt(pc)) /\ IsFiniteSet(CheckersAt(pc))
  /\ \A pc : Cardinality(SendersAt(pc)) \in Nat /\ Cardinality(SendersAt(pc)) <= Cardinality(Senders)
  /\ \A pc : Cardinality(CheckersAt(pc)) \in Nat /\ Cardinality(CheckersAt(pc)) <= Cardinality(Checkers)
  /\ Cardinality(Senders) \in Nat /\ Cardinality(Checkers) \in Nat
<1>1. ASSUME NEW pc PROVE SendersAt(pc) \in SUBSET Senders /\ CheckersAt(pc) \in SUBSET Checkers
  BY DEF SendersAt, CheckersAt
<1> QED  BY <1>1, CodeBounds, FS_Subset, FS_CardinalityType

(* A step of one sender: where requests take turns there is no other.        *)
LEMMA SenderMoves ==
  ASSUME CodesTypeOK, OneRequest, NEW r \in Senders, sender[r] # None \/ MayAsk(sender, r),
         NEW x \in SenderRecords \cup {None}, SenderTo(r, x), UNCHANGED <<checker, regime>>
  PROVE  /\ sender'[r] = x /\ \A q \in Senders : q # r => sender'[q] = sender[q]
         /\ \A pc : SendersAt(pc)' = IF x # None /\ x.pc = pc THEN SendersAt(pc) \cup {r} ELSE SendersAt(pc) \ {r}
         /\ \A pc : CheckersAt(pc)' = CheckersAt(pc)
         /\ InTurn => \A pc : CheckersAt(pc) = {} /\ SendersAt(pc) \ {r} = {}
         /\ OneRequest'
<1>1. sender'[r] = x /\ \A q \in Senders : q # r => sender'[q] = sender[q]
  BY DEF SenderTo, CodesTypeOK
<1>2. ASSUME NEW pc
      PROVE  SendersAt(pc)' = IF x # None /\ x.pc = pc THEN SendersAt(pc) \cup {r} ELSE SendersAt(pc) \ {r}
  BY <1>1 DEF SendersAt
<1>3. \A pc : CheckersAt(pc)' = CheckersAt(pc)
  BY DEF CheckersAt
<1>4. InTurn => /\ \A q \in Senders : q # r => sender[q] = None
                /\ \A q \in Checkers : checker[q] = None
  <2>1. CASE sender[r] # None
    BY <2>1 DEF OneRequest
  <2>2. CASE MayAsk(sender, r)
    BY <2>2 DEF MayAsk, CodesIdle, Idle, CodesTypeOK
  <2> QED  BY <2>1, <2>2
<1>5. InTurn => \A pc : CheckersAt(pc) = {} /\ SendersAt(pc) \ {r} = {}
  BY <1>4 DEF SendersAt, CheckersAt
<1>6. OneRequest'
  BY <1>1, <1>4 DEF OneRequest, InTurn
<1> QED  BY <1>1, <1>2, <1>3, <1>5, <1>6

(* A step of one checker, likewise.                                         *)
LEMMA CheckerMoves ==
  ASSUME CodesTypeOK, OneRequest, NEW r \in Checkers, checker[r] # None \/ MayAsk(checker, r),
         NEW x \in CheckerRecords \cup {None}, CheckerTo(r, x), UNCHANGED <<sender, regime>>
  PROVE  /\ checker'[r] = x /\ \A q \in Checkers : q # r => checker'[q] = checker[q]
         /\ \A pc : CheckersAt(pc)' = IF x # None /\ x.pc = pc THEN CheckersAt(pc) \cup {r} ELSE CheckersAt(pc) \ {r}
         /\ \A pc : SendersAt(pc)' = SendersAt(pc)
         /\ InTurn => \A pc : SendersAt(pc) = {} /\ CheckersAt(pc) \ {r} = {}
         /\ OneRequest'
<1>1. checker'[r] = x /\ \A q \in Checkers : q # r => checker'[q] = checker[q]
  BY DEF CheckerTo, CodesTypeOK
<1>2. ASSUME NEW pc
      PROVE  CheckersAt(pc)' = IF x # None /\ x.pc = pc THEN CheckersAt(pc) \cup {r} ELSE CheckersAt(pc) \ {r}
  BY <1>1 DEF CheckersAt
<1>3. \A pc : SendersAt(pc)' = SendersAt(pc)
  BY DEF SendersAt
<1>4. InTurn => /\ \A q \in Checkers : q # r => checker[q] = None
                /\ \A q \in Senders : sender[q] = None
  <2>1. CASE checker[r] # None
    BY <2>1 DEF OneRequest
  <2>2. CASE MayAsk(checker, r)
    BY <2>2 DEF MayAsk, CodesIdle, Idle, CodesTypeOK
  <2> QED  BY <2>1, <2>2
<1>5. InTurn => \A pc : SendersAt(pc) = {} /\ CheckersAt(pc) \ {r} = {}
  BY <1>4 DEF SendersAt, CheckersAt
<1>6. OneRequest'
  BY <1>1, <1>4 DEF OneRequest, InTurn
<1> QED  BY <1>1, <1>2, <1>3, <1>5, <1>6

LEMMA CapStep == CapInv /\ [CodesNext]_codesVars => CapInv'
<1> SUFFICES ASSUME CapInv, [CodesNext]_codesVars PROVE CapInv'
  OBVIOUS
<1> USE CodeBounds DEF codeKeys, codeHistory
<1>t. /\ CodesTypeOK /\ OneRequest /\ attempts \in Nat /\ code \in 0..MaxCodes /\ drawn \in 0..MaxCodes
      /\ tried \in [CodeNames -> Nat]
  BY DEF CapInv, CodesTypeOK
<1>T. CodesTypeOK'
  BY <1>t, CodesTypeStep
<1>n. \A m, n \in Nat : MaxAttempts * m \in Nat /\ (m <= n => MaxAttempts * m <= MaxAttempts * n)
  BY Times
<1>b. Bound \in Nat /\ Bound = MaxAttempts * Cardinality(Senders) + MaxAttempts + Cardinality(Checkers)
  BY CountsAreFinite, Times DEF Bound
(* A sender at any step but the two that follow a new code.                 *)
<1>s. ASSUME NEW r \in Senders, sender[r] # None \/ MayAsk(sender, r), NEW x \in SenderRecords \cup {None}, SenderTo(r, x),
             x # None => x.pc # "resetting", UNCHANGED <<code, attempts, drawn, tried, checker, regime>>
      PROVE  CapInv'
  <2>1. /\ \A pc : SendersAt(pc)' = IF x # None /\ x.pc = pc THEN SendersAt(pc) \cup {r} ELSE SendersAt(pc) \ {r}
        /\ \A pc : CheckersAt(pc)' = CheckersAt(pc)
        /\ InTurn => \A pc : CheckersAt(pc) = {} /\ SendersAt(pc) \ {r} = {}
        /\ OneRequest'
    BY <1>s, <1>t, SenderMoves
  <2>2. SendersAt("resetting")' = SendersAt("resetting") \ {r} /\ CheckersAt("looking")' = CheckersAt("looking")
    BY <1>s, <2>1
  <2>3. Cardinality(SendersAt("resetting")') \in Nat /\ Cardinality(SendersAt("resetting")') <= Cardinality(SendersAt("resetting"))
    BY <2>2, CountsAreFinite, FS_Subset, FS_CardinalityType
  <2>4. MaxAttempts * Cardinality(SendersAt("resetting")') <= MaxAttempts * Cardinality(SendersAt("resetting"))
    BY <1>n, <2>3, CountsAreFinite
  <2>5. /\ MaxAttempts * Cardinality(SendersAt("resetting")') \in Nat /\ MaxAttempts * Cardinality(SendersAt("resetting")) \in Nat
        /\ Cardinality(CheckersAt("looking")) \in Nat /\ Allowed \in Nat /\ Allowed' = Allowed
    BY <1>n, <1>s, <1>t, <2>3, CountsAreFinite DEF Allowed
  <2>6. Ahead' \in Nat /\ Ahead \in Nat /\ Ahead' <= Ahead
    BY <2>2, <2>4, <2>5 DEF Ahead
  <2>7. code # 0 => tried[code] + Ahead' <= Bound
    <3>1. code # 0 => tried[code] \in Nat /\ tried[code] + Ahead <= Bound
      BY <1>t DEF CapInv, CodeNames
    <3> QED  BY <1>b, <2>6, <3>1
  <2>8. InTurn =>
          /\ code # 0 /\ SendersAt("resetting")' = {} => tried[code] <= attempts
          /\ code # 0 /\ SendersAt("resetting")' # {} => tried[code] = 0
          /\ CheckersAt("looking")' = {}
    BY <1>t, <2>1, <2>2 DEF CapInv, CodeNames
  <2> QED  BY <1>s, <1>T, <2>1, <2>7, <2>8 DEF CapInv, InTurn, Bound
<1>1. ASSUME NEW r \in Senders, RequestStores(r) PROVE CapInv'
  <2> DEFINE x == [pc |-> "resetting", code |-> drawn + 1]
  <2>1. /\ sender[r] # None /\ sender[r].pc = "storing" /\ drawn < MaxCodes /\ drawn' = drawn + 1 /\ code' = drawn + 1
        /\ SenderTo(r, x) /\ UNCHANGED <<attempts, tried, checker, regime>>
    BY <1>1 DEF RequestStores
  <2>2. x \in SenderRecords /\ x.pc = "resetting"
    BY <1>t, <2>1 DEF SenderRecords
  <2> HIDE DEF x
  <2>3. /\ \A pc : SendersAt(pc)' = IF x # None /\ x.pc = pc THEN SendersAt(pc) \cup {r} ELSE SendersAt(pc) \ {r}
        /\ \A pc : CheckersAt(pc)' = CheckersAt(pc)
        /\ InTurn => \A pc : CheckersAt(pc) = {} /\ SendersAt(pc) \ {r} = {}
        /\ OneRequest'
    BY <1>t, <2>1, <2>2, SenderMoves
  <2>4. SendersAt("resetting")' = SendersAt("resetting") \cup {r} /\ CheckersAt("looking")' = CheckersAt("looking")
    BY <2>2, <2>3, NoneIsNoSender
  <2>5. SendersAt("resetting")' \in SUBSET Senders
    BY DEF SendersAt
  <2>6. Cardinality(SendersAt("resetting")') \in Nat /\ Cardinality(SendersAt("resetting")') <= Cardinality(Senders)
    BY <2>5, FS_Subset, FS_CardinalityType
  <2>7. MaxAttempts * Cardinality(SendersAt("resetting")') <= MaxAttempts * Cardinality(Senders)
    BY <1>n, <2>6, CountsAreFinite
  <2>8. /\ MaxAttempts * Cardinality(SendersAt("resetting")') \in Nat /\ MaxAttempts * Cardinality(Senders) \in Nat
        /\ Cardinality(CheckersAt("looking")) \in Nat /\ Cardinality(CheckersAt("looking")) <= Cardinality(Checkers)
        /\ Allowed \in Nat /\ Allowed <= MaxAttempts /\ Allowed' = Allowed /\ Cardinality(Checkers) \in Nat
    BY <1>n, <1>t, <2>1, <2>6, CountsAreFinite DEF Allowed
  <2>9. code' \in CodeNames /\ tried'[code'] = 0 /\ Ahead' <= Bound /\ Ahead' \in Nat
    <3>1. code' \in CodeNames /\ code' > drawn
      BY <1>t, <2>1 DEF CodeNames
    <3>2. tried'[code'] = 0
      BY <2>1, <3>1 DEF CapInv
    <3>3. Ahead' <= Bound /\ Ahead' \in Nat
      BY <1>b, <2>4, <2>7, <2>8 DEF Ahead
    <3> QED  BY <3>1, <3>2, <3>3
  <2>10. InTurn => CheckersAt("looking")' = {}
    BY <2>3, <2>4
  <2>11. SendersAt("resetting")' # {}
    BY <2>4
  <2>12. code' <= drawn' /\ \A c \in CodeNames : c > drawn' => tried'[c] = 0
    BY <1>t, <2>1 DEF CapInv, CodeNames
  <2> QED  BY <1>T, <1>b, <2>1, <2>3, <2>9, <2>10, <2>11, <2>12 DEF CapInv, InTurn, Bound
<1>2. ASSUME NEW r \in Senders, RequestResets(r) PROVE CapInv'
  <2> DEFINE x == [sender[r] EXCEPT !.pc = "mailing"]
  <2>1. /\ sender[r] # None /\ sender[r].pc = "resetting" /\ attempts' = 0 /\ sender[r] \in SenderRecords
        /\ SenderTo(r, x) /\ UNCHANGED <<code, drawn, tried, checker, regime>>
    BY <1>2, <1>t DEF RequestResets, CodesTypeOK
  <2>2. x \in SenderRecords /\ x.pc = "mailing"
    BY <2>1 DEF SenderRecords
  <2> HIDE DEF x
  <2>3. /\ \A pc : SendersAt(pc)' = IF x # None /\ x.pc = pc THEN SendersAt(pc) \cup {r} ELSE SendersAt(pc) \ {r}
        /\ \A pc : CheckersAt(pc)' = CheckersAt(pc)
        /\ InTurn => \A pc : CheckersAt(pc) = {} /\ SendersAt(pc) \ {r} = {}
        /\ OneRequest'
    BY <1>t, <2>1, <2>2, SenderMoves
  <2>4. /\ SendersAt("resetting")' = SendersAt("resetting") \ {r} /\ CheckersAt("looking")' = CheckersAt("looking")
        /\ r \in SendersAt("resetting")
    BY <2>1, <2>2, <2>3 DEF SendersAt
  <2>5. PICK m \in Nat : Cardinality(SendersAt("resetting")') = m /\ Cardinality(SendersAt("resetting")) = m + 1
    <3>1. Cardinality(SendersAt("resetting") \ {r}) = Cardinality(SendersAt("resetting")) - 1
      BY <2>4, CountsAreFinite, FS_RemoveElement
    <3>2. Cardinality(SendersAt("resetting") \ {r}) \in Nat
      BY CountsAreFinite, FS_RemoveElement, FS_CardinalityType
    <3> QED  BY <2>4, <3>1, <3>2, CountsAreFinite
  <2>6. MaxAttempts * (m + 1) = MaxAttempts * m + MaxAttempts /\ MaxAttempts * m \in Nat
    BY Times
  <2>7. Ahead' \in Nat /\ Ahead \in Nat /\ Ahead' <= Ahead
    <3>1. Allowed \in Nat /\ Allowed' = MaxAttempts /\ Cardinality(CheckersAt("looking")) \in Nat
      BY <1>t, <2>1, CountsAreFinite DEF Allowed
    <3> QED  BY <2>4, <2>5, <2>6, <3>1 DEF Ahead
  <2>8. code # 0 => tried[code] + Ahead' <= Bound
    <3>1. code # 0 => tried[code] \in Nat /\ tried[code] + Ahead <= Bound
      BY <1>t DEF CapInv, CodeNames
    <3> QED  BY <1>b, <2>7, <3>1
  <2>9. InTurn =>
          /\ code # 0 => tried[code] = 0
          /\ SendersAt("resetting")' = {} /\ CheckersAt("looking")' = {}
    BY <2>3, <2>4 DEF CapInv
  <2>10. attempts' = 0
    BY <2>1
  <2> QED  BY <1>T, <2>1, <2>3, <2>8, <2>9, <2>10 DEF CapInv, InTurn, Bound
(* A checker at any step but those that count and that compare a guess.     *)
<1>c. ASSUME NEW r \in Checkers, checker[r] # None \/ MayAsk(checker, r), NEW x \in CheckerRecords \cup {None}, CheckerTo(r, x),
             x # None => x.pc # "looking", code' = 0 \/ (code' = code /\ attempts' >= attempts),
             UNCHANGED <<drawn, tried, sender, regime>>
      PROVE  CapInv'
  <2>1. /\ \A pc : CheckersAt(pc)' = IF x # None /\ x.pc = pc THEN CheckersAt(pc) \cup {r} ELSE CheckersAt(pc) \ {r}
        /\ \A pc : SendersAt(pc)' = SendersAt(pc)
        /\ InTurn => \A pc : SendersAt(pc) = {} /\ CheckersAt(pc) \ {r} = {}
        /\ OneRequest'
    BY <1>c, <1>t, CheckerMoves
  <2>2. CheckersAt("looking")' = CheckersAt("looking") \ {r} /\ SendersAt("resetting")' = SendersAt("resetting")
    BY <1>c, <2>1
  <2>3. Cardinality(CheckersAt("looking")') \in Nat /\ Cardinality(CheckersAt("looking")') <= Cardinality(CheckersAt("looking"))
    BY <2>2, CountsAreFinite, FS_Subset, FS_CardinalityType
  <2>4. attempts' \in Nat
    BY <1>T DEF CodesTypeOK
  <2>5. code' # 0 => Ahead' \in Nat /\ Ahead \in Nat /\ Ahead' <= Ahead
    <3>1. code' # 0 => Allowed \in Nat /\ Allowed' \in Nat /\ Allowed' <= Allowed
      BY <1>c, <1>t, <2>4 DEF Allowed
    <3>2. MaxAttempts * Cardinality(SendersAt("resetting")) \in Nat
      BY <1>n, CountsAreFinite
    <3> QED  BY <2>2, <2>3, <3>1, <3>2, CountsAreFinite DEF Ahead
  <2>6. code' # 0 => tried[code'] + Ahead' <= Bound
    <3>1. code' # 0 => code' = code /\ tried[code] \in Nat /\ tried[code] + Ahead <= Bound
      BY <1>c, <1>t DEF CapInv, CodeNames
    <3> QED  BY <1>b, <2>5, <3>1
  <2>7. InTurn => (code' # 0 => tried[code'] <= attempts') /\ SendersAt("resetting")' = {} /\ CheckersAt("looking")' = {}
    <3>1. InTurn => SendersAt("resetting")' = {} /\ CheckersAt("looking")' = {} /\ SendersAt("resetting") = {}
      BY <2>1, <2>2
    <3>2. InTurn /\ code' # 0 => code' = code /\ attempts <= attempts' /\ tried[code] <= attempts /\ tried[code] \in Nat
      BY <1>c, <1>t, <2>4, <3>1 DEF CapInv, CodeNames
    <3> QED  BY <1>t, <2>4, <3>1, <3>2
  <2>8. code' <= drawn
    BY <1>c, <1>t DEF CapInv
  <2> QED  BY <1>c, <1>T, <2>1, <2>6, <2>7, <2>8 DEF CapInv, InTurn, Bound
<1>3. ASSUME NEW r \in Checkers, NEW guess \in 0..MaxCodes, CheckCounts(r, guess) PROVE CapInv'
  <2> DEFINE x == [pc |-> IF attempts < MaxAttempts THEN "looking" ELSE "capped", guess |-> guess]
  <2>1. /\ MayAsk(checker, r) /\ checker[r] = None /\ attempts' = attempts + 1 /\ CheckerTo(r, x)
        /\ UNCHANGED <<code, drawn, tried, sender, regime>>
    BY <1>3 DEF CheckCounts, MayAsk
  <2>2. x \in CheckerRecords /\ x.pc = (IF attempts < MaxAttempts THEN "looking" ELSE "capped")
    BY DEF CheckerRecords
  <2> HIDE DEF x
  <2>3. CASE ~(attempts < MaxAttempts)
    <3>1. x.pc # "looking" /\ attempts' >= attempts
      BY <1>t, <2>1, <2>2, <2>3
    <3> QED  BY <1>c, <2>1, <2>2, <3>1
  <2>4. CASE attempts < MaxAttempts
    <3>1. /\ \A pc : CheckersAt(pc)' = IF x # None /\ x.pc = pc THEN CheckersAt(pc) \cup {r} ELSE CheckersAt(pc) \ {r}
          /\ \A pc : SendersAt(pc)' = SendersAt(pc)
          /\ InTurn => \A pc : SendersAt(pc) = {} /\ CheckersAt(pc) \ {r} = {}
          /\ OneRequest'
      BY <1>t, <2>1, <2>2, CheckerMoves
    <3>2. /\ CheckersAt("looking")' = CheckersAt("looking") \cup {r} /\ SendersAt("resetting")' = SendersAt("resetting")
          /\ r \notin CheckersAt("looking")
      BY <2>1, <2>2, <2>4, <3>1, NoneIsNoSender DEF CheckersAt
    <3>3. Cardinality(CheckersAt("looking")') = Cardinality(CheckersAt("looking")) + 1
      BY <3>2, CountsAreFinite, FS_AddElement
    <3>4. Ahead' \in Nat /\ Ahead' = Ahead
      <4>1. Allowed \in Nat /\ Allowed' \in Nat /\ Allowed' = Allowed - 1
        BY <1>t, <2>1, <2>4 DEF Allowed
      <4>2. MaxAttempts * Cardinality(SendersAt("resetting")) \in Nat
        BY <1>n, CountsAreFinite
      <4> QED  BY <3>2, <3>3, <4>1, <4>2, CountsAreFinite DEF Ahead
    <3>5. code # 0 => tried[code] + Ahead' <= Bound
      BY <3>4 DEF CapInv
    <3>6. InTurn => /\ code # 0 => tried[code] < attempts'
                    /\ SendersAt("resetting")' = {} /\ attempts' <= MaxAttempts
      <4>1. InTurn => SendersAt("resetting")' = {} /\ SendersAt("resetting") = {}
        BY <3>1, <3>2
      <4>2. InTurn /\ code # 0 => tried[code] <= attempts /\ tried[code] \in Nat
        BY <1>t, <4>1 DEF CapInv, CodeNames
      <4> QED  BY <1>t, <2>1, <2>4, <4>1, <4>2
    <3>7. code # 0 => tried[code] \in Nat
      BY <1>t DEF CodeNames
    <3>8. attempts' \in Nat
      BY <1>t, <2>1
    <3>9. InTurn => (code # 0 => tried[code] <= attempts')
      BY <3>6, <3>7, <3>8
    <3> QED  BY <1>T, <2>1, <3>1, <3>5, <3>6, <3>9 DEF CapInv, InTurn, Bound
  <2> QED  BY <2>3, <2>4
<1>4. ASSUME NEW r \in Checkers, CheckLooks(r) PROVE CapInv'
  <2>1. /\ checker[r] # None /\ checker[r].pc = "looking" /\ tried' = Compared(r)
        /\ UNCHANGED <<code, attempts, drawn, sender, regime>>
    BY <1>4 DEF CheckLooks
  <2>2. PICK x \in CheckerRecords \cup {None} : CheckerTo(r, x) /\ (x # None => x.pc = "valid")
    <3> DEFINE y == [checker[r] EXCEPT !.pc = "valid"]
    <3>1. y \in CheckerRecords /\ y.pc = "valid"
      BY <1>t, <2>1 DEF CodesTypeOK, CheckerRecords
    <3>2. CheckerTo(r, y) \/ CheckerTo(r, None)
      BY <1>4 DEF CheckLooks
    <3> HIDE DEF y
    <3> QED  BY <3>1, <3>2
  <2>3. /\ \A pc : CheckersAt(pc)' = IF x # None /\ x.pc = pc THEN CheckersAt(pc) \cup {r} ELSE CheckersAt(pc) \ {r}
        /\ \A pc : SendersAt(pc)' = SendersAt(pc)
        /\ InTurn => \A pc : SendersAt(pc) = {} /\ CheckersAt(pc) \ {r} = {}
        /\ OneRequest'
    BY <1>t, <2>1, <2>2, CheckerMoves
  <2>4. /\ CheckersAt("looking")' = CheckersAt("looking") \ {r} /\ SendersAt("resetting")' = SendersAt("resetting")
        /\ r \in CheckersAt("looking")
    BY <2>1, <2>2, <2>3 DEF CheckersAt
  <2>5. PICK m \in Nat : Cardinality(CheckersAt("looking")') = m /\ Cardinality(CheckersAt("looking")) = m + 1
    <3>1. Cardinality(CheckersAt("looking") \ {r}) = Cardinality(CheckersAt("looking")) - 1
      BY <2>4, CountsAreFinite, FS_RemoveElement
    <3>2. Cardinality(CheckersAt("looking") \ {r}) \in Nat
      BY CountsAreFinite, FS_RemoveElement, FS_CardinalityType
    <3> QED  BY <2>4, <3>1, <3>2, CountsAreFinite
  <2>6. Ahead' \in Nat /\ Ahead = Ahead' + 1
    <3>1. Allowed \in Nat /\ Allowed' = Allowed
      BY <1>t, <2>1 DEF Allowed
    <3>2. MaxAttempts * Cardinality(SendersAt("resetting")) \in Nat
      BY <1>n, CountsAreFinite
    <3> QED  BY <2>4, <2>5, <3>1, <3>2 DEF Ahead
  <2>7. \A c \in CodeNames : tried'[c] = IF c = code THEN tried[c] + 1 ELSE tried[c]
    BY <1>t, <2>1 DEF Compared, CodeNames
  <2>8. code # 0 => code \in CodeNames /\ tried[code] \in Nat /\ tried'[code] = tried[code] + 1
    BY <1>t, <2>7 DEF CodeNames
  <2>9. code # 0 => tried'[code] + Ahead' <= Bound /\ tried'[code] <= Bound
    <3>1. code # 0 => tried[code] + Ahead <= Bound
      BY DEF CapInv
    <3> QED  BY <1>b, <2>6, <2>8, <3>1
  <2>10. InTurn => /\ code # 0 => tried'[code] <= attempts /\ tried'[code] <= MaxAttempts
                   /\ SendersAt("resetting")' = {} /\ CheckersAt("looking")' = {}
    <3>1. InTurn => SendersAt("resetting")' = {} /\ CheckersAt("looking")' = {}
      BY <2>3, <2>4
    <3>2. InTurn => attempts <= MaxAttempts /\ (code # 0 => tried[code] < attempts)
      BY <2>4 DEF CapInv
    <3> QED  BY <1>t, <2>8, <3>1, <3>2
  <2>11. \A c \in CodeNames : (c > drawn => tried'[c] = 0) /\ tried'[c] <= Bound /\ (InTurn => tried'[c] <= MaxAttempts)
    <3> SUFFICES ASSUME NEW c \in CodeNames
                 PROVE  (c > drawn => tried'[c] = 0) /\ tried'[c] <= Bound /\ (InTurn => tried'[c] <= MaxAttempts)
      OBVIOUS
    <3>1. CASE c = code
      <4>1. c # 0 /\ ~(c > drawn)
        BY <1>t, <3>1 DEF CapInv, CodeNames
      <4> QED  BY <2>9, <2>10, <3>1, <4>1
    <3>2. CASE c # code
      BY <2>7, <3>2 DEF CapInv
    <3> QED  BY <3>1, <3>2
  <2> QED  BY <1>T, <2>1, <2>3, <2>9, <2>10, <2>11 DEF CapInv, InTurn, Bound
<1>5. ASSUME code' \in {0, code}, UNCHANGED <<attempts, drawn, tried, sender, checker, regime>> PROVE CapInv'
  <2>1. /\ \A pc : SendersAt(pc)' = SendersAt(pc) /\ CheckersAt(pc)' = CheckersAt(pc)
        /\ OneRequest' /\ Allowed' = Allowed
    BY <1>5, <1>t DEF SendersAt, CheckersAt, OneRequest, InTurn, Allowed
  <2>2. Ahead' = Ahead
    BY <2>1 DEF Ahead
  <2>3. code' # 0 => code' = code
    BY <1>5
  <2>4. code' <= drawn
    BY <1>5, <1>t DEF CapInv
  <2> QED  BY <1>5, <1>T, <2>1, <2>2, <2>3, <2>4 DEF CapInv, InTurn, Bound
<1>6. ASSUME NEW r \in Senders,
             RequestCounts(r) \/ RequestExpires(r) \/ RequestRefused(r) \/ RequestMails(r) \/ SenderDies(r)
      PROVE  CapInv'
  <2>1. /\ sender[r] # None \/ MayAsk(sender, r)
        /\ UNCHANGED <<code, attempts, drawn, tried, checker, regime>>
    BY <1>6 DEF RequestCounts, RequestExpires, RequestRefused, RequestMails, SenderDies
  <2>2. PICK x \in SenderRecords \cup {None} : SenderTo(r, x) /\ (x # None => x.pc # "resetting")
    <3>1. CASE RequestCounts(r) \/ RequestExpires(r)
      <4>1. PICK pc \in {"expiring", "storing", "refused"} : SenderTo(r, [pc |-> pc, code |-> 0])
        BY <3>1 DEF RequestCounts, RequestExpires
      <4>2. [pc |-> pc, code |-> 0] \in SenderRecords
        BY DEF SenderRecords
      <4> QED  BY <4>1, <4>2
    <3>2. CASE RequestRefused(r) \/ RequestMails(r) \/ SenderDies(r)
      BY <3>2 DEF RequestRefused, RequestMails, SenderDies
    <3> QED  BY <1>6, <3>1, <3>2
  <2> QED  BY <1>s, <2>1, <2>2
<1>7. ASSUME NEW r \in Checkers, CheckDeletes(r) \/ CallerRefuses(r) \/ CallerActs(r) \/ Consume(r) \/ CheckerDies(r)
      PROVE  CapInv'
  <2>1. checker[r] # None /\ UNCHANGED <<drawn, tried, sender, regime>>
    BY <1>7 DEF CheckDeletes, CallerRefuses, CallerActs, Consume, CheckerDies
  <2>2. code' = 0 \/ (code' = code /\ attempts' >= attempts)
    <3>1. code' = 0 \/ (code' = code /\ attempts' = attempts)
      BY <1>7 DEF CheckDeletes, CallerRefuses, CallerActs, Consume, CheckerDies
    <3> QED  BY <1>t, <3>1
  <2>3. PICK x \in CheckerRecords \cup {None} : CheckerTo(r, x) /\ (x # None => x.pc # "looking")
    <3>1. CASE CallerActs(r)
      <4> DEFINE y == [checker[r] EXCEPT !.pc = "spending"]
      <4>1. CheckerTo(r, y) /\ y \in CheckerRecords /\ y.pc = "spending"
        BY <1>t, <2>1, <3>1 DEF CallerActs, CodesTypeOK, CheckerRecords
      <4> HIDE DEF y
      <4> QED  BY <4>1
    <3>2. CASE CheckDeletes(r) \/ CallerRefuses(r) \/ Consume(r) \/ CheckerDies(r)
      BY <3>2 DEF CheckDeletes, CallerRefuses, Consume, CheckerDies
    <3> QED  BY <1>7, <3>1, <3>2
  <2> QED  BY <1>c, <2>1, <2>2, <2>3
<1>8. CASE CodeExpires \/ HourPasses \/ UNCHANGED codesVars
  <2>1. code' \in {0, code} /\ UNCHANGED <<attempts, drawn, tried, sender, checker, regime>>
    BY <1>8 DEF CodeExpires, HourPasses, codesVars
  <2> QED  BY <1>5, <2>1
<1> QED  BY <1>1, <1>2, <1>3, <1>4, <1>6, <1>7, <1>8 DEF CodesNext

LEMMA CapHolds == CodesSpec => []CapInv
<1>1. ASSUME CodesInit PROVE CapInv
  <2>1. CodesTypeOK /\ OneRequest /\ code = 0 /\ drawn = 0 /\ \A c \in CodeNames : tried[c] = 0
    BY <1>1, CodeBounds DEF CodesInit, CodesTypeOK, OneRequest, CodeNames
  <2>2. SendersAt("resetting") = {} /\ CheckersAt("looking") = {}
    BY <1>1 DEF CodesInit, SendersAt, CheckersAt
  <2>3. Bound \in Nat
    BY CountsAreFinite, CodeBounds, Times DEF Bound
  <2> QED  BY <2>1, <2>2, <2>3, CodeBounds DEF CapInv
<1> QED  BY <1>1, CapStep, PTL DEF CodesSpec

(* Type correctness of the one-time codes, for any senders and checkers.    *)
THEOREM CodesTypeCorrect == CodesSpec => []CodesTypeOK
<1>1. CapInv => CodesTypeOK
  BY DEF CapInv
<1> QED  BY <1>1, CapHolds, PTL

(* Guessing stays capped (assertValid): MaxAttempts guesses meet a code     *)
(* where requests take turns, whatever is lost; where they overlap, one     *)
(* more round for each sender and one more guess for each checker.         *)
THEOREM GuessingIsCapped == CodesSpec => []GuessesAreCapped
<1>1. CapInv => GuessesAreCapped
  BY DEF CapInv, GuessesAreCapped, Bound
<1> QED  BY <1>1, CapHolds, PTL

LEMMA OneSender ==
  ASSUME CodesTypeOK, OneRequest, regime = "single", NEW r \in Senders, sender[r] # None \/ MayAsk(sender, r),
         NEW x \in SenderRecords \cup {None}, SenderTo(r, x), UNCHANGED <<checker, regime>>
  PROVE  /\ sender'[r] = x
         /\ \A pc : SendersAt(pc)' = IF x # None /\ x.pc = pc THEN {r} ELSE {}
         /\ \A pc : SendersAt(pc) = IF sender[r] # None /\ sender[r].pc = pc THEN {r} ELSE {}
         /\ \A pc : CheckersAt(pc)' = {} /\ CheckersAt(pc) = {}
<1>1. /\ sender'[r] = x
      /\ \A pc : SendersAt(pc)' = IF x # None /\ x.pc = pc THEN SendersAt(pc) \cup {r} ELSE SendersAt(pc) \ {r}
      /\ \A pc : CheckersAt(pc)' = CheckersAt(pc)
      /\ \A pc : CheckersAt(pc) = {} /\ SendersAt(pc) \ {r} = {}
  BY SenderMoves DEF InTurn
<1>2. ASSUME NEW pc PROVE SendersAt(pc) = IF sender[r] # None /\ sender[r].pc = pc THEN {r} ELSE {}
  BY <1>1 DEF SendersAt
<1> QED  BY <1>1, <1>2

LEMMA OneChecker ==
  ASSUME CodesTypeOK, OneRequest, regime = "single", NEW r \in Checkers, checker[r] # None \/ MayAsk(checker, r),
         NEW x \in CheckerRecords \cup {None}, CheckerTo(r, x), UNCHANGED <<sender, regime>>
  PROVE  /\ checker'[r] = x
         /\ \A pc : CheckersAt(pc)' = IF x # None /\ x.pc = pc THEN {r} ELSE {}
         /\ \A pc : CheckersAt(pc) = IF checker[r] # None /\ checker[r].pc = pc THEN {r} ELSE {}
         /\ \A pc : SendersAt(pc)' = {} /\ SendersAt(pc) = {}
<1>1. /\ checker'[r] = x
      /\ \A pc : CheckersAt(pc)' = IF x # None /\ x.pc = pc THEN CheckersAt(pc) \cup {r} ELSE CheckersAt(pc) \ {r}
      /\ \A pc : SendersAt(pc)' = SendersAt(pc)
      /\ \A pc : SendersAt(pc) = {} /\ CheckersAt(pc) \ {r} = {}
  BY CheckerMoves DEF InTurn
<1>2. ASSUME NEW pc PROVE CheckersAt(pc) = IF checker[r] # None /\ checker[r].pc = pc THEN {r} ELSE {}
  BY <1>1 DEF CheckersAt
<1> QED  BY <1>1, <1>2

LEMMA WorkStep == CapInv /\ WorkInv /\ [CodesNext]_codesVars => WorkInv'
<1> SUFFICES ASSUME CapInv, WorkInv, [CodesNext]_codesVars, regime' = "single" PROVE WorkInv'
  BY DEF WorkInv
<1> USE CodeBounds DEF codeKeys, codeHistory
<1>t. /\ CodesTypeOK /\ OneRequest /\ rate \in [count : Nat, expires : BOOLEAN] /\ attempts \in Nat
      /\ code \in 0..MaxCodes /\ drawn \in 0..MaxCodes /\ mailed \in 0..MaxCodes /\ expired \subseteq CodeNames
      /\ tried \in [CodeNames -> Nat] /\ acted \in [CodeNames -> Nat]
  BY DEF CapInv, CodesTypeOK
<1>r. regime = "single" /\ ~MayDie
  BY DEF CodesNext, RequestCounts, RequestExpires, RequestRefused, RequestStores, RequestResets, RequestMails, SenderDies,
         CheckCounts, CheckDeletes, CheckLooks, CallerRefuses, CallerActs, Consume, CheckerDies, CodeExpires, HourPasses,
         codesVars, MayDie
<1>i. Known /\ HourEnds /\ Stored /\ Sending /\ Checking
  BY <1>r DEF WorkInv
(* A sender before its code is drawn, or refused.                           *)
<1>s. ASSUME NEW r \in Senders, NEW x \in SenderRecords \cup {None}, SenderTo(r, x),
             (sender[r] # None /\ sender[r].pc \notin {"resetting", "mailing"}) \/ MayAsk(sender, r),
             x # None => x.pc \notin {"resetting", "mailing"},
             UNCHANGED <<code, attempts, codeHistory, checker, regime>>, HourEnds'
      PROVE  WorkInv'
  <2>1. /\ \A pc : SendersAt(pc)' = IF x # None /\ x.pc = pc THEN {r} ELSE {}
        /\ \A pc : SendersAt(pc) = IF sender[r] # None /\ sender[r].pc = pc THEN {r} ELSE {}
        /\ \A pc : CheckersAt(pc)' = {} /\ CheckersAt(pc) = {}
    BY <1>s, <1>t, <1>r, OneSender
  <2>2. SendersAt("resetting") \cup SendersAt("mailing") = {} /\ SendersAt("resetting")' \cup SendersAt("mailing")' = {}
    BY <1>s, <2>1 DEF MayAsk
  <2>3. Known'
    BY <1>s, <1>i DEF Known
  <2>4. Stored' /\ Sending'
    BY <1>s, <1>i, <2>1, <2>2 DEF Stored, Sending, Works
  <2>5. Checking'
    BY <1>s, <1>i, <2>1 DEF Checking
  <2> QED  BY <1>s, <2>3, <2>4, <2>5 DEF WorkInv
<1>1. ASSUME NEW r \in Senders, RequestCounts(r) PROVE WorkInv'
  <2> DEFINE x == [pc |-> IF rate.count = 0 THEN "expiring" ELSE IF rate.count < MaxPerHour THEN "storing" ELSE "refused",
                   code |-> 0]
  <2>1. /\ MayAsk(sender, r) /\ SenderTo(r, x) /\ rate' = [rate EXCEPT !.count = rate.count + 1]
        /\ UNCHANGED <<code, attempts, codeHistory, checker, regime>>
    BY <1>1 DEF RequestCounts
  <2>2. x \in SenderRecords /\ x.pc \notin {"resetting", "mailing"} /\ (rate.count = 0 => x.pc = "expiring")
    BY DEF SenderRecords
  <2> HIDE DEF x
  <2>3. /\ \A pc : SendersAt(pc)' = IF x # None /\ x.pc = pc THEN {r} ELSE {}
        /\ \A pc : SendersAt(pc) = IF sender[r] # None /\ sender[r].pc = pc THEN {r} ELSE {}
    BY <1>t, <1>r, <2>1, <2>2, OneSender
  <2>4. HourEnds'
    <3>1. rate.count = 0 => SendersAt("expiring")' # {}
      BY <2>2, <2>3, NoneIsNoSender
    <3>2. rate'.expires = rate.expires /\ rate.count \in Nat
      BY <1>t, <2>1
    <3>3. SendersAt("expiring") = {}
      BY <2>1, <2>3 DEF MayAsk
    <3> QED  BY <1>i, <3>1, <3>2, <3>3 DEF HourEnds
  <2> QED  BY <1>s, <2>1, <2>2, <2>4
<1>2. ASSUME NEW r \in Senders, RequestExpires(r) PROVE WorkInv'
  <2> DEFINE x == [pc |-> "storing", code |-> 0]
  <2>1. /\ sender[r] # None /\ sender[r].pc = "expiring" /\ SenderTo(r, x) /\ rate' = [rate EXCEPT !.expires = TRUE]
        /\ UNCHANGED <<code, attempts, codeHistory, checker, regime>>
    BY <1>2 DEF RequestExpires
  <2>2. x \in SenderRecords /\ x.pc \notin {"resetting", "mailing"}
    BY DEF SenderRecords
  <2> HIDE DEF x
  <2>3. HourEnds'
    <3>1. rate'.expires
      BY <1>t, <2>1
    <3> QED  BY <3>1 DEF HourEnds
  <2> QED  BY <1>s, <2>1, <2>2, <2>3
<1>3. ASSUME NEW r \in Senders, RequestRefused(r) PROVE WorkInv'
  <2>1. /\ sender[r] # None /\ sender[r].pc = "refused" /\ SenderTo(r, None)
        /\ UNCHANGED <<rate, code, attempts, codeHistory, checker, regime>>
    BY <1>3 DEF RequestRefused
  <2>2. SendersAt("expiring") = {}
    BY <1>t, <1>r, <2>1, OneSender
  <2>3. HourEnds'
    BY <1>i, <2>1, <2>2 DEF HourEnds
  <2> QED  BY <1>s, <2>1, <2>3
<1>4. ASSUME NEW r \in Senders, RequestStores(r) PROVE WorkInv'
  <2> DEFINE x == [pc |-> "resetting", code |-> drawn + 1]
  <2>1. /\ sender[r] # None /\ sender[r].pc = "storing" /\ drawn < MaxCodes /\ drawn' = drawn + 1 /\ code' = drawn + 1
        /\ SenderTo(r, x) /\ UNCHANGED <<rate, attempts, mailed, expired, tried, acted, checker, regime>>
    BY <1>4 DEF RequestStores
  <2>2. x \in SenderRecords /\ x.pc = "resetting" /\ x.code = drawn + 1
    BY <1>t, <2>1 DEF SenderRecords
  <2> HIDE DEF x
  <2>3. /\ sender'[r] = x
        /\ \A pc : SendersAt(pc)' = IF x.pc = pc THEN {r} ELSE {}
        /\ \A pc : SendersAt(pc) = IF sender[r].pc = pc THEN {r} ELSE {}
        /\ \A pc : CheckersAt(pc)' = {} /\ CheckersAt(pc) = {}
    BY <1>t, <1>r, <2>1, <2>2, OneSender, NoneIsNoSender
  <2>4. /\ drawn + 1 \in CodeNames /\ drawn + 1 > drawn /\ drawn + 1 # 0
        /\ tried[drawn + 1] = 0 /\ acted[drawn + 1] = 0
    <3>1. drawn + 1 \in CodeNames /\ drawn + 1 > drawn /\ drawn + 1 # 0
      BY <1>t, <2>1 DEF CodeNames
    <3> QED  BY <1>i, <3>1 DEF CapInv, Known
  <2>5. Known'
    BY <1>t, <1>i, <2>1 DEF Known, CodeNames
  <2>6. HourEnds'
    BY <1>i, <2>1, <2>3 DEF HourEnds
  <2>7. Stored'
    BY <2>2, <2>3 DEF Stored
  <2>8. Sending'
    BY <2>1, <2>2, <2>3, <2>4 DEF Sending
  <2>9. Checking'
    BY <2>1, <2>3, <2>4 DEF Checking
  <2> QED  BY <2>5, <2>6, <2>7, <2>8, <2>9 DEF WorkInv
<1>5. ASSUME NEW r \in Senders, RequestResets(r) PROVE WorkInv'
  <2> DEFINE x == [sender[r] EXCEPT !.pc = "mailing"]
  <2>1. /\ sender[r] # None /\ sender[r].pc = "resetting" /\ attempts' = 0 /\ sender[r] \in SenderRecords
        /\ SenderTo(r, x) /\ UNCHANGED <<rate, code, codeHistory, checker, regime>>
    BY <1>5, <1>t DEF RequestResets, CodesTypeOK
  <2>2. x \in SenderRecords /\ x.pc = "mailing" /\ x.code = sender[r].code
    BY <2>1 DEF SenderRecords
  <2> HIDE DEF x
  <2>3. /\ sender'[r] = x
        /\ \A pc : SendersAt(pc)' = IF x.pc = pc THEN {r} ELSE {}
        /\ \A pc : SendersAt(pc) = IF sender[r].pc = pc THEN {r} ELSE {}
        /\ \A pc : CheckersAt(pc)' = {} /\ CheckersAt(pc) = {}
    BY <1>t, <1>r, <2>1, <2>2, OneSender, NoneIsNoSender
  <2>4. Known' /\ HourEnds'
    BY <1>i, <2>1, <2>3 DEF Known, HourEnds
  <2>5. Stored' /\ Checking'
    BY <1>i, <2>1, <2>2, <2>3 DEF Stored, Checking
  <2>6. Sending'
    BY <1>i, <2>1, <2>2, <2>3 DEF Sending
  <2> QED  BY <2>4, <2>5, <2>6 DEF WorkInv
<1>6. ASSUME NEW r \in Senders, RequestMails(r) PROVE WorkInv'
  <2>1. /\ sender[r] # None /\ sender[r].pc = "mailing" /\ mailed' = sender[r].code
        /\ SenderTo(r, None) /\ UNCHANGED <<rate, code, attempts, drawn, expired, tried, acted, checker, regime>>
    BY <1>6 DEF RequestMails
  <2>2. /\ \A pc : SendersAt(pc)' = {}
        /\ \A pc : SendersAt(pc) = IF sender[r].pc = pc THEN {r} ELSE {}
        /\ \A pc : CheckersAt(pc)' = {} /\ CheckersAt(pc) = {}
    BY <1>t, <1>r, <2>1, OneSender
  <2>3. /\ mailed' = drawn /\ drawn # 0 /\ tried[drawn] = 0 /\ acted[drawn] = 0
        /\ code = drawn \/ (code = 0 /\ drawn \in expired)
        /\ attempts = 0
    BY <1>i, <2>1, <2>2 DEF Sending
  <2>4. Known' /\ HourEnds' /\ Sending'
    BY <1>t, <1>i, <2>1, <2>2, <2>3 DEF Known, HourEnds, Sending
  <2>5. Stored'
    BY <2>1, <2>2, <2>3 DEF Stored, Works
  <2>6. Checking'
    BY <1>i, <2>1, <2>2 DEF Checking
  <2> QED  BY <2>4, <2>5, <2>6 DEF WorkInv
<1>7. ASSUME NEW r \in Checkers, NEW guess \in 0..MaxCodes, CheckCounts(r, guess) PROVE WorkInv'
  <2> DEFINE x == [pc |-> IF attempts < MaxAttempts THEN "looking" ELSE "capped", guess |-> guess]
  <2>1. /\ MayAsk(checker, r) /\ checker[r] = None /\ attempts' = attempts + 1 /\ CheckerTo(r, x)
        /\ UNCHANGED <<rate, code, codeHistory, sender, regime>>
    BY <1>7 DEF CheckCounts, MayAsk
  <2>2. x \in CheckerRecords /\ x.pc = (IF attempts < MaxAttempts THEN "looking" ELSE "capped")
    BY DEF CheckerRecords
  <2> HIDE DEF x
  <2>3. /\ \A pc : CheckersAt(pc)' = IF x.pc = pc THEN {r} ELSE {}
        /\ \A pc : CheckersAt(pc) = {}
        /\ \A pc : SendersAt(pc)' = {} /\ SendersAt(pc) = {}
    BY <1>t, <1>r, <2>1, <2>2, OneChecker, NoneIsNoSender
  <2>4. code \in {0, mailed} /\ (Works => code = mailed /\ attempts = tried[mailed])
    <3>1. code \in {0, mailed} /\ (Works => code = mailed /\ attempts = tried[mailed] + 0)
      BY <1>i, <2>3 DEF Stored
    <3>2. Works => tried[mailed] \in Nat
      BY <1>t DEF Works, CodeNames
    <3> QED  BY <3>1, <3>2
  <2>5. Known' /\ HourEnds' /\ Sending'
    BY <1>i, <2>1, <2>3 DEF Known, HourEnds, Sending
  <2>6. Works' <=> Works
    BY <2>1 DEF Works
  <2>7. Works => attempts < MaxAttempts
    BY <2>4 DEF Works
  <2>8. Stored'
    BY <2>1, <2>2, <2>3, <2>4, <2>6, <2>7 DEF Stored
  <2>9. Checking'
    BY <1>i, <2>1, <2>2, <2>3, <2>6, <2>7 DEF Checking
  <2> QED  BY <2>5, <2>8, <2>9 DEF WorkInv
(* A checker that ends or goes on, and leaves the keys alone.               *)
<1>c. ASSUME NEW r \in Checkers, NEW x \in CheckerRecords \cup {None}, CheckerTo(r, x), checker[r] # None,
             checker[r].pc # "looking", x # None => x.pc = "spending",
             UNCHANGED <<rate, drawn, mailed, expired, tried, sender, regime>>,
             UNCHANGED <<code, attempts>> \/ (code' = 0 /\ ~Works),
             acted' = acted \/ ~Works', Known',
             x # None => mailed # 0 /\ acted'[mailed] = 1,
             code' # 0 /\ x = None => acted'[code'] = 0
      PROVE  WorkInv'
  <2>1. /\ \A pc : CheckersAt(pc)' = IF x # None /\ x.pc = pc THEN {r} ELSE {}
        /\ \A pc : CheckersAt(pc) = IF checker[r].pc = pc THEN {r} ELSE {}
        /\ \A pc : SendersAt(pc)' = {} /\ SendersAt(pc) = {}
    BY <1>c, <1>t, <1>r, OneChecker
  <2>2. code \in {0, mailed} /\ (Works => code = mailed /\ attempts = tried[mailed] + 0)
    BY <1>c, <1>i, <2>1 DEF Stored
  <2>3. HourEnds' /\ Sending'
    BY <1>c, <1>i, <2>1 DEF HourEnds, Sending
  <2>4. Works' => Works
    BY <1>c DEF Works
  <2>5. Stored'
    BY <1>c, <2>1, <2>2, <2>4 DEF Stored
  <2>6. Checking'
    BY <1>c, <2>1 DEF Checking
  <2> QED  BY <1>c, <2>3, <2>5, <2>6 DEF WorkInv
<1>8. ASSUME NEW r \in Checkers, CheckDeletes(r) \/ CallerRefuses(r) \/ Consume(r) PROVE WorkInv'
  <2>1. /\ checker[r] # None /\ checker[r].pc \in {"capped", "valid", "spending"} /\ CheckerTo(r, None)
        /\ UNCHANGED <<rate, codeHistory, sender, regime>>
        /\ code' = 0 \/ (checker[r].pc = "valid" /\ UNCHANGED <<code, attempts>>)
        /\ checker[r].pc = "valid" => UNCHANGED <<code, attempts>>
    BY <1>8 DEF CheckDeletes, CallerRefuses, Consume
  <2>2. \A pc : CheckersAt(pc) = IF checker[r].pc = pc THEN {r} ELSE {}
    BY <1>t, <1>r, <2>1, OneChecker
  <2>3. UNCHANGED <<code, attempts>> \/ (code' = 0 /\ ~Works)
    BY <1>i, <2>1, <2>2 DEF Checking, Works
  <2>4. Known'
    BY <1>i, <2>1 DEF Known
  <2>5. code' # 0 => acted'[code'] = 0
    BY <1>i, <2>1, <2>2 DEF Checking
  <2>6. checker[r].pc # "looking" /\ acted' = acted
    BY <2>1
  <2> QED  BY <1>c, <2>1, <2>3, <2>4, <2>5, <2>6
<1>9. ASSUME NEW r \in Checkers, CallerActs(r) PROVE WorkInv'
  <2> DEFINE x == [checker[r] EXCEPT !.pc = "spending"]
  <2>1. /\ checker[r] # None /\ checker[r].pc = "valid" /\ checker[r] \in CheckerRecords /\ CheckerTo(r, x)
        /\ acted' = [acted EXCEPT ![checker[r].guess] = acted[checker[r].guess] + 1]
        /\ UNCHANGED <<rate, code, attempts, drawn, mailed, expired, tried, sender, regime>>
    BY <1>9, <1>t DEF CallerActs, CodesTypeOK
  <2>2. x \in CheckerRecords /\ x.pc = "spending"
    BY <2>1 DEF CheckerRecords
  <2> HIDE DEF x
  <2>3. \A pc : CheckersAt(pc) = IF checker[r].pc = pc THEN {r} ELSE {}
    BY <1>t, <1>r, <2>1, <2>2, OneChecker
  <2>4. checker[r].guess = mailed /\ mailed # 0 /\ mailed \in CodeNames /\ acted[mailed] = 0
    BY <1>i, <1>t, <2>1, <2>3 DEF Checking, CodeNames
  <2>5. acted'[mailed] = 1 /\ \A c \in CodeNames : c # mailed => acted'[c] = acted[c]
    BY <1>t, <2>1, <2>4
  <2>6. Known'
    <3>1. mailed <= drawn
      BY <1>i DEF Known
    <3>2. ASSUME NEW c \in CodeNames PROVE acted'[c] <= 1 /\ (c > drawn => c \notin expired /\ acted'[c] = 0)
      <4>1. CASE c = mailed
        BY <1>t, <1>i, <2>5, <3>1, <4>1 DEF Known, CodeNames
      <4>2. CASE c # mailed
        BY <1>i, <2>5, <4>2 DEF Known
      <4> QED  BY <4>1, <4>2
    <3> QED  BY <2>1, <3>1, <3>2 DEF Known
  <2>7. ~Works'
    BY <2>1, <2>5 DEF Works
  <2>8. x # None /\ checker[r].pc # "looking"
    BY <2>1, <2>2, NoneIsNoSender
  <2> QED  BY <1>c, <2>1, <2>2, <2>4, <2>5, <2>6, <2>7, <2>8
<1>10. ASSUME NEW r \in Checkers, CheckLooks(r) PROVE WorkInv'
  <2>1. /\ checker[r] # None /\ checker[r].pc = "looking" /\ checker[r] \in CheckerRecords /\ tried' = Compared(r)
        /\ UNCHANGED <<rate, code, attempts, drawn, mailed, expired, acted, sender, regime>>
    BY <1>10, <1>t DEF CheckLooks, CodesTypeOK
  <2>2. PICK x \in CheckerRecords \cup {None} :
          CheckerTo(r, x) /\ (x # None => x.pc = "valid" /\ x.guess = code /\ code # 0)
    <3> DEFINE y == [checker[r] EXCEPT !.pc = "valid"]
    <3>1. y \in CheckerRecords /\ y.pc = "valid" /\ y.guess = checker[r].guess
      BY <2>1 DEF CheckerRecords
    <3>2. (CheckerTo(r, y) /\ Matches(r)) \/ CheckerTo(r, None)
      BY <1>10 DEF CheckLooks
    <3> HIDE DEF y
    <3> QED  BY <3>1, <3>2 DEF Matches
  <2>3. /\ checker'[r] = x
        /\ \A pc : CheckersAt(pc)' = IF x # None /\ x.pc = pc THEN {r} ELSE {}
        /\ \A pc : CheckersAt(pc) = IF checker[r].pc = pc THEN {r} ELSE {}
        /\ \A pc : SendersAt(pc)' = {} /\ SendersAt(pc) = {}
    BY <1>t, <1>r, <2>1, <2>2, OneChecker
  <2>4. code \in {0, mailed} /\ (Works => code = mailed /\ attempts = tried[mailed] + 1)
    BY <1>i, <2>1, <2>3 DEF Stored
  <2>5. Known' /\ HourEnds' /\ Sending'
    BY <1>i, <2>1, <2>3 DEF Known, HourEnds, Sending
  <2>6. Works' => Works /\ tried'[mailed] = tried[mailed] + 1
    <3>1. CASE code = 0
      BY <2>1, <2>4, <3>1 DEF Works, Compared
    <3>2. CASE code # 0
      <4>1. code = mailed /\ mailed \in CodeNames
        BY <1>t, <2>4, <3>2 DEF CodeNames
      <4>2. tried'[mailed] = tried[mailed] + 1 /\ tried[mailed] \in Nat
        BY <1>t, <2>1, <3>2, <4>1 DEF Compared
      <4>3. tried'[mailed] < MaxAttempts => tried[mailed] < MaxAttempts
        BY <4>2
      <4>4. Works' => Works
        BY <2>1, <4>3 DEF Works
      <4> QED  BY <4>2, <4>4
    <3> QED  BY <3>1, <3>2
  <2>7. Stored'
    <3>1. Works' => code = mailed /\ attempts' = tried'[mailed'] + 0
      BY <1>t, <2>1, <2>4, <2>6
    <3>2. CheckersAt("looking")' = {}
      BY <2>2, <2>3
    <3>3. code' \in {0, mailed'} /\ (Works' => code' = mailed')
      BY <2>1, <2>4, <3>1
    <3> QED  BY <3>1, <3>2, <3>3 DEF Stored
  <2>8. code # 0 => acted[code] = 0 /\ code = mailed
    BY <1>i, <2>1, <2>3, <2>4 DEF Checking
  <2>9. Checking'
    BY <2>1, <2>2, <2>3, <2>8 DEF Checking
  <2> QED  BY <2>5, <2>7, <2>9 DEF WorkInv
<1>11. CASE CodeExpires
  <2>1. /\ code # 0 /\ expired' = expired \cup {code} /\ code' = 0 /\ code \in CodeNames
        /\ UNCHANGED <<rate, attempts, drawn, mailed, tried, acted, sender, checker, regime>>
    BY <1>11, <1>t DEF CodeExpires, CodeNames
  <2>2. \A pc : SendersAt(pc)' = SendersAt(pc) /\ CheckersAt(pc)' = CheckersAt(pc)
    BY <2>1 DEF SendersAt, CheckersAt
  <2>3. Known'
    <3>1. code <= drawn
      BY DEF CapInv
    <3>2. ~(code > drawn)
      BY <1>t, <3>1
    <3> QED  BY <1>i, <2>1, <3>2 DEF Known
  <2>4. Works' => Works /\ mailed # code
    BY <2>1 DEF Works
  <2>5. HourEnds' /\ Stored' /\ Sending' /\ Checking'
    BY <1>i, <2>1, <2>2, <2>4 DEF HourEnds, Stored, Sending, Checking
  <2> QED  BY <2>3, <2>5 DEF WorkInv
<1>12. CASE HourPasses \/ UNCHANGED codesVars
  <2>1. /\ rate' = rate \/ rate'.count = 0
        /\ UNCHANGED <<code, attempts, drawn, mailed, expired, tried, acted, sender, checker, regime>>
    BY <1>12 DEF HourPasses, codesVars
  <2>2. \A pc : SendersAt(pc)' = SendersAt(pc) /\ CheckersAt(pc)' = CheckersAt(pc)
    BY <2>1 DEF SendersAt, CheckersAt
  <2>3. HourEnds'
    BY <1>i, <2>1, <2>2 DEF HourEnds
  <2>4. Known' /\ Stored' /\ Sending' /\ Checking'
    BY <1>i, <2>1, <2>2 DEF Known, Stored, Sending, Checking, Works
  <2> QED  BY <2>3, <2>4 DEF WorkInv
<1>13. \A r : ~SenderDies(r) /\ ~CheckerDies(r)
  BY <1>r DEF SenderDies, CheckerDies
<1> QED  BY <1>1, <1>2, <1>3, <1>4, <1>5, <1>6, <1>7, <1>8, <1>9, <1>10, <1>11, <1>12, <1>13 DEF CodesNext

(* One at a time: the last code that was mailed works until it was spent,   *)
(* is over or was guessed at too often, and works once; and what counts the *)
(* requests ends with its hour (requestOtp, assertValid, consume).         *)
THEOREM MailedCodesWork == CodesSpec => []CodesWork
<1>1. ASSUME CodesInit PROVE WorkInv
  <2>1. /\ rate = [count |-> 0, expires |-> FALSE] /\ code = 0 /\ mailed = 0 /\ drawn = 0 /\ expired = {}
        /\ \A c \in CodeNames : acted[c] = 0
        /\ \A pc : SendersAt(pc) = {} /\ CheckersAt(pc) = {}
    BY <1>1 DEF CodesInit, SendersAt, CheckersAt
  <2> QED  BY <2>1 DEF WorkInv, Known, HourEnds, Stored, Works, Sending, Checking
<1>2. ASSUME CapInv, WorkInv PROVE CodesWork
  <2> SUFFICES ASSUME regime = "single", CodesIdle PROVE CodesWork
    BY DEF CodesWork
  <2>1. \A pc : SendersAt(pc) = {} /\ CheckersAt(pc) = {}
    BY <1>2 DEF CapInv, CodesTypeOK, CodesIdle, Idle, SendersAt, CheckersAt
  <2>2. Works => code = mailed /\ attempts = tried[mailed] + 0
    BY <1>2, <2>1 DEF WorkInv, Stored
  <2>3. Works => tried[mailed] \in Nat
    BY <1>2 DEF CapInv, CodesTypeOK, CodeNames, Works
  <2>4. (\A c \in CodeNames : acted[c] <= 1) /\ (rate.count > 0 => rate.expires)
    BY <1>2, <2>1 DEF WorkInv, Known, HourEnds
  <2> QED  BY <2>2, <2>3, <2>4 DEF CodesWork, Works
<1> QED  BY <1>1, <1>2, WorkStep, CapHolds, PTL DEF CodesSpec

-----------------------------------------------------------------------------
(* Accounts.  What a request holds, by its step.                            *)
CallFits(c) ==
  /\ c.pc \in {"creating", "saving", "revoking"} => c.d \in Delegates /\ c.row \in AccountRows
  /\ c.pc = "claiming" => c.d \in Delegates /\ c.e \in Entries
  /\ c.pc = "counting" => c.d \in Delegates /\ c.row \in AccountRows \cup {None}
  /\ c.pc = "deleting" => c.d \in Delegates
  /\ c.pc = "saveEntry" => c.e \in Entries /\ c.row \in EntryRows

(* In turn, whoever is about to go is not the last administrator.           *)
Guarded(c) ==
  /\ c.pc = "revoking" => Admins \ {c.d} # {}
  /\ c.pc = "deleting" => c.d \notin Admins \/ Admins \ {c.d} # {}

(* One at a time, what was read still holds when it is written.             *)
Current(c) ==
  /\ c.pc = "creating" => ~Exists(c.d) /\ c.e \in Unclaimed \cup {None} /\ c.row.via = c.e
  /\ c.pc = "claiming" => c.e \in Unclaimed /\ Exists(c.d) /\ account[c.d].via = c.e
  /\ c.pc \in {"saving", "revoking", "counting"} /\ c.row # None => Exists(c.d) /\ c.row.via = account[c.d].via
  /\ c.pc = "saveEntry" => c.e \in Rows /\ c.row.by = entry[c.e].by

GrantedTo(e, d) == entry[e].by = d <=> Exists(d) /\ account[d].via = e

OneAccountCall == InTurn => \A q, r \in AccountCalls : call[q] # None /\ call[r] # None => q = r

AccountsInv ==
  /\ AccountsTypeOK /\ OneAccountCall
  /\ \A r \in AccountCalls : call[r] # None =>
       CallFits(call[r]) /\ (InTurn => Guarded(call[r])) /\ (regime = "single" => Current(call[r]))
  /\ regime = "single" => \A e \in Rows, d \in Delegates :
       GrantedTo(e, d) \/ \E r \in AccountCalls : At(r, "claiming") /\ call[r].e = e /\ call[r].d = d

(* A step of one request, whatever it writes.                               *)
LEMMA CallStep ==
  ASSUME AccountsInv, NEW r \in AccountCalls, call[r] # None \/ MayStart(call, r),
         NEW x \in Calls \cup {None}, call' = [call EXCEPT ![r] = x], regime' = regime,
         account' \in [Delegates -> AccountRows \cup {None}], entry' \in [Entries -> EntryRows \cup {None}],
         x # None => CallFits(x), InTurn /\ x # None => Guarded(x)', regime = "single" /\ x # None => Current(x)',
         regime = "single" => \A e \in Rows', d \in Delegates :
           GrantedTo(e, d)' \/ (x # None /\ x.pc = "claiming" /\ x.e = e /\ x.d = d)
  PROVE  AccountsInv'
<1>1. /\ call' \in [AccountCalls -> Calls \cup {None}] /\ call'[r] = x
      /\ \A q \in AccountCalls : q # r => call'[q] = call[q]
  BY DEF AccountsInv, AccountsTypeOK
<1>2. InTurn => \A q \in AccountCalls : q # r => call[q] = None
  BY DEF AccountsInv, AccountsTypeOK, OneAccountCall, MayStart, Idle
<1>3. AccountsTypeOK' /\ OneAccountCall'
  BY <1>1, <1>2 DEF AccountsInv, AccountsTypeOK, OneAccountCall, InTurn
<1>4. ASSUME NEW q \in AccountCalls, call'[q] # None
      PROVE  CallFits(call[q])' /\ (InTurn' => Guarded(call[q])') /\ (regime' = "single" => Current(call[q])')
  <2>1. CASE q = r
    <3>1. InTurn' => InTurn
      BY DEF InTurn
    <3>2. call'[q] = x /\ x # None
      BY <1>1, <1>4, <2>1
    <3> QED  BY <3>1, <3>2 DEF CallFits, Guarded, Current
  <2>2. CASE q # r
    <3>1. call'[q] = call[q] /\ ~InTurn' /\ regime' # "single"
      BY <1>1, <1>2, <1>4, <2>2 DEF InTurn
    <3> QED  BY <1>4, <3>1 DEF AccountsInv, CallFits
  <2> QED  BY <2>1, <2>2
<1>5. ASSUME regime' = "single", NEW e \in Rows', NEW d \in Delegates
      PROVE  GrantedTo(e, d)' \/ \E q \in AccountCalls : At(q, "claiming")' /\ call'[q].e = e /\ call'[q].d = d
  BY <1>1, <1>5 DEF At
<1> QED  BY <1>3, <1>4, <1>5 DEF AccountsInv

LEMMA AccountsStep == AccountsInv /\ [AccountsNext]_accountsVars => AccountsInv'
<1> SUFFICES ASSUME AccountsInv, [AccountsNext]_accountsVars PROVE AccountsInv'
  OBVIOUS
<1> USE NoneIsNoRow, AccountTiers
<1>t. /\ account \in [Delegates -> AccountRows \cup {None}] /\ entry \in [Entries -> EntryRows \cup {None}]
      /\ call \in [AccountCalls -> Calls \cup {None}]
      /\ \A r \in AccountCalls : call[r] # None => call[r] \in Calls /\ CallFits(call[r])
  BY DEF AccountsInv, AccountsTypeOK
(* Where no claim is being made, whoever has an entry has its account.      *)
<1>g. ASSUME regime = "single", NEW r \in AccountCalls, call[r] # None => call[r].pc # "claiming",
             call[r] # None \/ MayStart(call, r), NEW e \in Rows, NEW d \in Delegates
      PROVE  GrantedTo(e, d)
  <2>1. \A q \in AccountCalls : call[q] # None => q = r
    BY <1>g, <1>t DEF AccountsInv, OneAccountCall, InTurn, MayStart, Idle
  <2> QED  BY <1>g, <2>1 DEF AccountsInv, At
(* Requests that read, or end.                                              *)
<1>c. ASSUME NEW r \in AccountCalls, call[r] # None \/ MayStart(call, r), UNCHANGED <<account, entry, regime>>,
             regime = "single" /\ call[r] # None => call[r].pc # "claiming",
             NEW x \in Calls \cup {None}, call' = [call EXCEPT ![r] = x],
             x # None => CallFits(x), InTurn /\ x # None => Guarded(x), regime = "single" /\ x # None => Current(x)
      PROVE  AccountsInv'
  <2>1. \A d : Exists(d)' <=> Exists(d)
    BY <1>c DEF Exists
  <2>2. Admins' = Admins /\ Rows' = Rows /\ Unclaimed' = Unclaimed
    BY <1>c, <2>1 DEF Admins, Rows, Unclaimed
  <2>3. InTurn /\ x # None => Guarded(x)'
    BY <1>c, <2>2 DEF Guarded
  <2>4. regime = "single" /\ x # None => Current(x)'
    BY <1>c, <2>1, <2>2 DEF Current
  <2>5. regime = "single" => \A e \in Rows', d \in Delegates : GrantedTo(e, d)'
    BY <1>c, <1>g, <2>1, <2>2 DEF GrantedTo
  <2> QED  BY <1>c, <1>t, <2>3, <2>4, <2>5, CallStep
<1>1. ASSUME NEW r \in AccountCalls, NEW d \in Delegates, NEW e \in Entries \cup {None}, RegisterReads(r, d, e)
      PROVE  AccountsInv'
  <2>1. PICK row : row = [tier |-> IF e = None THEN "standard" ELSE entry[e].tier, pending |-> FALSE, via |-> e]
    OBVIOUS
  <2> DEFINE x == [pc |-> "creating", d |-> d, e |-> e, row |-> row]
  <2>2. /\ MayStart(call, r) /\ call[r] = None /\ ~Exists(d) /\ e \in Unclaimed \cup {None}
        /\ call' = [call EXCEPT ![r] = x] /\ UNCHANGED <<account, entry, regime>>
    BY <1>1, <2>1 DEF RegisterReads, MayStart, Fresh, Matching, CallTo
  <2>3. row \in AccountRows /\ row.via = e
    <3>1. e # None => entry[e] \in EntryRows
      BY <1>t, <2>2 DEF Unclaimed, Rows
    <3>2. (IF e = None THEN "standard" ELSE entry[e].tier) \in Tiers
      BY <3>1 DEF EntryRows, Tiers
    <3> QED  BY <2>1, <3>2 DEF AccountRows
  <2>4. x \in Calls /\ CallFits(x) /\ Guarded(x) /\ Current(x)
    BY <2>2, <2>3 DEF Calls, CallFits, Guarded, Current
  <2> HIDE DEF x
  <2> QED  BY <1>c, <2>2, <2>4
<1>2. ASSUME NEW r \in AccountCalls, NEW d \in Delegates, NEW staff \in Staff, CreateStaffReads(r, d, staff)
      PROVE  AccountsInv'
  <2> DEFINE row == [tier |-> staff, pending |-> FALSE, via |-> None]
             x == [pc |-> "creating", d |-> d, e |-> None, row |-> row]
  <2>1. /\ MayStart(call, r) /\ call[r] = None /\ ~Exists(d)
        /\ call' = [call EXCEPT ![r] = x] /\ UNCHANGED <<account, entry, regime>>
    BY <1>2 DEF CreateStaffReads, MayStart, Fresh, CallTo
  <2>2. row \in AccountRows /\ row.via = None
    BY DEF AccountRows, Tiers
  <2> HIDE DEF row
  <2>3. x \in Calls /\ CallFits(x) /\ Guarded(x) /\ Current(x)
    BY <2>1, <2>2 DEF Calls, CallFits, Guarded, Current
  <2> HIDE DEF x
  <2> QED  BY <1>c, <2>1, <2>3
(* A row that was read and changed.                                         *)
<1>s. ASSUME NEW r \in AccountCalls, NEW d \in Delegates, MayStart(call, r), Exists(d), UNCHANGED <<account, entry, regime>>,
             NEW row, row = [account[d] EXCEPT !.tier = row.tier, !.pending = row.pending],
             row.tier \in Tiers, row.pending \in BOOLEAN, NEW pc \in {"saving", "counting"}, CallTo(r, pc, d, None, row)
      PROVE  AccountsInv'
  <2> DEFINE x == [pc |-> pc, d |-> d, e |-> None, row |-> row]
  <2>1. call[r] = None /\ call' = [call EXCEPT ![r] = x]
    BY <1>s DEF MayStart, CallTo
  <2>2. account[d] \in AccountRows
    BY <1>s, <1>t DEF Exists
  <2>3. row \in AccountRows /\ row.via = account[d].via
    BY <1>s, <2>2 DEF AccountRows
  <2>4. x \in Calls /\ CallFits(x) /\ Guarded(x) /\ Current(x)
    BY <1>s, <2>3 DEF Calls, CallFits, Guarded, Current
  <2> HIDE DEF x
  <2> QED  BY <1>c, <1>s, <2>1, <2>4
<1>3. ASSUME NEW r \in AccountCalls, NEW d \in Delegates,
             \/ \E tier \in Grantable : SetTier(r, d, tier)
             \/ SetApproval(r, d) \/ UpdateProfile(r, d)
             \/ \E staff \in Staff : GrantAdmin(r, d, staff)
             \/ \E by \in Delegates : RevokeAdmin(r, d, by)
      PROVE  AccountsInv'
  <2>1. MayStart(call, r) /\ Exists(d) /\ UNCHANGED <<account, entry, regime>> /\ account[d] \in AccountRows
    BY <1>3, <1>t DEF SetTier, SetApproval, UpdateProfile, GrantAdmin, RevokeAdmin, Exists
  <2>2. account[d].tier \in Tiers /\ account[d].pending \in BOOLEAN
    BY <2>1 DEF AccountRows
  <2>3. PICK tier \in Tiers, pending \in BOOLEAN, pc \in {"saving", "counting"} :
          CallTo(r, pc, d, None, [account[d] EXCEPT !.tier = tier, !.pending = pending])
    <3>1. ASSUME NEW tier \in Tiers
          PROVE  [account[d] EXCEPT !.tier = tier] = [account[d] EXCEPT !.tier = tier, !.pending = account[d].pending]
      BY <2>1 DEF AccountRows
    <3>2. ASSUME NEW pending \in BOOLEAN
          PROVE  [account[d] EXCEPT !.pending = pending] = [account[d] EXCEPT !.tier = account[d].tier, !.pending = pending]
      BY <2>1 DEF AccountRows
    <3>3. account[d] = [account[d] EXCEPT !.tier = account[d].tier, !.pending = account[d].pending]
      BY <2>1 DEF AccountRows
    <3>4. CASE \E tier \in Grantable : SetTier(r, d, tier)
      BY <3>4 DEF SetTier, Saves, Tiers
    <3>5. CASE SetApproval(r, d)
      <4>1. CallTo(r, "saving", d, None, [account[d] EXCEPT !.pending = ~account[d].pending]) /\ (~account[d].pending) \in BOOLEAN
        BY <2>2, <3>5 DEF SetApproval, Saves
      <4> QED  BY <2>2, <3>2, <4>1
    <3>6. CASE UpdateProfile(r, d)
      <4>1. CallTo(r, "saving", d, None, account[d])
        BY <3>6 DEF UpdateProfile, Saves
      <4> QED  BY <2>2, <3>3, <4>1
    <3>7. CASE \E staff \in Staff : GrantAdmin(r, d, staff)
      BY <2>2, <3>1, <3>7 DEF GrantAdmin, Saves, Tiers
    <3>8. CASE \E by \in Delegates : RevokeAdmin(r, d, by)
      <4>1. PICK pc \in {"saving", "counting"} : CallTo(r, pc, d, None, [account[d] EXCEPT !.tier = "standard"])
        BY <3>8 DEF RevokeAdmin, Saves
      <4>2. "standard" \in Tiers
        BY DEF Tiers
      <4> QED  BY <2>2, <3>1, <4>1, <4>2
    <3> QED  BY <1>3, <3>4, <3>5, <3>6, <3>7, <3>8
  <2>4. PICK row : row = [account[d] EXCEPT !.tier = tier, !.pending = pending]
    OBVIOUS
  <2>5. row.tier = tier /\ row.pending = pending
    BY <2>1, <2>4 DEF AccountRows
  <2> QED  BY <1>s, <2>1, <2>3, <2>4, <2>5
<1>4. ASSUME NEW r \in AccountCalls, NEW d \in Delegates, DeleteReads(r, d) PROVE AccountsInv'
  <2>1. PICK pc \in {"counting", "deleting"} :
          CallTo(r, pc, d, None, None) /\ (pc = "deleting" => account[d].tier # "admin")
    BY <1>4 DEF DeleteReads
  <2> DEFINE x == [pc |-> pc, d |-> d, e |-> None, row |-> None]
  <2>2. MayStart(call, r) /\ call[r] = None /\ call' = [call EXCEPT ![r] = x] /\ UNCHANGED <<account, entry, regime>>
    <3>1. MayStart(call, r) /\ UNCHANGED <<account, entry, regime>>
      BY <1>4 DEF DeleteReads
    <3> QED  BY <2>1, <3>1 DEF MayStart, CallTo
  <2>3. x \in Calls /\ CallFits(x) /\ Guarded(x) /\ Current(x)
    <3>1. x \in Calls /\ CallFits(x) /\ Current(x)
      BY DEF Calls, CallFits, Current
    <3>2. pc = "deleting" => d \notin Admins
      BY <2>1 DEF Admins
    <3> QED  BY <3>1, <3>2 DEF Guarded
  <2> HIDE DEF x
  <2> QED  BY <1>c, <2>2, <2>3
<1>5. ASSUME NEW r \in AccountCalls, NEW e \in Entries, NEW d \in Delegates \cup {None}, NEW tier \in Grantable,
             UpdateEntryReads(r, e, d, tier)
      PROVE  AccountsInv'
  <2>1. PICK row : row = [entry[e] EXCEPT !.for = d, !.tier = tier]
    OBVIOUS
  <2> DEFINE x == [pc |-> "saveEntry", d |-> None, e |-> e, row |-> row]
  <2>2. /\ MayStart(call, r) /\ call[r] = None /\ e \in Rows
        /\ call' = [call EXCEPT ![r] = x] /\ UNCHANGED <<account, entry, regime>>
    BY <1>5, <2>1 DEF UpdateEntryReads, MayStart, CallTo
  <2>3. row \in EntryRows /\ row.by = entry[e].by
    <3>1. entry[e] \in EntryRows
      BY <1>t, <2>2 DEF Rows
    <3> QED  BY <2>1, <3>1 DEF EntryRows
  <2>4. x \in Calls /\ CallFits(x) /\ Guarded(x) /\ Current(x)
    BY <2>2, <2>3 DEF Calls, CallFits, Guarded, Current
  <2> HIDE DEF x
  <2> QED  BY <1>c, <2>2, <2>4
<1>6. ASSUME NEW r \in AccountCalls, CountsAdmins(r) PROVE AccountsInv'
  <2>1. call[r] # None /\ call[r].pc = "counting" /\ call[r] \in Calls /\ CallFits(call[r]) /\ UNCHANGED <<account, entry, regime>>
    BY <1>6, <1>t DEF CountsAdmins, At
  <2>2. PICK d, row : d = call[r].d /\ row = call[r].row
    OBVIOUS
  <2>3. d \in Delegates /\ row \in AccountRows \cup {None}
    BY <2>1, <2>2 DEF CallFits
  <2>4. PICK x \in Calls \cup {None} :
          /\ call' = [call EXCEPT ![r] = x]
          /\ x = None \/ (~(Cardinality(Admins) <= 1) /\ x.d = d /\ x.row = row
                          /\ x.pc = IF row = None THEN "deleting" ELSE "revoking")
    <3> DEFINE y == [pc |-> IF row = None THEN "deleting" ELSE "revoking", d |-> d, e |-> None, row |-> row]
    <3>1. y \in Calls /\ y.d = d /\ y.row = row /\ y.pc = IF row = None THEN "deleting" ELSE "revoking"
      BY <2>3 DEF Calls
    <3>2. call' = [call EXCEPT ![r] = None] \/ (call' = [call EXCEPT ![r] = y] /\ ~(Cardinality(Admins) <= 1))
      BY <1>6, <2>2 DEF CountsAdmins, CallTo, CallEnds
    <3> HIDE DEF y
    <3> QED  BY <3>1, <3>2
  <2>5. x # None => CallFits(x)
    BY <2>3, <2>4 DEF CallFits
  <2>6. x # None => Guarded(x)
    <3>1. Admins \ {d} = {} => Cardinality(Admins) <= 1
      <4>1. Admins \ {d} = {} => Admins = {} \/ Admins = {d}
        OBVIOUS
      <4>2. Cardinality({}) = 0 /\ Cardinality({d}) = 1
        BY FS_EmptySet, FS_Singleton
      <4> QED  BY <4>1, <4>2
    <3> QED  BY <2>4, <3>1 DEF Guarded
  <2>7. regime = "single" /\ x # None => Current(x)
    <3>1. regime = "single" => Current(call[r])
      BY <2>1 DEF AccountsInv
    <3> QED  BY <2>1, <2>2, <2>4, <3>1 DEF Current
  <2> QED  BY <1>c, <2>1, <2>4, <2>5, <2>6, <2>7
<1>7. ASSUME NEW r \in AccountCalls, ApproveAllReads(r) PROVE AccountsInv'
  <2> DEFINE x == [pc |-> "approving", d |-> None, e |-> None, row |-> None]
  <2>1. MayStart(call, r) /\ call[r] = None /\ call' = [call EXCEPT ![r] = x] /\ UNCHANGED <<account, entry, regime>>
    BY <1>7 DEF ApproveAllReads, MayStart, CallTo
  <2>2. x \in Calls /\ CallFits(x) /\ Guarded(x) /\ Current(x)
    BY DEF Calls, CallFits, Guarded, Current
  <2> HIDE DEF x
  <2> QED  BY <1>c, <2>1, <2>2
<1>8. ASSUME NEW r \in AccountCalls, CallDies(r) PROVE AccountsInv'
  <2>1. /\ call[r] # None /\ call' = [call EXCEPT ![r] = None] /\ UNCHANGED <<account, entry, regime>> /\ regime # "single"
    BY <1>8 DEF CallDies, CallEnds, MayDie
  <2> QED  BY <1>c, <2>1
(* Requests that write.                                                     *)
<1>9. ASSUME NEW r \in AccountCalls, CreateDelegate(r) PROVE AccountsInv'
  <2>1. PICK d, e, row : d = call[r].d /\ e = call[r].e /\ row = call[r].row
    OBVIOUS
  <2>2. /\ call[r] # None /\ call[r].pc = "creating" /\ d \in Delegates /\ row \in AccountRows /\ call[r] \in Calls
        /\ account' = (IF Exists(d) THEN account ELSE [account EXCEPT ![d] = row])
        /\ UNCHANGED <<entry, regime>>
    BY <1>9, <1>t, <2>1 DEF CreateDelegate, At, CallFits
  <2>3. account' \in [Delegates -> AccountRows \cup {None}]
    BY <1>t, <2>2
  <2>4. PICK x \in Calls \cup {None} :
          /\ call' = [call EXCEPT ![r] = x]
          /\ x = None => Exists(d) \/ e = None
          /\ x # None => x.pc = "claiming" /\ x.d = d /\ x.e = e /\ e # None /\ e \in Entries /\ ~Exists(d)
    <3> DEFINE y == [pc |-> "claiming", d |-> d, e |-> e, row |-> None]
    <3>1. y \in Calls /\ y.d = d /\ y.e = e /\ y.pc = "claiming" /\ e \in Entries \cup {None}
      BY <2>1, <2>2 DEF Calls
    <3>2. \/ call' = [call EXCEPT ![r] = None] /\ (Exists(d) \/ e = None)
          \/ call' = [call EXCEPT ![r] = y] /\ ~Exists(d) /\ e # None
      BY <1>9, <2>1 DEF CreateDelegate, CallTo, CallEnds
    <3>3. y # None
      BY <2>2, <3>1
    <3> HIDE DEF y
    <3> QED  BY <3>1, <3>2, <3>3
  <2>5. x # None => CallFits(x) /\ Guarded(x)'
    BY <2>2, <2>4 DEF CallFits, Guarded
  <2>6. regime = "single" => /\ ~Exists(d) /\ e \in Unclaimed \cup {None} /\ row.via = e
                             /\ \A f \in Rows, p \in Delegates : GrantedTo(f, p)
    <3>1. regime = "single" => Current(call[r])
      BY <2>2 DEF AccountsInv
    <3> QED  BY <1>g, <2>1, <2>2, <3>1 DEF Current
  <2>7. regime = "single" => account'[d] = row /\ Exists(d)' /\ \A p \in Delegates : p # d => account'[p] = account[p]
    BY <1>t, <2>2, <2>6 DEF Exists
  <2>8. Rows' = Rows /\ Unclaimed' = Unclaimed
    BY <2>2 DEF Rows, Unclaimed
  <2>9. regime = "single" /\ x # None => Current(x)'
    BY <2>4, <2>6, <2>7, <2>8 DEF Current
  <2>10. ASSUME regime = "single", NEW f \in Rows, NEW p \in Delegates
         PROVE  GrantedTo(f, p)' \/ (x # None /\ x.pc = "claiming" /\ x.e = f /\ x.d = p)
    <3>1. CASE p # d
      BY <2>2, <2>6, <2>7, <2>10, <3>1 DEF GrantedTo, Exists
    <3>2. CASE p = d /\ f # e
      <4>1. entry[f].by # p
        BY <2>6, <2>10, <3>2 DEF GrantedTo
      <4> QED  BY <2>2, <2>6, <2>7, <2>10, <3>2, <4>1 DEF GrantedTo
    <3>3. CASE p = d /\ f = e
      <4>1. e # None
        BY <3>3, <2>10 DEF Rows
      <4> QED  BY <2>4, <2>6, <2>10, <3>3, <4>1
    <3> QED  BY <3>1, <3>2, <3>3
  <2>11. call[r] # None /\ entry' \in [Entries -> EntryRows \cup {None}]
    BY <1>t, <2>2
  <2> QED  BY <2>2, <2>3, <2>4, <2>5, <2>8, <2>9, <2>10, <2>11, CallStep
<1>10. ASSUME NEW r \in AccountCalls, ClaimRegistration(r) PROVE AccountsInv'
  <2>1. PICK d, e : d = call[r].d /\ e = call[r].e
    OBVIOUS
  <2>2. /\ call[r] # None /\ call[r].pc = "claiming" /\ d \in Delegates /\ e \in Entries
        /\ entry' = (IF e \in Unclaimed THEN [entry EXCEPT ![e].by = d] ELSE entry)
        /\ call' = [call EXCEPT ![r] = None] /\ UNCHANGED <<account, regime>>
    BY <1>10, <1>t, <2>1 DEF ClaimRegistration, At, CallFits, CallEnds
  <2>3. PICK row : row = [entry[e] EXCEPT !.by = d]
    OBVIOUS
  <2>4. e \in Unclaimed => /\ entry[e] \in EntryRows /\ row \in EntryRows /\ row.by = d
                           /\ entry' = [entry EXCEPT ![e] = row]
    <3>1. e \in Unclaimed => entry[e] \in EntryRows
      BY <1>t DEF Unclaimed, Rows
    <3> QED  BY <2>2, <2>3, <3>1 DEF EntryRows
  <2>5. entry' \in [Entries -> EntryRows \cup {None}]
    BY <1>t, <2>2, <2>4
  <2>6. ASSUME regime = "single", NEW f \in Rows', NEW p \in Delegates PROVE GrantedTo(f, p)'
    <3>1. e \in Unclaimed /\ Exists(d) /\ account[d].via = e /\ entry[e].by = None
      BY <2>1, <2>2, <2>6 DEF AccountsInv, Current, Unclaimed
    <3>2. entry'[e] = row /\ \A g \in Entries : g # e => entry'[g] = entry[g]
      BY <1>t, <2>2, <2>4, <3>1
    <3>3. Exists(p)' <=> Exists(p)
      BY <2>2 DEF Exists
    <3>4. \A q \in AccountCalls : call[q] # None => q = r
      BY <2>2, <2>6 DEF AccountsInv, OneAccountCall, InTurn
    <3>5. CASE f = e /\ p = d
      BY <2>2, <2>4, <3>1, <3>2, <3>3, <3>5 DEF GrantedTo
    <3>6. CASE f = e /\ p # d
      <4>1. f \in Rows /\ entry[f].by # p
        BY <3>1, <3>6 DEF Unclaimed
      <4>2. GrantedTo(f, p)
        BY <2>1, <2>6, <3>4, <3>6, <4>1 DEF AccountsInv, At
      <4> QED  BY <2>2, <2>4, <3>1, <3>2, <3>3, <3>6, <4>1, <4>2 DEF GrantedTo
    <3>7. CASE f # e
      <4>1. f \in Rows
        BY <2>6, <3>2, <3>7 DEF Rows
      <4>2. GrantedTo(f, p)
        BY <2>1, <2>6, <3>4, <3>7, <4>1 DEF AccountsInv, At
      <4>3. f \in Entries
        BY <4>1 DEF Rows
      <4> QED  BY <2>2, <3>2, <3>3, <3>7, <4>2, <4>3 DEF GrantedTo
    <3> QED  BY <3>5, <3>6, <3>7
  <2> QED  BY <1>t, <2>2, <2>5, <2>6, CallStep
<1>11. ASSUME NEW r \in AccountCalls, SaveDelegate(r) PROVE AccountsInv'
  <2>1. PICK d, row : d = call[r].d /\ row = call[r].row
    OBVIOUS
  <2>2. /\ call[r] # None /\ call[r].pc \in {"saving", "revoking"} /\ d \in Delegates /\ row \in AccountRows
        /\ account' = (IF Exists(d) THEN [account EXCEPT ![d] = row] ELSE account)
        /\ call' = [call EXCEPT ![r] = None] /\ UNCHANGED <<entry, regime>>
    BY <1>11, <1>t, <2>1 DEF SaveDelegate, At, CallFits, CallEnds
  <2>3. account' \in [Delegates -> AccountRows \cup {None}]
    BY <1>t, <2>2
  <2>4. ASSUME regime = "single", NEW f \in Rows, NEW p \in Delegates PROVE GrantedTo(f, p)'
    <3>1. Exists(d) /\ row.via = account[d].via
      <4>1. Current(call[r])
        BY <2>2, <2>4 DEF AccountsInv
      <4>2. row # None
        BY <2>2
      <4> QED  BY <2>1, <2>2, <4>1, <4>2 DEF Current
    <3>2. GrantedTo(f, p)
      BY <1>g, <2>2, <2>4
    <3>3. (Exists(p)' <=> Exists(p)) /\ (Exists(p) => account'[p].via = account[p].via)
      BY <1>t, <2>2, <3>1 DEF Exists
    <3> QED  BY <2>2, <3>2, <3>3 DEF GrantedTo
  <2>5. Rows' = Rows
    BY <2>2 DEF Rows
  <2> QED  BY <1>t, <2>2, <2>3, <2>4, <2>5, CallStep
<1>12. ASSUME NEW r \in AccountCalls, DeleteCommits(r) PROVE AccountsInv'
  <2>1. PICK d : d = call[r].d
    OBVIOUS
  <2>2. /\ call[r] # None /\ call[r].pc = "deleting" /\ d \in Delegates /\ account' = [account EXCEPT ![d] = None]
        /\ entry' = [e \in Entries |->
             IF e \in Rows /\ entry[e].by = d THEN [entry[e] EXCEPT !.by = None] ELSE entry[e]]
        /\ call' = [call EXCEPT ![r] = None] /\ regime' = regime
    BY <1>12, <1>t, <2>1 DEF DeleteCommits, At, CallFits, CallEnds
  <2>3. ASSUME NEW e \in Entries
        PROVE  /\ entry'[e] \in EntryRows \cup {None} /\ (entry'[e] # None <=> e \in Rows)
               /\ e \in Rows => entry'[e].by = IF entry[e].by = d THEN None ELSE entry[e].by
    <3>1. CASE e \in Rows /\ entry[e].by = d
      <4>1. entry[e] \in EntryRows
        BY <1>t, <3>1 DEF Rows
      <4> DEFINE row == [entry[e] EXCEPT !.by = None]
      <4>2. row \in EntryRows /\ row.by = None
        BY <4>1 DEF EntryRows
      <4>3. entry'[e] = row
        BY <2>2, <3>1
      <4> HIDE DEF row
      <4> QED  BY <3>1, <4>2, <4>3
    <3>2. CASE ~(e \in Rows /\ entry[e].by = d)
      BY <1>t, <2>2, <3>2 DEF Rows
    <3> QED  BY <3>1, <3>2
  <2>4. entry' \in [Entries -> EntryRows \cup {None}] /\ Rows' = Rows
    <3>1. entry' = [e \in Entries |-> entry'[e]]
      BY <2>2
    <3> QED  BY <2>3, <3>1 DEF Rows
  <2>5. account' \in [Delegates -> AccountRows \cup {None}] /\ ~Exists(d)' /\ \A p \in Delegates : p # d => account'[p] = account[p]
    BY <1>t, <2>2 DEF Exists
  <2>6. ASSUME regime = "single", NEW f \in Rows', NEW p \in Delegates PROVE GrantedTo(f, p)'
    <3>1. f \in Rows /\ f \in Entries
      BY <2>4 DEF Rows
    <3>2. GrantedTo(f, p)
      BY <1>g, <2>2, <2>6, <3>1
    <3>3. entry'[f].by = IF entry[f].by = d THEN None ELSE entry[f].by
      BY <2>3, <3>1
    <3>4. CASE p = d
      <4>1. entry'[f].by # d
        <5>1. d # None
          BY <2>2
        <5> QED  BY <3>3, <5>1
      <4> QED  BY <2>5, <3>4, <4>1 DEF GrantedTo
    <3>5. CASE p # d
      <4>1. (entry'[f].by = p) <=> (entry[f].by = p)
        <5>1. p # None
          OBVIOUS
        <5> QED  BY <3>3, <3>5, <5>1
      <4> QED  BY <2>5, <3>2, <3>5, <4>1 DEF GrantedTo, Exists
    <3> QED  BY <3>4, <3>5
  <2> QED  BY <2>2, <2>4, <2>5, <2>6, CallStep
<1>13. ASSUME NEW r \in AccountCalls, ApproveAll(r) PROVE AccountsInv'
  <2>1. /\ call[r] # None /\ call[r].pc = "approving" /\ UNCHANGED <<entry, regime>>
        /\ account' = [d \in Delegates |-> IF Exists(d) THEN [account[d] EXCEPT !.pending = FALSE] ELSE None]
        /\ call' = [call EXCEPT ![r] = None]
    BY <1>13 DEF ApproveAll, At, CallEnds
  <2>2. ASSUME NEW d \in Delegates
        PROVE  /\ account'[d] \in AccountRows \cup {None} /\ (account'[d] # None <=> Exists(d))
               /\ Exists(d) => account'[d].via = account[d].via
    <3>1. CASE Exists(d)
      <4>1. account[d] \in AccountRows
        BY <1>t, <3>1 DEF Exists
      <4> DEFINE row == [account[d] EXCEPT !.pending = FALSE]
      <4>2. row \in AccountRows /\ row.via = account[d].via
        BY <4>1 DEF AccountRows
      <4>3. account'[d] = row
        BY <2>1, <3>1
      <4> HIDE DEF row
      <4> QED  BY <3>1, <4>2, <4>3
    <3>2. CASE ~Exists(d)
      BY <2>1, <3>2
    <3> QED  BY <3>1, <3>2
  <2>3. account' \in [Delegates -> AccountRows \cup {None}]
    <3>1. account' = [d \in Delegates |-> account'[d]]
      BY <2>1
    <3> QED  BY <2>2, <3>1
  <2>4. Rows' = Rows
    BY <2>1 DEF Rows
  <2>5. regime = "single" => \A f \in Rows', p \in Delegates : GrantedTo(f, p)'
    <3>1. regime = "single" => \A f \in Rows, p \in Delegates : GrantedTo(f, p)
      BY <1>g, <2>1
    <3> QED  BY <2>1, <2>2, <2>4, <3>1 DEF GrantedTo, Exists
  <2> QED  BY <1>t, <2>1, <2>3, <2>5, CallStep
<1>14. ASSUME NEW r \in AccountCalls, SaveEntry(r) PROVE AccountsInv'
  <2>1. PICK e, row : e = call[r].e /\ row = call[r].row
    OBVIOUS
  <2>2. /\ call[r] # None /\ call[r].pc = "saveEntry" /\ e \in Entries /\ row \in EntryRows
        /\ entry' = [entry EXCEPT ![e] = row] \/ entry' = entry
        /\ call' = [call EXCEPT ![r] = None] /\ UNCHANGED <<account, regime>>
    BY <1>14, <1>t, <2>1 DEF SaveEntry, At, CallFits, CallEnds
  <2>3. entry' \in [Entries -> EntryRows \cup {None}]
    BY <1>t, <2>2
  <2>4. ASSUME regime = "single", NEW f \in Rows', NEW p \in Delegates PROVE GrantedTo(f, p)'
    <3>1. e \in Rows /\ row.by = entry[e].by
      BY <2>1, <2>2, <2>4 DEF AccountsInv, Current
    <3>2. f \in Rows /\ entry'[f].by = entry[f].by
      BY <1>t, <2>2, <2>4, <3>1 DEF Rows
    <3>3. GrantedTo(f, p)
      BY <1>g, <2>2, <2>4, <3>2
    <3> QED  BY <2>2, <3>2, <3>3 DEF GrantedTo, Exists
  <2> QED  BY <1>t, <2>2, <2>3, <2>4, CallStep
(* The list, edited at once.                                                *)
<1>l. ASSUME NEW e \in Entries, NEW row \in EntryRows \cup {None}, InTurn => Idle(call), entry' = [entry EXCEPT ![e] = row],
             UNCHANGED <<account, call, regime>>,
             row # None => row.by = None /\ \A p \in Delegates : Exists(p) => account[p].via # e
      PROVE  AccountsInv'
  <2>1. InTurn => \A r \in AccountCalls : call[r] = None
    BY <1>l, <1>t DEF Idle
  <2>2. AccountsTypeOK' /\ OneAccountCall'
    BY <1>l, <1>t, <2>1 DEF AccountsInv, AccountsTypeOK, OneAccountCall, InTurn
  <2>3. ASSUME NEW r \in AccountCalls, call'[r] # None
        PROVE  CallFits(call[r])' /\ (InTurn' => Guarded(call[r])') /\ (regime' = "single" => Current(call[r])')
    <3>1. ~InTurn' /\ regime' # "single" /\ call'[r] = call[r]
      BY <1>l, <2>1, <2>3 DEF InTurn
    <3> QED  BY <1>t, <2>3, <3>1 DEF CallFits
  <2>4. ASSUME regime' = "single", NEW f \in Rows', NEW p \in Delegates PROVE GrantedTo(f, p)'
    <3>1. CASE f = e
      <4>1. entry'[f] = row /\ row # None
        BY <1>l, <1>t, <2>4, <3>1 DEF Rows
      <4>2. row.by # p
        BY <1>l, <4>1
      <4> QED  BY <1>l, <3>1, <4>1, <4>2 DEF GrantedTo, Exists
    <3>2. CASE f # e
      <4>1. f \in Rows /\ entry'[f] = entry[f]
        BY <1>l, <1>t, <2>4, <3>2 DEF Rows
      <4>2. GrantedTo(f, p)
        BY <1>l, <2>1, <2>4, <4>1 DEF AccountsInv, At, InTurn
      <4> QED  BY <1>l, <4>1, <4>2 DEF GrantedTo, Exists
    <3> QED  BY <3>1, <3>2
  <2> QED  BY <2>2, <2>3, <2>4 DEF AccountsInv
<1>15. ASSUME NEW e \in Entries, NEW d \in Delegates \cup {None}, NEW tier \in Grantable, AddEntry(e, d, tier) PROVE AccountsInv'
  <2> DEFINE row == [for |-> d, tier |-> tier, by |-> None]
  <2>1. row \in EntryRows /\ row.by = None
    BY DEF EntryRows
  <2>2. /\ InTurn => Idle(call)
        /\ entry' = [entry EXCEPT ![e] = row] /\ UNCHANGED <<account, call, regime>>
        /\ \A p \in Delegates : Exists(p) => account[p].via # e
    BY <1>15 DEF AddEntry
  <2> HIDE DEF row
  <2> QED  BY <1>l, <2>1, <2>2
<1>16. ASSUME NEW e \in Entries, DeleteEntry(e) PROVE AccountsInv'
  BY <1>l, <1>16 DEF DeleteEntry
<1>17. CASE UNCHANGED accountsVars
  <2>1. UNCHANGED <<account, entry, call, regime>>
    BY <1>17 DEF accountsVars
  <2>2. AccountsTypeOK' /\ OneAccountCall'
    BY <2>1 DEF AccountsInv, AccountsTypeOK, OneAccountCall, InTurn
  <2>3. /\ \A d : Exists(d)' <=> Exists(d)
        /\ \A r, pc : At(r, pc)' <=> At(r, pc)
    BY <2>1 DEF Exists, At
  <2>4. Admins' = Admins /\ Rows' = Rows /\ Unclaimed' = Unclaimed
    BY <2>1, <2>3 DEF Admins, Rows, Unclaimed
  <2>5. \A r \in AccountCalls : /\ CallFits(call[r])' <=> CallFits(call[r])
                                /\ Guarded(call[r])' <=> Guarded(call[r])
                                /\ Current(call[r])' <=> Current(call[r])
    BY <2>1, <2>3, <2>4 DEF CallFits, Guarded, Current
  <2>6. \A e, d : GrantedTo(e, d)' <=> GrantedTo(e, d)
    BY <2>1, <2>3 DEF GrantedTo
  <2> QED  BY <2>1, <2>2, <2>3, <2>4, <2>5, <2>6 DEF AccountsInv, InTurn
<1> QED  BY <1>1, <1>2, <1>3, <1>4, <1>5, <1>6, <1>7, <1>8, <1>9, <1>10, <1>11, <1>12, <1>13, <1>14, <1>15, <1>16, <1>17
         DEF AccountsNext

LEMMA AccountsHold == AccountsSpec => []AccountsInv
<1>1. ASSUME AccountsInit PROVE AccountsInv
  <2>1. [tier |-> "admin", pending |-> FALSE, via |-> None] \in AccountRows
    BY DEF AccountRows, Tiers, Staff
  <2>2. AccountsTypeOK /\ OneAccountCall /\ Rows = {} /\ \A r \in AccountCalls : call[r] = None
    BY <1>1, <2>1 DEF AccountsInit, AccountsTypeOK, OneAccountCall, Rows
  <2> QED  BY <2>2 DEF AccountsInv
<1> QED  BY <1>1, AccountsStep, PTL DEF AccountsSpec

(* Type correctness of accounts and entries, for any people and requests.   *)
THEOREM AccountsTypeCorrect == AccountsSpec => []AccountsTypeOK
<1>1. AccountsInv => AccountsTypeOK
  BY DEF AccountsInv
<1> QED  BY <1>1, AccountsHold, PTL

(* An invite lets one person in: one request at a time, an entry is claimed *)
(* by exactly the account that has its tier from it (matchRegistration,     *)
(* claimRegistration, deleteAccount).                                      *)
THEOREM InvitesAreSpentOnce == AccountsSpec => []EntriesGrantOnce
<1>1. ASSUME AccountsInv PROVE EntriesGrantOnce
  <2>1. Idle(call) => \A r \in AccountCalls : call[r] = None
    BY <1>1 DEF AccountsInv, AccountsTypeOK, Idle
  <2> QED  BY <1>1, <2>1 DEF AccountsInv, EntriesGrantOnce, GrantedTo, At
<1> QED  BY <1>1, AccountsHold, PTL

(* One request at a time, neither a revocation nor a deletion takes the     *)
(* last administrator: what is counted still stands when it is written, so  *)
(* only a save, which counts nobody, can (revokeAdmin, deleteAccount).      *)
THEOREM LastAdminIsGuarded == AccountsSpec => AdminsAreGuarded
<1>1. ASSUME AccountsInv, [AccountsNext]_accountsVars
      PROVE  [InTurn /\ LosesLastAdmin => \E r \in AccountCalls : At(r, "saving")]_accountsVars
  <2> SUFFICES ASSUME AccountsNext, InTurn, Admins # {}, Admins' = {}
               PROVE  \E r \in AccountCalls : At(r, "saving")
    BY <1>1 DEF LosesLastAdmin, accountsVars, Admins, Exists
  <2>t. /\ account \in [Delegates -> AccountRows \cup {None}]
        /\ \A r \in AccountCalls : call[r] # None => CallFits(call[r]) /\ Guarded(call[r])
    BY <1>1 DEF AccountsInv, AccountsTypeOK
  <2>1. account' # account
    BY DEF Admins, Exists
  (* An administrator whose row is left alone stays one.                    *)
  <2>2. ASSUME NEW d, \A p \in Delegates : p # d => account'[p] = account[p], Admins \ {d} # {} \/ d \notin Admins PROVE FALSE
    <3>1. PICK p \in Admins : p # d
      BY <2>2
    <3>2. p \in Admins'
      BY <2>2, <3>1 DEF Admins, Exists
    <3> QED  BY <3>2
  <2>3. ASSUME NEW r \in AccountCalls, CreateDelegate(r) PROVE FALSE
    <3>1. PICK d : d = call[r].d
      OBVIOUS
    <3>2. ~Exists(d) /\ \A p \in Delegates : p # d => account'[p] = account[p]
      BY <2>t, <2>1, <2>3, <3>1 DEF CreateDelegate
    <3> QED  BY <2>2, <3>2 DEF Admins
  <2>4. ASSUME NEW r \in AccountCalls, SaveDelegate(r), At(r, "revoking") PROVE FALSE
    <3>1. PICK d : d = call[r].d
      OBVIOUS
    <3>2. Admins \ {d} # {} /\ \A p \in Delegates : p # d => account'[p] = account[p]
      BY <2>t, <2>4, <3>1 DEF SaveDelegate, At, Guarded
    <3> QED  BY <2>2, <3>2
  <2>5. ASSUME NEW r \in AccountCalls, DeleteCommits(r) PROVE FALSE
    <3>1. PICK d : d = call[r].d
      OBVIOUS
    <3>2. d \notin Admins \/ Admins \ {d} # {}
      BY <2>t, <2>5, <3>1 DEF DeleteCommits, At, Guarded
    <3>3. \A p \in Delegates : p # d => account'[p] = account[p]
      BY <2>t, <2>5, <3>1 DEF DeleteCommits
    <3> QED  BY <2>2, <3>2, <3>3
  <2>6. ASSUME NEW r \in AccountCalls, ApproveAll(r) PROVE FALSE
    <3>1. PICK p \in Admins : TRUE
      OBVIOUS
    <3>2. p \in Delegates /\ Exists(p) /\ account[p] \in AccountRows /\ account[p].tier = "admin"
      BY <2>t, <3>1 DEF Admins, Exists
    <3> DEFINE row == [account[p] EXCEPT !.pending = FALSE]
    <3>3. row \in AccountRows /\ row.tier = "admin" /\ account'[p] = row
      BY <2>6, <3>2 DEF ApproveAll, AccountRows
    <3> HIDE DEF row
    <3>4. p \in Admins'
      BY <3>2, <3>3, NoneIsNoRow DEF Admins, Exists
    <3> QED  BY <3>4
  <2>7. PICK r \in AccountCalls : CreateDelegate(r) \/ SaveDelegate(r) \/ DeleteCommits(r) \/ ApproveAll(r)
    <3>1. ASSUME NEW r \in AccountCalls,
                 \/ ClaimRegistration(r) \/ CountsAdmins(r) \/ ApproveAllReads(r) \/ SaveEntry(r) \/ CallDies(r)
                 \/ \E e \in Entries, d \in Delegates \cup {None}, tier \in Grantable : UpdateEntryReads(r, e, d, tier)
          PROVE  account' = account
      BY <3>1 DEF ClaimRegistration, CountsAdmins, ApproveAllReads, SaveEntry, CallDies, UpdateEntryReads
    <3>2. ASSUME NEW r \in AccountCalls, NEW d \in Delegates,
                 \/ SetApproval(r, d) \/ UpdateProfile(r, d) \/ DeleteReads(r, d)
                 \/ \E e \in Entries \cup {None} : RegisterReads(r, d, e)
                 \/ \E staff \in Staff : CreateStaffReads(r, d, staff) \/ GrantAdmin(r, d, staff)
                 \/ \E tier \in Grantable : SetTier(r, d, tier)
                 \/ \E by \in Delegates : RevokeAdmin(r, d, by)
          PROVE  account' = account
      BY <3>2 DEF SetApproval, UpdateProfile, DeleteReads, RegisterReads, CreateStaffReads, GrantAdmin,
                  SetTier, RevokeAdmin
    <3>3. ASSUME NEW e \in Entries,
                 DeleteEntry(e) \/ \E d \in Delegates \cup {None}, tier \in Grantable : AddEntry(e, d, tier)
          PROVE  account' = account
      BY <3>3 DEF DeleteEntry, AddEntry
    <3> QED  BY <2>1, <3>1, <3>2, <3>3 DEF AccountsNext
  <2> QED  BY <2>3, <2>4, <2>5, <2>6, <2>7 DEF SaveDelegate
<1> QED  BY <1>1, AccountsHold, PTL DEF AccountsSpec, AdminsAreGuarded
=============================================================================
