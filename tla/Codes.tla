-------------------------------- MODULE Codes --------------------------------
(***************************************************************************)
(* The one-time codes of one address (otp.service.ts), and what the callers *)
(* of assertValid and consume do between the two: register an account, or  *)
(* reset a password (auth.service.ts 214-241, 243-307).                    *)
(*                                                                         *)
(* Three keys in Redis, each command atomic, nothing else.  A code is named *)
(* by the order in which it was drawn.                                     *)
(* Each "Slip:" is a plausible wrong version of what follows it.           *)
(***************************************************************************)
EXTENDS Naturals, FiniteSets, Requests

CONSTANTS MaxCodes,    \* codes drawn: a bound
          MaxPerHour,  \* MAX_REQUESTS_PER_HOUR
          MaxAttempts, \* MAX_ATTEMPTS
          Senders, Checkers

ASSUME CodeBounds ==
  /\ MaxCodes \in Nat /\ MaxPerHour \in Nat /\ MaxAttempts \in Nat
  /\ IsFiniteSet(Senders) /\ IsFiniteSet(Checkers)

VARIABLES
  rate,     \* otp:rate, and whether it has its hour
  code,     \* otp:code, or 0
  attempts, \* otp:attempts: it has no expiry of its own
  drawn,    \* codes so far
  mailed,   \* the last code that reached the address, or 0
  expired,  \* the codes whose OTP_TTL_SEC are over: history
  tried,    \* how often each code was compared with a guess: history
  acted,    \* how often each code let its caller act: history
  sender, checker

codeKeys == <<rate, code, attempts>>
codeHistory == <<drawn, mailed, expired, tried, acted>>
codesVars == <<codeKeys, codeHistory, sender, checker, regime>>

CodeNames == 1..MaxCodes
SenderRecords == [pc : {"expiring", "storing", "refused", "resetting", "mailing"}, code : 0..MaxCodes]
CheckerRecords == [pc : {"looking", "capped", "valid", "spending"}, guess : 0..MaxCodes]

ASSUME NoneIsNoSender == None \notin SenderRecords \cup CheckerRecords

CodesInit ==
  /\ rate = [count |-> 0, expires |-> FALSE] /\ code = 0 /\ attempts = 0
  /\ drawn = 0 /\ mailed = 0 /\ expired = {}
  /\ tried = [c \in CodeNames |-> 0] /\ acted = [c \in CodeNames |-> 0]
  /\ sender = [r \in Senders |-> None] /\ checker = [r \in Checkers |-> None]
  /\ regime \in Regimes

CodesIdle == Idle(sender) /\ Idle(checker)
MayAsk(slots, r) == slots[r] = None /\ (InTurn => CodesIdle)

SenderTo(r, step) == sender' = [sender EXCEPT ![r] = step]
CheckerTo(r, step) == checker' = [checker EXCEPT ![r] = step]

-----------------------------------------------------------------------------
(* requestOtp.                                                             *)
RequestCounts(r) ==
  /\ MayAsk(sender, r) /\ drawn < MaxCodes /\ rate.count <= MaxPerHour
  /\ rate' = [rate EXCEPT !.count = @ + 1]
  /\ SenderTo(r, [pc |-> IF rate.count = 0 THEN "expiring"
                         ELSE IF rate.count < MaxPerHour THEN "storing" ELSE "refused", code |-> 0])
  /\ UNCHANGED <<code, attempts, codeHistory, checker, regime>>

RequestExpires(r) ==
  /\ sender[r] # None /\ sender[r].pc = "expiring"
  /\ rate' = [rate EXCEPT !.expires = TRUE]
  /\ SenderTo(r, [pc |-> "storing", code |-> 0])
  /\ UNCHANGED <<code, attempts, codeHistory, checker, regime>>

RequestRefused(r) ==
  /\ sender[r] # None /\ sender[r].pc = "refused"
  /\ SenderTo(r, None)
  /\ UNCHANGED <<codeKeys, codeHistory, checker, regime>>

RequestStores(r) ==
  /\ sender[r] # None /\ sender[r].pc = "storing" /\ drawn < MaxCodes
  /\ drawn' = drawn + 1 /\ code' = drawn + 1
  /\ SenderTo(r, [pc |-> "resetting", code |-> drawn + 1])
  /\ UNCHANGED <<rate, attempts, mailed, expired, tried, acted, checker, regime>>

RequestResets(r) ==
  /\ sender[r] # None /\ sender[r].pc = "resetting"
  /\ attempts' = 0
  /\ SenderTo(r, [sender[r] EXCEPT !.pc = "mailing"])
  /\ UNCHANGED <<rate, code, codeHistory, checker, regime>>

RequestMails(r) ==
  /\ sender[r] # None /\ sender[r].pc = "mailing"
  /\ mailed' = sender[r].code
  /\ SenderTo(r, None)
  /\ UNCHANGED <<codeKeys, drawn, expired, tried, acted, checker, regime>>

(* Also where the message is not taken: the caller gets an error.           *)
SenderDies(r) ==
  /\ MayDie /\ sender[r] # None
  /\ SenderTo(r, None)
  /\ UNCHANGED <<codeKeys, codeHistory, checker, regime>>

-----------------------------------------------------------------------------
(* assertValid, with a code that was mailed or with a wrong one, 0.         *)
CheckCounts(r, guess) ==
  /\ MayAsk(checker, r) /\ guess \in {0, mailed}
  /\ attempts <= MaxAttempts
  /\ attempts' = attempts + 1
  /\ CheckerTo(r, [pc |-> IF attempts < MaxAttempts THEN "looking" ELSE "capped", guess |-> guess])
  /\ UNCHANGED <<rate, code, codeHistory, sender, regime>>

CheckDeletes(r) ==
  /\ checker[r] # None /\ checker[r].pc = "capped"
  /\ code' = 0
  /\ CheckerTo(r, None)
  /\ UNCHANGED <<rate, attempts, codeHistory, sender, regime>>

Compared(r) == IF code = 0 THEN tried ELSE [tried EXCEPT ![code] = @ + 1]
Matches(r) == code # 0 /\ checker[r].guess = code

(* Slip: the code is spent by the check ("The code used to be deleted       *)
(* here", lines 107-116).                                                   *)
CheckLooksAndSpends(r) ==
  /\ checker[r] # None /\ checker[r].pc = "looking"
  /\ tried' = Compared(r)
  /\ code' = IF Matches(r) THEN 0 ELSE code
  /\ CheckerTo(r, IF Matches(r) THEN [checker[r] EXCEPT !.pc = "valid"] ELSE None)
  /\ UNCHANGED <<rate, attempts, drawn, mailed, expired, acted, sender, regime>>

(* Slip: right codes are not counted as attempts.                           *)
CheckLooksAndForgives(r) ==
  /\ checker[r] # None /\ checker[r].pc = "looking"
  /\ tried' = Compared(r)
  /\ attempts' = IF Matches(r) THEN 0 ELSE attempts
  /\ CheckerTo(r, IF Matches(r) THEN [checker[r] EXCEPT !.pc = "valid"] ELSE None)
  /\ UNCHANGED <<rate, code, drawn, mailed, expired, acted, sender, regime>>

CheckLooks(r) ==
  /\ checker[r] # None /\ checker[r].pc = "looking"
  /\ tried' = Compared(r)
  /\ CheckerTo(r, IF Matches(r) THEN [checker[r] EXCEPT !.pc = "valid"] ELSE None)
  /\ UNCHANGED <<codeKeys, drawn, mailed, expired, acted, sender, regime>>

(* The caller turns the request down for a reason of its own: an account    *)
(* that exists, an invite code that does not.                              *)
CallerRefuses(r) ==
  /\ checker[r] # None /\ checker[r].pc = "valid"
  /\ CheckerTo(r, None)
  /\ UNCHANGED <<codeKeys, codeHistory, sender, regime>>

(* The account is created, or the password set.                             *)
CallerActs(r) ==
  /\ checker[r] # None /\ checker[r].pc = "valid"
  /\ acted' = [acted EXCEPT ![checker[r].guess] = @ + 1]
  /\ CheckerTo(r, [checker[r] EXCEPT !.pc = "spending"])
  /\ UNCHANGED <<codeKeys, drawn, mailed, expired, tried, sender, regime>>

Consume(r) ==
  /\ checker[r] # None /\ checker[r].pc = "spending"
  /\ code' = 0 /\ attempts' = 0
  /\ CheckerTo(r, None)
  /\ UNCHANGED <<rate, codeHistory, sender, regime>>

CheckerDies(r) ==
  /\ MayDie /\ checker[r] # None
  /\ CheckerTo(r, None)
  /\ UNCHANGED <<codeKeys, codeHistory, sender, regime>>

-----------------------------------------------------------------------------
CodeExpires ==
  /\ code # 0
  /\ expired' = expired \cup {code} /\ code' = 0
  /\ UNCHANGED <<rate, attempts, drawn, mailed, tried, acted, sender, checker, regime>>

HourPasses ==
  /\ rate.expires
  /\ rate' = [count |-> 0, expires |-> FALSE]
  /\ UNCHANGED <<code, attempts, codeHistory, sender, checker, regime>>

CodesNext ==
  \/ \E r \in Senders :
       \/ RequestCounts(r) \/ RequestExpires(r) \/ RequestRefused(r)
       \/ RequestStores(r) \/ RequestResets(r) \/ RequestMails(r) \/ SenderDies(r)
  \/ \E r \in Checkers :
       \/ \E guess \in 0..MaxCodes : CheckCounts(r, guess)
       \/ CheckDeletes(r) \/ CheckLooks(r) \/ CallerRefuses(r) \/ CallerActs(r)
       \/ Consume(r) \/ CheckerDies(r)
  \/ CodeExpires \/ HourPasses

CodesSpec == CodesInit /\ [][CodesNext]_codesVars

-----------------------------------------------------------------------------
CodesTypeOK ==
  /\ rate \in [count : Nat, expires : BOOLEAN] /\ attempts \in Nat
  /\ {code, drawn, mailed} \subseteq 0..MaxCodes /\ expired \subseteq CodeNames
  /\ {tried, acted} \subseteq [CodeNames -> Nat] /\ regime \in Regimes
  /\ sender \in [Senders -> SenderRecords \cup {None}]
  /\ checker \in [Checkers -> CheckerRecords \cup {None}]

(* "their next try, with the same code from the same email, was 'invalid or *)
(* expired'" (lines 109-116): while things happen one at a time, the last   *)
(* code that was mailed works until it was spent, is over, or was guessed   *)
(* at too often; it works once; and what counts the requests ends with its  *)
(* hour.                                                                   *)
CodesWork ==
  regime = "single" /\ CodesIdle =>
    /\ mailed # 0 /\ mailed \notin expired /\ acted[mailed] = 0 /\ tried[mailed] < MaxAttempts =>
         code = mailed /\ attempts = tried[mailed]
    /\ \A c \in CodeNames : acted[c] <= 1
    /\ rate.count > 0 => rate.expires

(* "guessing stays capped" (line 117), whatever is lost; and where requests *)
(* overlap, up to one reset of the count by each that is sending and one    *)
(* guess counted earlier by each that is checking.                         *)
GuessesAreCapped ==
  \A c \in CodeNames : tried[c] <=
    IF InTurn THEN MaxAttempts
    ELSE MaxAttempts * (1 + Cardinality(Senders)) + Cardinality(Checkers)
=============================================================================
