------------------------------- MODULE Access -------------------------------
(***************************************************************************)
(* Who is served what: the routes of the controllers in the order they are *)
(* tried, the two global guards, and the access token of one delegate,     *)
(* which carries a tier for as long as it lasts while the account's moves  *)
(* on (jwt.stategies.ts, jwt-auth.guard.ts, roles.guard.ts, issueTokens).  *)
(*                                                                         *)
(* In a route's path ":id" is a parameter that must be a UUID and ":text"  *)
(* one that may be anything; in a path that is asked for they are some     *)
(* UUID and some text.  What the service behind a route then says is the   *)
(* other modules' business; a call changes nothing here.                   *)
(* Each "Slip:" is a plausible wrong version of what follows it.           *)
(***************************************************************************)
EXTENDS Naturals, Sequences, FiniteSets, Requests

CONSTANTS AccessTtl, \* JWT_ACCESS_TTL
          MaxNow, MaxPasses \* bounds: the clock, and tokens that last at once

ASSUME AccessBounds == AccessTtl \in Nat \ {0} /\ MaxNow \in Nat /\ MaxPasses \in Nat

VARIABLES
  now,
  role,    \* accessTier of the account, or None when it is deleted
  lastHeld,\* when the account last had each tier it had: history
  signing, \* the tier a login or refresh has read and not yet signed, or None
  passes   \* the access tokens that last

accessVars == <<now, role, lastHeld, signing, passes, regime>>

Roles == {"standard", "session_admin", "admin"}
Passes == [role : Roles, exp : 0..(MaxNow + AccessTtl)]

ASSUME NoneIsNoTime == None \notin 0..MaxNow

-----------------------------------------------------------------------------
R(method, path, needs) == [method |-> method, path |-> path, needs |-> needs]

(* @Roles(ADMIN), @Roles(ADMIN, SESSION_ADMIN), no decorator, @Public.      *)
Granted(needs) == CASE needs = "admin" -> {"admin"}
                    [] needs = "staff" -> {"admin", "session_admin"}
                    [] OTHER -> Roles

AuthRoutes == <<
  R("POST", <<"auth", "login">>, "public"),
  R("POST", <<"auth", "refresh">>, "public"),
  R("POST", <<"auth", "register">>, "public"),
  R("POST", <<"auth", "register", "request-otp">>, "public"),
  R("POST", <<"auth", "forgot-password">>, "public"),
  R("POST", <<"auth", "reset-password">>, "public"),
  R("POST", <<"auth", "logout">>, "signed"),
  R("GET", <<"auth", "pass">>, "signed"),
  R("POST", <<"auth", "verify-pass">>, "admin")>>

RegistrationRoutes == <<
  R("GET", <<"delegates">>, "admin"),
  R("GET", <<"delegates", "directory">>, "public"),
  R("POST", <<"delegates", "registration-list">>, "admin"),
  R("GET", <<"delegates", "registration-list">>, "admin"),
  R("PATCH", <<"delegates", "registration-list", ":id">>, "admin"),
  R("DELETE", <<"delegates", "registration-list", ":id">>, "admin"),
  R("PATCH", <<"delegates", ":id", "tier">>, "admin"),
  R("POST", <<"delegates", "approve-all">>, "admin"),
  R("PATCH", <<"delegates", ":id", "approval">>, "admin")>>

AccountRoutes == <<
  R("GET", <<"delegates", "export">>, "admin"),
  R("GET", <<"delegates", "me">>, "signed"),
  R("PATCH", <<"delegates", "me">>, "signed"),
  R("POST", <<"delegates", "me", "avatar-upload">>, "signed"),
  R("DELETE", <<"delegates", "me">>, "signed"),
  R("GET", <<"delegates", "admins">>, "admin"),
  R("POST", <<"delegates", "staff">>, "admin"),
  R("PATCH", <<"delegates", ":id", "admin">>, "admin")>>

NetworkRoutes == <<
  R("POST", <<"delegates", ":id", "connect">>, "signed"),
  R("DELETE", <<"delegates", ":id", "connect">>, "signed"),
  R("GET", <<"delegates", "me", "connections">>, "signed"),
  R("GET", <<"delegates", "me", "conversations">>, "signed"),
  R("POST", <<"delegates", ":id", "messages">>, "signed"),
  R("GET", <<"delegates", ":id", "messages">>, "signed"),
  R("POST", <<"delegates", ":id", "block">>, "signed"),
  R("DELETE", <<"delegates", ":id", "block">>, "signed"),
  R("GET", <<"delegates", "me", "blocks">>, "signed"),
  R("POST", <<"delegates", "messages", ":id", "react">>, "signed"),
  R("GET", <<"delegates", ":id">>, "signed")>>

SessionRoutes == <<
  R("GET", <<"sessions">>, "signed"),
  R("GET", <<"sessions", "live">>, "signed"),
  R("GET", <<"sessions", "saved">>, "signed"),
  R("GET", <<"sessions", "tracks">>, "public"),
  R("GET", <<"sessions", "board">>, "public"),
  R("GET", <<"sessions", ":id">>, "signed"),
  R("POST", <<"sessions">>, "admin"),
  R("POST", <<"sessions", "bulk">>, "admin"),
  R("PATCH", <<"sessions", ":id">>, "admin"),
  R("PATCH", <<"sessions", ":id", "status">>, "admin"),
  R("POST", <<"sessions", "bulk-delete">>, "admin"),
  R("DELETE", <<"sessions", ":id">>, "admin"),
  R("POST", <<"sessions", ":id", "bookmark">>, "signed"),
  R("DELETE", <<"sessions", ":id", "bookmark">>, "signed")>>

SpeakerRoutes == <<
  R("GET", <<"speakers">>, "signed"),
  R("GET", <<"speakers", "reveal">>, "signed"),
  R("POST", <<"speakers", "reveal">>, "admin"),
  R("POST", <<"speakers">>, "admin"),
  R("POST", <<"speakers", "avatar-upload">>, "admin")>>

VotingRoutes == <<
  R("GET", <<"voting", "topics">>, "signed"),
  R("POST", <<"voting", "topics">>, "admin"),
  R("PATCH", <<"voting", "topics", ":id">>, "admin"),
  R("POST", <<"voting", "topics", ":id", "open">>, "admin"),
  R("POST", <<"voting", "topics", ":id", "close">>, "admin"),
  R("DELETE", <<"voting", "topics", ":id">>, "admin"),
  R("GET", <<"voting", "entries">>, "signed"),
  R("GET", <<"voting", "top-pitches">>, "signed"),
  R("POST", <<"voting", "entries">>, "admin"),
  R("PATCH", <<"voting", "entries", ":id">>, "admin"),
  R("DELETE", <<"voting", "entries", ":id">>, "admin"),
  R("POST", <<"voting", "entry", ":id", "vote">>, "signed"),
  R("GET", <<"voting", "my-votes">>, "signed")>>

TriviaRoutes == <<
  R("GET", <<"trivia", "current">>, "public"),
  R("GET", <<"trivia", "history">>, "signed"),
  R("POST", <<"trivia", ":id", "answer">>, "signed"),
  R("GET", <<"trivia">>, "admin"),
  R("POST", <<"trivia">>, "admin"),
  R("PATCH", <<"trivia", ":id", "close">>, "admin"),
  R("PATCH", <<"trivia", ":id", "live">>, "admin"),
  R("PATCH", <<"trivia", ":id">>, "admin"),
  R("DELETE", <<"trivia", ":id">>, "admin"),
  R("GET", <<"trivia", ":id", "stats">>, "admin")>>

DiscussionRoutes == <<
  R("POST", <<"discussions", "sessions", ":id">>, "signed"),
  R("GET", <<"discussions", "sessions", ":id", "comments">>, "signed"),
  R("POST", <<"discussions", "comments", ":id", "vote">>, "signed"),
  R("GET", <<"discussions", "threads">>, "admin"),
  R("GET", <<"discussions", "comments">>, "admin"),
  R("POST", <<"discussions", "comments", ":id", "flag">>, "signed"),
  R("PATCH", <<"discussions", "comments", ":id", "hide">>, "admin"),
  R("PATCH", <<"discussions", "sessions", ":id", "moderation">>, "admin"),
  R("GET", <<"discussions", "sessions", ":id", "comments", "export">>, "admin")>>

NotificationRoutes == <<
  R("GET", <<"notifications">>, "signed"),
  R("POST", <<"notifications">>, "admin"),
  R("DELETE", <<"notifications", ":id">>, "admin"),
  R("POST", <<"notifications", "register">>, "signed"),
  R("DELETE", <<"notifications", "register">>, "signed")>>

CaptionRoutes == <<
  R("GET", <<"captions", ":id">>, "signed"),
  R("POST", <<"captions", "rooms", ":text", "publish-token">>, "staff"),
  R("GET", <<"captions", ":id", "transcript">>, "staff"),
  R("GET", <<"captions", ":id", "captions">>, "signed"),
  R("DELETE", <<"captions", ":id", "captions">>, "staff"),
  R("GET", <<"captions", ":id", "transcript", "export">>, "staff")>>

ResourceRoutes == <<
  R("GET", <<"documents", "purple-book">>, "signed"),
  R("PUT", <<"documents", "purple-book">>, "admin"),
  R("POST", <<"documents", "upload-url">>, "admin"),
  R("GET", <<"certificates", "me", "participation">>, "signed"),
  R("POST", <<"certificates", "me">>, "signed"),
  R("GET", <<"certificates", "me.pdf">>, "signed"),
  R("GET", <<"certificates", "verify", ":text">>, "public")>>

LiveOpsRoutes == <<
  R("GET", <<"live-ops", "overview">>, "admin"),
  R("POST", <<"live-ops", "cut-to-break">>, "admin"),
  R("GET", <<"live-ops", "flags">>, "signed"),
  R("POST", <<"live-ops", "set-overlays">>, "admin")>>

SecurityRoutes == <<R("GET", <<"security", "events">>, "admin")>>
FigureRoutes == <<R("GET", <<"admin", "overview">>, "admin")>>
SearchRoutes == <<R("GET", <<"search">>, "signed")>>

(* Slip: the delegates' catch-all is declared with the network, and first.  *)
RoutesShuffled ==
  AuthRoutes \o NetworkRoutes \o RegistrationRoutes \o AccountRoutes \o SessionRoutes \o SpeakerRoutes
  \o VotingRoutes \o TriviaRoutes \o DiscussionRoutes \o NotificationRoutes \o SecurityRoutes
  \o FigureRoutes \o LiveOpsRoutes \o CaptionRoutes \o ResourceRoutes \o SearchRoutes

(* Module by module, and in each the order of the controller's methods.     *)
Routes ==
  AuthRoutes \o RegistrationRoutes \o AccountRoutes \o NetworkRoutes \o SessionRoutes \o SpeakerRoutes
  \o VotingRoutes \o TriviaRoutes \o DiscussionRoutes \o NotificationRoutes \o SecurityRoutes
  \o FigureRoutes \o LiveOpsRoutes \o CaptionRoutes \o ResourceRoutes \o SearchRoutes

Params == {":id", ":text"}
Fits(pattern, path) ==
  Len(pattern) = Len(path) /\ \A i \in DOMAIN path : pattern[i] \in Params \/ pattern[i] = path[i]

(* The router takes the first route that matches, whoever asks.             *)
Taken == [i \in DOMAIN Routes |->
  CHOOSE j \in DOMAIN Routes :
    /\ Routes[j].method = Routes[i].method /\ Fits(Routes[j].path, Routes[i].path)
    /\ \A k \in 1..(j - 1) : ~(/\ Routes[k].method = Routes[i].method
                               /\ Fits(Routes[k].path, Routes[i].path))]

(* ParseUUIDPipe, after the guards: it turns a call away, it does not pass  *)
(* it on to the next route.                                                *)
Parses(pattern, path) == \A i \in DOMAIN path : pattern[i] = ":id" => path[i] = ":id"

(* JwtAuthGuard, then RolesGuard, which asks the token and nobody else; of  *)
(* a token, its role.                                                      *)
Admits(route, pass) == route.needs = "public" \/ (pass # None /\ pass \in Granted(route.needs))

(* What a caller of route i, with a token of this role or with none, is     *)
(* told.                                                                   *)
Told(i, pass) ==
  LET route == Routes[Taken[i]] IN
  IF route.needs # "public" /\ pass = None THEN "unauthorized"
  ELSE IF ~Admits(route, pass) THEN "forbidden"
  ELSE IF ~Parses(route.path, Routes[i].path) THEN "bad request"
  ELSE "served"

-----------------------------------------------------------------------------
AccessInit ==
  /\ now = 0
  /\ role \in Roles
  /\ lastHeld = [r \in Roles |-> None]
  /\ signing = None /\ passes = {}
  /\ regime \in Regimes

(* setTier, setAdmin: by somebody else.  Tokens that were signed stay.      *)
RoleChanges(r) ==
  /\ role \notin {None, r}
  /\ role' = r
  /\ lastHeld' = [lastHeld EXCEPT ![role] = now]
  /\ UNCHANGED <<now, signing, passes, regime>>

AccountGoes ==
  /\ role # None
  /\ role' = None
  /\ lastHeld' = [lastHeld EXCEPT ![role] = now]
  /\ UNCHANGED <<now, signing, passes, regime>>

(* Slip: a refresh copies the claims of the token that runs out.            *)
RenewsClaims ==
  /\ role # None /\ signing = None
  /\ signing' \in {role} \cup {p.role : p \in passes}
  /\ UNCHANGED <<now, role, lastHeld, passes, regime>>

(* login and refresh read the delegate's row, the tier included.            *)
ReadsDelegate ==
  /\ role # None /\ signing = None
  /\ signing' = role
  /\ UNCHANGED <<now, role, lastHeld, passes, regime>>

SignsAccess ==
  /\ signing # None
  /\ passes' = passes \cup {[role |-> signing, exp |-> now + AccessTtl]}
  /\ Cardinality(passes') <= MaxPasses
  /\ signing' = None
  /\ UNCHANGED <<now, role, lastHeld, regime>>

(* A unit of the clock is longer than any request; tokens run out.          *)
Tick ==
  /\ now < MaxNow /\ signing = None
  /\ now' = now + 1
  /\ passes' = {p \in passes : p.exp > now + 1}
  /\ UNCHANGED <<role, lastHeld, signing, regime>>

AccessNext ==
  \/ \E r \in Roles : RoleChanges(r)
  \/ AccountGoes \/ ReadsDelegate \/ SignsAccess \/ Tick

AccessSpec == AccessInit /\ [][AccessNext]_accessVars

-----------------------------------------------------------------------------
AccessTypeOK ==
  /\ now \in 0..MaxNow
  /\ role \in Roles \cup {None} /\ signing \in Roles \cup {None}
  /\ lastHeld \in [Roles -> 0..MaxNow \cup {None}]
  /\ passes \subseteq Passes

(* Nobody looks at the account when a call comes in (jwt.stategies.ts       *)
(* 29-48): a right that was taken away must still end, at the latest one    *)
(* AccessTtl after it was, however tokens are renewed on the way.           *)
RightsLapse ==
  \A p \in passes, i \in DOMAIN Routes :
    Routes[i].needs \in {"admin", "staff"} /\ Told(i, p.role) = "served" =>
      p.role = role \/ (lastHeld[p.role] # None /\ now < lastHeld[p.role] + AccessTtl)

(* A route that admits a token and yet another answers: the other stands    *)
(* before it.                                                              *)
Swallowed(i, p) == Admits(Routes[i], p.role) /\ (Told(i, p.role) # "served" \/ Taken[i] # i)

(* "the path segment ':id' is constrained to a UUID so it cannot swallow    *)
(* them" (notifications.controller.ts 66-67).  It is not: a phone cannot be *)
(* unregistered.                                                           *)
NoRouteIsSwallowed == \A p \in passes, i \in DOMAIN Routes : ~Swallowed(i, p)

(* It is the only one.  The order of the methods is what keeps "every       *)
(* static path above" reachable (delegates.controller.ts 430-431).          *)
Unregister == R("DELETE", <<"notifications", "register">>, "signed")
OtherRoutesServe == \A p \in passes, i \in DOMAIN Routes : Swallowed(i, p) => Routes[i] = Unregister
=============================================================================
