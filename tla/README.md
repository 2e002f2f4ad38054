# Verification of the GS_X conference back end

GS_X is the NestJS service behind a two-day summit: programme, live captions,
trivia, a pitch competition with public voting, networking, announcements. It
keeps its state in PostgreSQL (through TypeORM) and Redis (counters, tokens,
BullMQ jobs), and tells phones and venue screens what changed through
Socket.IO rooms. Several API instances may run behind one Redis adapter, so
two requests interleave at every `await`, whichever instance serves them. That
is where the hard behaviour lives: nearly every service method reads a row,
awaits, decides, and writes.

This directory holds TLA+ models of those services, TLC runs, and TLAPS proofs.
`PROJECT.json` maps each definition to the lines it models. Paths below are
relative to `src/src/`.

## 1. Inventory

| Component | State | Operations | What makes it hard |
|---|---|---|---|
| Pitchathon ballot `voting/` | `pitch_topics`, `pitch_entries`, `pitch_votes`, `pitch_vote_events`; voting room | castVote, create/update/open/close/removeTopic, create/update/removeEntry | locks on some paths and not on others, stale entities saved, a broadcast before the commit |
| Live trivia `trivia/` | `trivia_questions`, `trivia_answers`, Redis hash per question; trivia room | answer, create, pushLive, close, update, remove | no transaction anywhere; two stores that must agree |
| Programme `sessions/` | `sessions` | create, createBulk, update (clearRoom), setStatus, remove, removeMany | pushes that cascade along a room |
| Session records `sessions/` | bookmarks, attendance, comments, caption lines of a session | bookmark, recordAttendance, remove | deletes over five tables without a transaction |
| Session reminders `sessions/session-reminders.processor.ts` | one delayed BullMQ job per session | schedule, cancel, re-issue at boot, process | jobs replaced by delete-then-add, beside live edits |
| Live captions `captions/` | active rooms, waiting audio and recordings (per process), Redis capture flag, files, archive jobs | startRoom, sendAudio, stopRoom, archive | start and stop around a connection in flight |
| Speech streams `captions/transcription/` | a WebSocket per room | openStream, reopen, close | reopening that races closing; failures that end silently |
| Transcript `captions/` | `transcript_segments`, gap-fill jobs | onTranscript, translate, fillTranslationGaps, archive, clearCaptions | at-least-once jobs beside live writes |
| Tokens `auth/auth.service.ts` | `refresh_tokens` | login, refresh, logout, reset | rotation: a token is used once, and a second use is an alarm |
| One-time codes `auth/otp.service.ts` | three Redis keys per address | requestOtp, assertValid, consume | counters, expiry, loss between two commands |
| Accounts `delegate/` | `delegates`, registration entries | registration, createStaff, setTier, setApproval, setAdmin, approveAll, deleteAccount, entries | the last administrator; claims |
| Connections and messages `delegate/` | connections, blocks, direct messages, reactions | add/removeConnection, send, read, block, react | one row per pair of delegates, in one direction |
| Announcements `notifications/` | `notifications`, device tokens, BullMQ jobs | announce, retract, register, process, sendDirect, and the two carriers' senders | at-least-once jobs, a crash between save and queue, tokens that die |
| Discussions `discussions/` | comments, comment votes, counters on the comment | post, vote, flag, hide | denormalised counters |
| Certificates `resources/` | `certificates` | statusFor, issueCertificate, certificatePdf | check, then insert |
| Live-ops board `live-ops/` | three Redis flags per session | setCutToBreak, setOverlays | set, read back, broadcast |
| Speakers and search `sessions/`, `search/` | one Redis key: revealed or not | setSpeakersRevealed, lists and searches, the interceptor | a key read two or three times for one answer |
| Controllers and guards | the access token | 113 routes | order of declaration; a tier that outlives its account's |
| Security events, audit, admin figures | append-only rows, or reads | - | - |
| Realtime, storage, senders, translation, config, migrations, seeds | external | - | input and output |

Components interact by direct calls inside one process (a deleted account
removes its ballots; `setStatus` cancels a reminder; an announcement is queued
by the sessions service and processed by a worker), by shared tables, by BullMQ
jobs, and by broadcasts, which carry no acknowledgement. What must be right:

* **Ballot**: one ballot per delegate and topic, for a pitch of that topic, cast
  while it was open; a closed result is the tally at that instant and is never
  recomputed; the audit trail is complete; screens end with the standing.
* **Trivia**: one live question; counters equal to the stored answers; the card
  on the phones is the live question.
* **Programme**: after an edit the session has its slot to itself, pushes are
  least and only delay; what hangs off a removed session goes with it.
* **Reminders**: one ring per start, for the start that holds, for whoever saved it.
* **Captions**: a room can always be started again; no stream or recording is
  forgotten but one whose opening was overlapped; a desk that records is heard. **Transcript**: each line once, each
  translated while somebody reads.
* **Tokens**: one use rotates a token, a second revokes everything. **Codes**: spent
  once, work until then, guesses capped. **Accounts**: an administrator remains, an
  invite lets one person in. **Rights**: end with the token that carries them.
* **Announcements**: a phone rings once, and once more only for a lost worker.
  **Votes on comments**: counters are the sums. **Certificates**: issued once,
  earned. **Switches**: screens show them. **Speakers**: nobody learns of one while the
  line-up is hidden, everybody once it is revealed.

## 2. Modules

| Module | Role |
|---|---|
| `Voting`, `VotingProperties`, `PitchBallot`, `MCVoting` + 3 cfgs | the ballot: model, properties and refinement mapping, abstract ballot, instances |
| `VotingProofs` | theorems about the ballot: with admin requests that overlap votes; alone, with the refinement |
| `Trivia`, `TriviaProofs`, `MCTrivia` | trivia: model, theorems, instance |
| `RoomSchedule`, `ScheduleProofs`, `MCRoomSchedule` | the rooms' timelines: model, theorems, instance |
| `Reminders`, `RemindersProofs`, `MCReminders` + 2 cfgs | reminder jobs and their worker: model, theorems, instances |
| `CaptionRoom`, `CaptionProofs`, `MCCaptionRoom` | one room's capture: desks, start, stop, the stream that reopens itself, the recording and its job; theorems |
| `Transcript`, `TranscriptProofs`, `MCTranscript` | one session's lines: finals, live translations, gap fills, archive, clear; theorems |
| `Requests` | slots and regimes, shared by the eleven modules below |
| `Tokens`, `Codes`, `Accounts` | refresh tokens, one-time codes, delegates and registration entries |
| `Network`, `Discussions`, `SessionRecords` | connections, messages and reactions; votes on comments; what hangs off a session |
| `Announcements`, `Certificates`, `LiveOps` | pushes and inboxes; the certificate and its checklist; the board's switches |
| `Reveal` | the switch that reveals the speakers, and the answers it gates |
| `Access` | the routes in order, the two guards, and the tier in a token |
| `IdentityProofs` | theorems of `Tokens`, `Codes`, `Accounts`, `Access` |
| `DelegatesProofs` | theorems of `Network`, `Discussions`, `SessionRecords`, `Certificates`, `Announcements`, `LiveOps`, `Reveal`, and of the composition `MCDelegates` |
| `MCDelegates` + 3 cfgs | the eleven composed as alternatives: a behaviour is one component's (`scene`), so the state spaces add up and do not multiply |

### How code becomes actions

A request is a slot (`cast[c]`, `adm[a]`, `play[p]`, `req[r]`, `call[r]`, ...): a program
counter and what the handler remembers in its local variables. Each action is
the code from one `await` to the next, so that any other slot may step in
between. A refusal (404, 409) is a guard of the first step or a branch
that idles the slot. Ids are handed out once, so the models
stop when every id is used up and every row removed: runs say
`CHECK_DEADLOCK FALSE` for that reason only.

*Transactions and locks* (`Voting`, `Discussions`). A transaction's writes take effect
at its commit action; before, they exist in the slot and are seen by that slot alone
(READ COMMITTED; `OwnView` is what a transaction sees). `pessimistic_write`
locks are read off the slots that hold them (`HoldsTopic`, `HoldsEntry`), the
row lock of an uncommitted write too (`HoldsVote`, `HoldsChoice`, `HoldsCounter`); an
action that needs a locked row is not enabled. A foreign key is a guard of the write;
its cascade is part of the delete. The waits a cascade may have to make for the rows of
pitches being edited are taken as one step.

*Repository.save* is two steps in `Voting` and `Trivia`: it reads the row again,
then writes the columns in which the *entity* differs from what it just read, or
inserts the row if it is gone. This is what makes stale entities dangerous, so it
is modelled as the library does it. In the other modules it is one step: their
properties are for one operator at a time, who cannot tell, or name what a save may do.

*Broadcasts* are a variable with the last payload a room was sent (`heard`,
`announced`, `card`, `shown`, `screen`).

*Losses.* Actions that end in `Dies` lose a process between two statements:
transactions roll back, autocommitted statements stay, the job of a lost worker is
stalled and taken once more. `Restart` (`CaptionRoom`) ends the process with its memory.
`Drops`, `HangsUp`, `ReopenFails`, `OpenFails` are the network and the speech service;
`CourierFails`, `ArchiveFails` are jobs that fail.

*History.* Variables marked so in the modules (`rings`, `tried`, `acted`, `fills`,
`ever`, `lastHeld`, `contested`, ...) are written and never read by actions; properties read them.

### Regimes

The code does not serialise its requests, and much of what its comments promise
is only true when some requests do not overlap. Each model has a constant set of
*regimes*, picked once in `Init`:

| Regime | What may overlap |
|---|---|
| `serial` | nothing |
| `calm` (`Reminders`) | nothing: requests, boots and rings take turns, and all are done before the clock moves |
| `alone` | only votes (answers); an admin request runs alone |
| `single` (`Voting`, `Trivia`, `RoomSchedule`, `Reminders`) | everything, but at most one admin request at a time |
| `single` (`Transcript`, `Requests`) | nothing, and every request ends; jobs and workers may still fail |
| `lossy` (`Requests`) | nothing, and a request may be lost midway |
| `shared` | everything, and any loss: the code's own |

A property that needs a regime names it in its premise (`OneDesk`,
`VotesAlone`, `InTurn`), so the same `Spec` carries all of them, and theorems quantify over
all. Properties without a premise hold of the code as it is, and `CaptionRoom`, where nothing
is claimed of requests in turn alone, has no regimes. The regimes are a
way to say *exactly how much* concurrency a promise survives, since an organiser can
keep to one admin screen at a time; where even one operator is not enough, a run
shows the violation. In `MCDelegates` the scenes in which something is claimed of
requests that overlap are run `shared`: codes, announcements, access, certificates,
switches, the reveal. For the others what is left unclaimed is listed in section 3.

### Ballot: code and actions

| Code (`voting/voting.service.ts`) | Actions |
|---|---|
| castVote 270-310 | `CastRead` (no lock), `CastPrevious`, `CastUpsert`, `CastCount`, `CastCommit`, `CastEmit` |
| createTopic, createEntry | `CreateTopic`, `CreateEntry` |
| updateTopic 79-93, openVoting 100-111 | `UpdateTopicRead` / `OpenVotingRead`, then `SaveTopicReload`, `SaveTopicWrite` |
| closeVoting 116-133 | `CloseVotingLock`, `CloseVotingAnnounce`, `CloseVotingCommit` |
| removeTopic 140-149 | `RemoveTopicRead`, `RemoveTopicVotes`, `RemoveTopicRow` |
| updateEntry without a topic | `EditEntryRead`, `SaveEntryReload`, `SaveEntryWrite` |
| updateEntry with a topic 199-234 | `MoveEntryLock`, `MoveEntryCheck`, `MoveEntrySave` |
| removeEntry 257-269 | `RemoveEntryRead`, `RemoveEntryVotes`, `RemoveEntryRow`, `RemoveEntryEmit` |

`PitchBallot` says the same in nine one-step acts. `ImplementsBallot` maps the
tables to it one to one: a transaction's commit is the act, reads and waits are
stutters, the two deletes of a removal are "give back the ballots" and "drop".
Deleting an account (`delegate/delegates.service.ts` 1140) also deletes ballots,
without a broadcast; `Accounts` leaves the rows of other tables out, and
`ScreensAreCurrent` says nothing of them.

### Trivia: code and actions

| Code (`trivia/trivia.service.ts`) | Actions |
|---|---|
| answer 129-161 | `AnswerRead`, `AnswerInsert` (a second answer is ignored), `AnswerCount` |
| create | `Create` |
| pushLive 174-198 | `AdminRead`, `PushClosesOthers`, `SaveReload`, `SaveWrite`, `AdminEmit` |
| close, update 200-242 | `AdminRead`, `SaveReload`, `SaveWrite`, `AdminEmit` |
| remove 251-263 | `AdminRead`, `RemoveAnswers`, `RemoveCounter`, `RemoveRow`, `AdminEmit` |

### Rooms: code and actions

| Code (`sessions/sessions.service.ts`) | Actions |
|---|---|
| create, createBulk 357-404 | `Create`: the room is not looked at |
| update 406-491 | `UpdateRead`, `UpdateClear` (clearRoom 518-567), `UpdateSave`, `UpdatePush`, `UpdateAnnounce` |
| setStatus 569-607 | `SetStatus`, `SetStatusRead`, `SetStatusSave` |
| remove 623-658 | `RemoveRead`, `RemoveRow` (what hangs off a session: `SessionRecords`) |

`Walks` is the walk of clearRoom over the room's sessions in start order: how late each of
them runs, the function in which it starts when the one before it ends (`PrevEnd`) if it
must (`Delta`), and at its own time otherwise. `Plans` has what is `Pushed` by it, for each way
the database may break ties. The code accepts a session
that ends before it starts; nothing can be said of a room that holds one, and
the model's operator does not type it (`Sane`).

### Reminders: code and actions

| Code | Actions |
|---|---|
| `remind`, `cancelReminder` (`sessions.service.ts` 91-103): calls nobody awaits | `Leave`: a chore is left behind |
| scheduleReminder 78-89, the remove of cancelReminder | `ChoreRemove`, `ChoreAdd` |
| onApplicationBootstrap 111-124 | `BootRead`, `BootIssue` (one session after another, in any order) |
| create, update, setStatus, remove, as far as they move reminders | `Create`, `UpdateRead`, `UpdateSave`, `SetStatus`, `SetStatusRead`, `SetStatusSave`, `RemoveRead`, `RemoveMarks`, `RemoveRow` |
| bookmark, unbookmark | `Bookmark`, `Unbookmark` |
| process (`session-reminders.processor.ts` 42-75) | `WorkerReads`, `WorkerAsks`, `WorkerRings` |
| BullMQ: a job per id, delayed, taken, removed when done, stalled | `Job`, `Due`, `WorkerTakes`, `WorkerCompletes`, `WorkerDies` |

A chore's first command is sent at once and on its sender's connection, so the
chores of one request send theirs in order (`behind`), and nothing else about
chores is ordered. Queue removal leaves a job alone that a worker holds; an add
under an id that exists is ignored.

### Captions: code and actions

| Code | Actions |
|---|---|
| startRoom 101-153 (`captions.service.ts`), startCapture (`captions.gateway.ts`) | `Start` (or `StartAgain`: "indempotent"), `Opened` or `OpenFails`, `Acknowledge` |
| stopRoom 195-240, queueArchive | `Stop`, `Released`, `StopUnflag`, `StopEnds` |
| sendAudio 155-193 | `SendAudio`; chunks are a recording's `header` or the `rest` |
| openStream, reopen, keep-alive, close (`deepgram.provider.ts` 148-206) | `OpeningStreams`, `Dropped`, `KeptAlive`, `TimerFires`, `Reopens`, `ReopenFails`, `Close` |
| onTranscript 246-295, as far as the room is concerned | `FinalSaves`: at any moment, in any session that may be live |
| archive processor 40-91 | `Archive` |
| the network, Deepgram, the desk's page (external) | `Drops`, `HangsUp`, `Hears`, `Records`, `HearsRestart` |
| onModuleDestroy | `Restart` |
| onTranscript and translateAndEmit 246-391 (`Transcript`) | `Say`, `SaveLine`, `Translate`, `KeepTranslation` (`Kept` is the foreign key) |
| recentCaptions, queueTranslationGapFill 478-532 | `Read`: a job per session and language, ignored while one is queued |
| fillTranslationGaps 560-626 and its processor | `WorkerReads` (each query an instant of its own), `WorkerCompares`, `WorkerFills`, `WorkerEnds`, `WorkerDies` |
| archive, clearCaptions 459-476 | `StopCapture`, `Archive`, `ArchiveFails`, `ClearCaptions` |

### The components about delegates: code and actions

| Code | Actions |
|---|---|
| login 44-68, refresh 70-137, logout, resetPassword (`auth.service.ts`) | `Login`; `RefreshRead`, `RevokeAll`, `IssueTokens`, `MarkConsumed`, `TokensAnswer`; `Logout`; `ResetPassword`. Any copy that was ever handed out may be presented |
| requestOtp 43-102, assertValid 117-159, consume (`otp.service.ts`) | `RequestCounts`, `RequestExpires`, `RequestRefused`, `RequestStores`, `RequestResets`, `RequestMails`; `CheckCounts`, `CheckDeletes`, `CheckLooks`; `CallerActs` or `CallerRefuses`; `Consume`: one per Redis command |
| registration 243-299, createStaff 569-585 | `RegisterReads` or `CreateStaffReads`, `CreateDelegate`, `ClaimRegistration` |
| setTier, setApproval, setAdmin, updateProfile (`delegates.service.ts`) | `SetTier`, `SetApproval`, `GrantAdmin`, `RevokeAdmin` with `CountsAdmins`, `UpdateProfile`; then `SaveDelegate`, which writes back what was read |
| approveAll, deleteAccount | `ApproveAllReads`, `ApproveAll`; `DeleteReads`, `CountsAdmins`, `DeleteCommits` |
| registration list 200-238 | `AddEntry`, `UpdateEntryReads`, `SaveEntry`, `DeleteEntry` |
| addConnection 624-690, remove, block | `ConnectReads`, `ConnectFinds` (under the sorted pair), `ConnectSaves` (as called); `RemoveConnection`, `BlockDelegate`, `UnblockDelegate` |
| sendDirectMessage 813-884, listThread 995-1020 | `SendReads`, `SendSaves`; `ThreadReads`, `ThreadMarks` |
| reactToMessage 928-976 | `ReactReads`, `ReactFinds`, `ReactWrites`, `ReactTells` |
| vote 136-190 (`discussions.service.ts`) | `VoteStarts`, `VoteReads`, `VoteWrites`, `VoteCounts`, `VoteCommits`: one transaction |
| bookmark, recordAttendance, setStatus, remove (`sessions.service.ts`) | `RecordReads`, `RecordAdds`; `StatusReads`, `StatusSaves`; `RemoveAsks`, `RemoveCounts`, `RemoveClears` per table, `RemoveSession` |
| announce, remove, registerDevice (`notifications.service.ts`), notifyConnection | `AnnounceSaves`, `AnnounceQueues`; `RetractReads`, `RetractDeletes`; `RegisterDevice`, `UnregisterDevice`; `DirectQueues` |
| process, sendDirect (`notifications.processor.ts`) | `CourierTakes`, `CourierReads` or `CourierSaves`, `CourierAsks`, `CourierPushes`, `CourierClears`, `CourierStamps`, `CourierTells` |
| RoutingPushSender, ApnsPushSender, FcmPushSender | `InvalidTokens`, `ApnsReports`, `FcmReports`: which tokens come back as invalid. `AppIsDeleted` makes one so; Firebase's stay, since the code compared with (`fcm-push.sender.ts:52`) is none of its own |
| issueCertificate 87-125, statusFor | `AsksCertificate`, `FindsCertificate`, `CountsStep` (six queries at once), `Unlocks`, `SavesCertificate`, `ShowsCertificate`; what a delegate does and what is undone are `Participates`, `Undone` |
| setCutToBreak, setOverlays (`live-ops.service.ts`) | `SetCutToBreak`, `SetOverlays`, `SetsFlag`, `ReadsFlags`, `BroadcastFlags` |
| setSpeakersRevealed 195-208 (`sessions.service.ts`) | `SetSpeakersRevealed`, `SetsKey`, `TellsApps`, `HostDies` |
| listSpeakers, searchSessions, searchSpeakers, `SpeakerRevealInterceptor` | `AsksLineUp`, `ReadsGate` (once for each list or match), `Intercepts` with `Learns`, `AskEnds` |
| every `@Get`, `@Post`, ... with its `@Roles` or `@Public` | `Routes`: a sequence of records, in the order the modules are imported and the methods stand |
| Express, `JwtAuthGuard`, `RolesGuard`, `ParseUUIDPipe` | `Fits`, `Taken`; `Admits`; `Parses`; `Told` is what a caller gets, in the order these run |
| login and refresh as far as the tier goes; setTier, setAdmin, deleteAccount | `ReadsDelegate`, `SignsAccess`; `RoleChanges`, `AccountGoes` |

## 3. Runs

| Run | Instance | What it shows |
|---|---|---|
| `voting_alone` | 2 delegates, 2 topics, 2 pitches, 2 votes in flight, 1 admin slot; regimes serial, alone | ballots rest on their pitch and are audited; results are the tally at the close; in serial, screens are current; the abstract ballot is implemented |
| `voting_contended` | 1 delegate, 1 topic, 1 pitch, 1 vote, 2 admin slots; regimes single, shared; with and without deaths | one admin request at a time, results are frozen and stored as announced |
| `voting_recomputed` | 1 topic, 2 admin slots, shared | **violated**: a stale save takes a frozen result back |
| `trivia` | 2 questions, 2 options, 1 delegate, 2 answers in flight, 1 admin slot; regimes alone, single; deaths of either side | one question is live; counters match answers; the card is the live question |
| `rooms` | 3 sessions, 2 rooms, instants 0..2 typed, pushes up to 3 | an edit clears its slot; pushes cascade and go no further than needed |
| `reminders` | 1 session, 2 starts, clock 0..3, lead 1, 1 request, 2 chores, 1 boot, 1 worker; regimes calm, single; with and without deaths | a reminder rings once for a start, twice only if a worker was lost; in calm, none is lost, none rings for what the session no longer is, and who saved a session is told |
| `reminders_boot` | as above without requests, shared | **violated**: a boot removes a job that is due and queues none |
| `caption_room` | 1 desk, 2 requests, 2 streams, 1 fault, everything overlapping | a room can be started again, nothing is forgotten but what was opened in an overlap, jobs have their file; closed streams end, and a desk that records is heard (liveness) |
| `transcript` | 2 lines, 1 take, 2 workers, window 8, fills of 1, one clear, one lost worker; single, shared | a fill saves a line once; no translation outlives its row; lines get translated (liveness) |
| `delegates` | the eleven scenes with the constants of `MCDelegates.cfg`; single, lossy, shared | see below |
| `mutual` | the network scene, single | **violated**: two delegates who added each other are not mutual |
| `unregister` | the access scene, single | **violated**: a phone cannot be unregistered |

`delegates` checks, one component to a behaviour: `SessionsRotate`, `CodesWork`,
`GuessesAreCapped`, `EntriesGrantOnce`, `AdminsAreGuarded`, `ReactionsHeal`,
`CountersMatchVotes`, `RecordsGoWithTheirSession`, `RingsMatchLosses`,
`CertificatesLast`, `FlagsReachScreens`, `RightsLapse`, `OtherRoutesServe`,
`LineUpFollowsTheSwitch`, and the types. The scenes share no variable but the regime, so putting them in one run
loses no interleaving that matters to a property: what they share in the code
(an account's deletion, a session's removal) stands in each of them as an action of
its own.

*Bounds.* Two delegates and two pitches are the least that tell a tally
from a flag and a ballot from a change of ballot; two topics the least for a move.
Two votes in flight on two slots meet in the unique row. Two admin slots are the
least for a stale save; a third would only repeat what the second does, since
every lock and row here is shared by two at a time. Trivia's `Limit` stops an
option being counted more often than given; one delegate with two slots
is enough because the table's unique key is per delegate. Three sessions are the
least for a cascade (the edited one, one it hits, one that one hits) and for a tie.
`Latest` bounds how far a chain of edits may push: an edit that would
end beyond it is not taken. Reminder jobs of two sessions never meet (the
session's id is the job's), so one session is enough; two starts a lead
apart are the least for a move, and the clock passes both. `Horizon` stops the clock
and with it the behaviours; two chores are what one request leaves. Rooms share
nothing in the caption service; two streams are a recording and the next, two
requests a start and a stop (or a start and the next) that overlap. One fault is any of a
failed opening, a drop and a failed reopening; Deepgram hanging up is not counted, so a
connection that ends and a reopening that fails still meet. Two lines and fills of one row are the least that leave a line for the next
fill; `Window` is larger than all that can be translated (6 rows), which `GapsAreFilledOnce`
needs, where the code's 60 rows are fewer than a long session has (see below). Four tokens
are two logins each rotated once; two codes a code and the next; three delegates the
founder, one more administrator and one who registers. A certificate's codes are three, one more
than its two requests can use before one of them has answered. `AccessTtl` of two ticks over a
clock of three lets a token outlive a change of tier and one be signed after it.
One phone, of either platform, is enough for a notice: phones never meet, and which of
them a carrier refuses is left open. Two organisers' requests and one answer are enough
for the reveal: answers change nothing.
Symmetry sets are used for safety only.

*Fairness.* `reminders`: strong fairness of the clock, which passes however many
requests keep arriving, and weak fairness of each request, chore, boot and worker once
begun (the database and Redis answer, the event loop goes on) and of workers taking what
is due (BullMQ polls). `caption_room`: weak fairness of a request once begun, of a
stream's timer, of an opening's end one way or the other, and of Deepgram hanging up on
what it cannot decode; strong fairness of a desk's page hearing a restart and sending
what it records, since a connection that drops over and over may disable both in
between. `transcript`: weak fairness of readers, of each line and each worker once begun,
and strong fairness of the translation succeeding for a row that is tried again and
again. No operator is obliged to do anything. The other modules have safety properties
only and assume none.

Every property has a mutant in `PROJECT.json`: a slip of the code (a dropped
lock, an upsert for an insert-or-ignore, a count outside the transaction, a
walk without its cascade, a timer that is not cleared) under which the same run finds it
violated. The slips stand in the modules before the definition they are wrong
versions of.

### What the runs show of the code

Four statements in comments do not hold, and a run shows each:

1. *"the announced result ... never recomputed"* (`pitch-topic.entity.ts:38`).
   `updateTopic` and `openVoting` save an entity read earlier without the row lock
   of `closeVoting`.
2. *"safe on every boot and on every instance"* (`sessions.service.ts:107`).
   Re-issuing removes the job before it asks whether there is still time for a
   new one: what fell due while no worker was free never rings.
3. *"The other side had already added them; this closes the loop"*
   (`delegates.service.ts:662`). The row is looked for under the sorted pair and stored
   as called.
4. *"the path segment ':id' is constrained to a UUID so it cannot swallow them"*
   (`notifications.controller.ts:66`). A pipe runs after the route was chosen and the
   guards asked: `DELETE notifications/register` answers 403 to delegates and 400 to
   admins. `OtherRoutesServe` says that it is the only such route.

Met while modelling and visible in the models, without a run of their own. Voting and trivia:

* A vote that passed its OPEN check before a close commits after the closing
  tally: the ballot counts in later tallies and not in the result. A vote may land in the
  topic its pitch has just left, though *"a vote cannot land mid-check"*
  (`voting.service.spec.ts:163`). This is why `ResultIsTheTallyAtClose` and
  `BallotsRestOnTheirPitch` need `VotesAlone`.
* A vote between the two deletes of `removeEntry` or `removeTopic` leaves a
  ballot for a pitch that is gone. A stale save inserts a removed topic again.
* `closeVoting` broadcasts inside its transaction; a commit that fails leaves an
  announced result that is not stored.
* Two `pushLive` at once leave two live questions (`trivia.service.ts:182`). An answer
  that dies between insert and count stays uncounted for good; one that races a removal
  leaves its row and counter behind.

Sessions and captions:

* `create` never clears a room, and `clearRoom` looks only from the edited session's
  start on, so rooms may overlap (`sessions.service.ts:433`).
* A final saved after its room stopped leaves its session in `lastSession`: a break
  recorded next is archived over that session's transcript. The same gap lets late finals,
  or a second take of one session, leave a transcript half archived.
* A start, a stop and a start while the first is still opening leave two streams; what opens
  last is kept (`captions.service.ts:137`), the other runs on with nobody to close it, and its
  recording has no job. A stop that meets an opening may leave the room capturing though
  nobody captures, or delete a stream without closing it. `NothingIsForgotten` says that a
  stream or recording can be lost in such overlaps only (`contested`).
* A first opening that fails where the socket also closes leaves a stream that goes
  on reopening with nobody to close it.
* *"It is paid for once no matter how many delegates read it afterwards"*
  (`captions.service.ts:544`) is not so in a session of more than 60 lines. A fill compares the
  newest 60 English rows with the newest 60 translations, each in its own order of saving. A
  live line translated late is the newest translation, so one of a line that is still
  read falls out of what is compared, is stored again, and pushes out the next; nothing need
  overlap. TLC finds it in `MCTranscript` with `MaxLines = 3`, `Window = 2` and
  `Regimes = {"single"}`, where `GapsAreFilledOnce` fails; `GapsFillOnce` proves that
  there is no other way. The text may come from Redis for a day; the row is a second one anyhow.
* The board asks for `capture:room:<room>`; the service sets `capture: room: <room>`
  (`live-ops.service.ts:38`, `captions.service.ts:682`).

Accounts and what belongs to them:

* `setTier`, and `setAdmin` with a grant, count nobody and may take the last administrator
  (`delegates.service.ts:243`, `617`); `AdminsAreGuarded` says that only such saves can.
  Two revocations at once can too. `setTier` clears `pendingReview` without the event of an approval.
* Two refreshes of one token at once both succeed; a client that lost the answer of
  a rotation revokes everything at its next try. The key `bl:` that logout writes is never
  read, and the pass carries `type` where its reader looks for `typ`.
* A request lost between the count and its expiry leaves an `otp:rate` that never ends;
  `otp:attempts` has no expiry at all.
* A stale save of a registration entry takes its claim back.
* Votes of *one* delegate on one comment that overlap move the counters twice.
* `listThread` returns the oldest hundred messages.
* A certificate saved by a request that overlaps the deletion of the account stays;
  the second of two simultaneous requests is answered with a 500.
* `RoutingPushSender.sendToTokens` takes no `data` (`routing-push.sender.ts:16`), so on both
  platforms a tap does not know its announcement. `FcmPushSender` compares with a code that Firebase
  does not use, so dead Android tokens stay.
* A retraction between the worker's read and its stamp brings the announcement back.
* A code lasts 900 seconds (`otp.service.ts:20`); the mail says ten minutes.

Hazards of the code that no property covers, since its component is run with one request at a
time: two registrations that overlap on one invite, and one lost between creating the account
and claiming its entry (`EntriesGrantOnce`); a record added between the deletes of a session's
removal (`RecordsGoWithTheirSession`); requests that overlap on a connection or a thread
(`Network`); two `pushLive`, a late vote, a stale edit (the `OneDesk` and `VotesAlone` properties);
switches set on two instances (`FlagsReachScreens`).

## 4. Proofs

TLAPS checks these for all values of the constants that satisfy the named assumptions,
each of which stands in the module that declares its constants and is evaluated by TLC:

* the sentinel `None` is no value of any other kind (`NoneIsNothing`, `NoneIsNoValue`,
  `NoneIsNoRow`, `NoneIsNoAuth`, `NoneIsNoSender`, `NoneIsNoTime`, `NoneIsNoPanel`,
  `NoneIsNoRequest`, `NoneIsNoSide`, `NoneIsNoStatus`, `NoneIsNoPlace`), and bounds are naturals (`TokenBounds`,
  `CodeBounds`, `AccessBounds`, `NetworkBounds`, `CertificateBounds`, `TranscriptBounds`,
  `FaultsAreCounted`);
* regimes and deaths come from the listed sets (`Switches`, `TriviaSwitches`,
  `TranscriptSwitches`, `RequestSwitches`, `ReminderSwitches`);
* what is counted is finite: delegates in a tally (`DelegatesFinite`), answers
  and requests in flight (`RequestsAreFew`), sessions of a programme (`SessionsAreFew`), voters of a comment (`VotersAreFew`), senders
  and checkers of a code (in `CodeBounds`);
* starts are instants of a clock of naturals (`ClockRuns`), sessions have the statuses of
  the enum (`StatusesOfSessions`), tiers do not overlap (`AccountTiers`), announcements
  and direct notices neither (`NoticeKinds`), each step of the checklist asks for something
  (`StepsNeedSomething`).

| Theorem | States |
|---|---|
| `VotingProofs!TypeCorrect` | `TypeOK` |
| `CloseIsExclusive`, `PitchesHaveTopics` | `CloseHoldsAnOpenRow`, `PitchHasTopic`, all regimes, with deaths |
| `AuditIsComplete`, `WritersTakeTurns` | `BallotsAreAudited`, `OneWriterPerBallot`, all regimes, with deaths |
| `ResultsComeWithClosing`, `AnnouncementsAreKept`, `ResultsAreFrozen`, `RemovalsAreForGood` | the `OneDesk` properties, with any number of voters |
| `BallotsRestThere`, `ClosingCounts` | `BallotsRestOnTheirPitch`, `ResultIsTheTallyAtClose` |
| `ScreensShowTheStanding` | `ScreensAreCurrent` |
| `BallotIsImplemented` | `ImplementsBallot` of every behaviour that satisfies `VotesAlone` |
| `TriviaProofs!TypeCorrect`, `OneLiveAtATime` | `TypeOK`; `OneLiveQuestion`, also when requests die |
| `CardIsRight`, `CountersAreAnswers` | `CardIsTheLiveQuestion`, `CountsMatchAnswers` |
| `RemindersProofs!TypeCorrect`, `NeverRingsTwice` | `TypeOK`; `RingsOnce`, all regimes, with deaths |
| `RemindersAreKept`, `RingsAreTrue` | `NoReminderLost`; `RingIsTrue` (an action property) |
| `CaptionProofs!CaptionRoomTypeCorrect` | `TypeOK` |
| `RoomsAreRestartable`, `ArchiveFindsItsFile` | `NothingIsForgotten`, `JobsHaveTheirFile` |
| `ScheduleProofs!ScheduleTypeCorrect`, `RoomsAreCleared` | `TypeOK`; `RoomIsCleared` |
| `PushesAreLeast` | `PushIsLeast` (an action property) |
| `TranscriptProofs!TranscriptTypeCorrect`, `NoLineIsTwice` | `TypeOK`; `NoLineTwice`, all regimes |
| `GapsFillOnce` | `GapsAreFilledOnce` of every behaviour that satisfies `RowsFit`: what is translated fits in the window |
| `IdentityProofs!RotationHolds` | `SessionsRotate` |
| `GuessingIsCapped`, `MailedCodesWork` | `GuessesAreCapped`, `CodesWork` |
| `InvitesAreSpentOnce`, `LastAdminIsGuarded` | `EntriesGrantOnce`; `AdminsAreGuarded` (an action property) |
| `RightsEnd` | `RightsLapse` |
| `DelegatesProofs!ReactionsAreHealed`, `CountersAreVotes` | `ReactionsHeal`, `CountersMatchVotes` |
| `RecordsGoLast`, `CertificateIsKept` | `RecordsGoWithTheirSession`, `CertificatesLast` |
| `RingsAreAccountedFor` | `RingsMatchLosses` |
| `ScreensFollowFlags`, `LineUpIsKept` | `FlagsReachScreens`, `LineUpFollowsTheSwitch` |
| eleven theorems `...TypeCorrect` in the last two modules | the type of each component of `MCDelegates` |
| `ComposedTypeCorrect` | `TypeOK` of the composition |

### Arguments

*Ballot.* `CloseHoldsAnOpenRow` needs that nobody but the lock's holder writes a row that
is being closed, which every topic write's guard gives.
The `OneDesk` results are not inductive alone: that a result is frozen depends on
what a save in flight *remembers*. `DeskInv` adds: at most one admin slot is busy
(`AtDesk`); a topic being saved still has the result the slot remembers, and its
state but for an opening (`FreshTopic`); a pitch being edited still exists
(`FreshEntry`); an id that is gone was used (`Known`); what a close broadcast is
what it is about to commit (`Stored`). Without `AtDesk` the save of `FreshTopic`
is exactly the step that `voting_recomputed` shows.

Under `VotesAlone`, `AloneInv` says that admins and voters keep apart (`Apart`), so what
either has checked stands until it writes: a vote past its checks has its pitch in its
open topic (`CastSound`), a close that is saving holds the tally, a removal that has
given the ballots back finds none new (`SoundDesk`). From it the refinement follows act by
act: the slots of `Voting` map to nothing, so a step either commits (one lemma per act of
`PitchBallot`) or stutters. `CurrentInv` adds, in serial, that where the screens
are behind, the one request that made them so is about to tell them.

*Trivia.* `LiveInv`: while a question is being saved live, no other is (`SavesAlone`).
`CardInv` ties the card to what the one request has done so far (`Scenes`, one by step).
`CountInv` (`Tallied`): counter plus the answers inserted and not yet counted is the number of
rows, option by option, or more where an answer died in between.

*Reminders.* `RingsOnce` is about a count that any number of edits, boots and workers could
raise. `RingInv` explains why they do not: a busy worker holds its job alone
(`Held`), and (`Counted`) what rang was due, what is due is never queued again, so
the job that rang was the last for its start; a job not yet rung has count
zero, or one if it stalled, and only a lost worker stalls a job. `KeptInv`, for the calm
regime, is what makes delete-then-add safe: a session still to be reminded has its job and
nobody about to remove it, or one chore that `WillAdd` it; of the other chores about it each
`GivesWay`: it carries a status that adds nothing, and sends its removal before the
one that adds, since they come from one request. A session one boot has read is as it
was read, and no chore serves it (`BootAlone`). `StandsInv` adds that the row a worker has read
stands while it is busy.

*Captions.* `RoomInv`: no two requests have the same stream, and one that opens a stream
has nobody else's (`Owned`); the room's stream and its recording are one, and audio waits
only for an opening (`Kept`); a file that is ending has its request, and a queued one its only
job (`Filed`). `Overlaps` is what makes the exception of `NothingIsForgotten` small: of two
openings both are contested, and so is one whose audio does not wait any more, or beside
which a stop is under way; a stream that an opening may replace, or a stop delete without
having closed it, is contested too. So a stream that was not is the room's until a stop closes
it. Nothing is assumed of what overlaps: faults, audio and requests are any number of
each; the run checks two requests and one fault.

*Rooms.* `ScheduleInv`: besides the types, every session of the programme, and every copy a
request holds, is one that ends no earlier than it starts (`RowsAreSane`), and (`Standing`) at
each step of the one edit, what the walk was computed from still stands in the programme.
The walk is defined over positions, and what it does is proved by a least
counterexample: at the first follower that overlaps one before it, `Delta` would not be
what it is (`WalkFits`). From
it the followers keep their order, fit behind one another and behind the edited session, and
each that moved starts where another ends. The rest of the room was, and stays, out of the way
(`FitsFrame`, `FitsClears`).

*Transcript.* `SessionInv` needs no premise: the queue's job has one worker at most (`Alone`); nothing
is kept of a line before it is said, nor a translation without its row (`Rooted`); and
(`Counted`) the translations of a row are its gap fills, plus its own final's for a live line,
which adds one only while it is on its way and nobody added it. One thing at a
time, a line that is on its way meets no gap fill (`OneAtATime`). `Filled` is where the window
matters: a job that saw the translations saw every row that was filled, if they fit in what it
reads (`AllAreRead`), and since no other job ran meanwhile, what it takes for missing was not
filled (`WorkersKnow`). That they fit is a premise of the theorem (`RowsFit`): with the code's
window of 60 rows it is true of short sessions only.

*Identity.* `SessionsInv`: in turn a token is replaced while it is live and of no use when its
successor is answered; two live tokens of a login exist only between the two saves
of a rotation (`Superseded`). `CapInv` counts what a code has met *and may still meet*: checkers
past the count, one round for each sender that is about to reset the count, and what the
count still allows; this sum never grows while the code stands. `WorkInv` says where the last
mailed code is at each step of its one request. `AccountsInv`: what was read still holds when
it is written, an entry and its account agree but for a claim under way.
`RightsInv`: each token bears the tier of its account, or one it had until a moment after which
it lasts `AccessTtl` at most.

*Records.* `VotesInv`: what a ballot read of its voter's choice stands until it commits, so counters
move with `Cardinality(For(c, s))`. `OrphansInv`: what a removal has not cleared is of the
tables it has left. `HealsInv`: a thread that was told shows what is stored, and a reaction
under way is the one it waits for. `EarnedInv`: a code about to be shown is the one in the table.

*Delivery.* `RingsInv`: a courier holds its notice alone, and before an attempt no phone has rung
more often than couriers were lost. `ScreensInv` and `LineUpInv` share an idea: a request that is
about to tell something stale is `Corrected` by one that read later and tells later; a loss
breaks the chain, which is why the properties exempt it.

*Composition.* Each component is proved about with its own specification (`TokensSpec`, ...). A
behaviour of `MCDelegates` plays one of them, `scene`, and the others stay as they began. The
composition is how eleven models share a run, and nothing is claimed of interactions; the
lemma `ComponentsKeepTheirSpecs` only carries the types over to it.

Types of `Voting`, `Trivia`, `Reminders` and `RoomSchedule`, `CloseHoldsAnOpenRow`, `PitchHasTopic`,
`OneWriterPerBallot`, `ResultIffClosed` and `RemovedForGood` are proved and no longer run.
Every inductive invariant above was checked with TLC on the instance of its run first.

*Only model-checked*: all liveness (`SavedSessionsRing`, `ClosedStreamsEnd`, `CaptureHears`,
`LinesGetTranslated`), which rests on fairness and is out of the prover's reach;
`OtherRoutesServe`, a statement about one constant, the hundred and thirteen routes, which TLC
evaluates. Every other safety invariant and action property that a run finds to hold is a theorem.

## 5. Not modelled

Admin figures read only. Security events and the audit log are append-only
and read by nobody. Storage, email and SMS senders, translation and audio-room
calls are input and output without state of their own. How words are matched in a
search is a query. Configuration, migrations and seeds run once; the constraints
the migrations make (unique indices, foreign keys) are in the models. Wording, paging,
DTO validation and rate limits at the controllers are abstracted, and so is the shape of
what is answered. Of the accounts, what a deletion does to other components' rows is
modelled where a property speaks of it (certificates) and nowhere else. Password checks,
the expiry of refresh tokens and the pass at the door are left out.

## 6. Plan

1. An account's deletion across components (ballots, certificate, messages, entries)
   as one transaction over their composition.
2. Replies in a thread; segments of announcements and the inbox.
3. Fairness of the eleven components, and with it what their requests must lead to.
