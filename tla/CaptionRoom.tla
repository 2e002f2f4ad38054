---------------------------- MODULE CaptionRoom ----------------------------
(***************************************************************************)
(* One room's capture: the desks of captions.gateway.ts, startRoom and     *)
(* stopRoom of captions.service.ts, the stream of deepgram.provider.ts     *)
(* that reopens itself, the recording and its archive job.                 *)
(*                                                                         *)
(* A request is in flight between two awaits.  A chunk of audio is         *)
(* "header" (the first of a recording, the only one that can be decoded    *)
(* alone) or "rest".  A stream is named for its whole life, reopenings     *)
(* included, and so is the recording file opened with it.                  *)
(* Each "Slip:" is a plausible wrong version of what follows it.           *)
(***************************************************************************)
EXTENDS Naturals, FiniteSets

CONSTANTS Desks,     \* sockets of administrators and session administrators
          Requests,  \* slots for capture:start and caption:stop
          Streams,   \* how often a stream is opened: a bound
          Sessions,
          MaxFaults, \* lost connections and failed openings: a bound
          None

ASSUME FaultsAreCounted == MaxFaults \in Nat
ASSUME NoneIsNothing ==
  None \notin Sessions \cup Streams \cup Desks \cup {"empty", "header", "rest"}

VARIABLES
  pending,     \* pendingAudio: None, "empty", or what its first chunk is
  active,      \* activeRooms
  recording,   \* recordings
  lastSession,
  stream,      \* what openStream closes over
  file,        \* the recording on disk
  job,         \* the archive jobs waiting for it, and their session
  desk,        \* captureRoom, and what the desk's recorder sends next
  req,
  faults,
  contested    \* history: streams whose opening a stop, or another opening, overlapped

service == <<pending, active, recording, lastSession>>
disk == <<file, job>>
vars == <<service, stream, disk, desk, req, faults, contested>>

NoRequest == [pc |-> "idle", desk |-> None, stream |-> None, session |-> None]
AwayDesk == [capturing |-> FALSE, sends |-> "nothing", restart |-> FALSE]
Unopened == [line |-> "none", closing |-> FALSE, opened |-> FALSE, held |-> FALSE, heard |-> "nothing"]

InitMemory ==
  /\ pending = None /\ active = None /\ recording = None /\ lastSession = None
  /\ req = [r \in Requests |-> NoRequest]
  /\ desk = [d \in Desks |-> AwayDesk]

Init ==
  /\ InitMemory
  /\ stream = [s \in Streams |-> Unopened]
  /\ file = [s \in Streams |-> "none"]
  /\ job = [s \in Streams |-> [waiting |-> 0, session |-> None]]
  /\ faults = 0
  /\ contested = {}

-----------------------------------------------------------------------------
(* The capture side.                                                       *)
(* Slots and streams are taken in a fixed order: their names mean nothing.  *)
Free(r) ==
  /\ \E q \in Requests : req[q].pc = "idle"
  /\ r = CHOOSE q \in Requests : req[q].pc = "idle"

Unused == {s \in Streams : stream[s].line = "none"}
NewStream == CHOOSE s \in Unused : TRUE

(* Connections fail at any time, MaxFaults times: a bound.                  *)
Faulty == faults < MaxFaults

(* Where openStream has not returned yet.                                   *)
OpeningStreams == {req[q].stream : q \in {p \in Requests : req[p].pc = "opening"}}

Captures(d) == [desk EXCEPT ![d].capturing = TRUE]

(* "indempotent - capture page reconnect happen"                           *)
StartAgain(r, d) ==
  /\ Free(r)
  /\ active # None \/ pending # None
  /\ desk' = Captures(d)
  /\ UNCHANGED <<service, stream, disk, req, faults, contested>>

Start(r, d) ==
  /\ Free(r)
  /\ active = None /\ pending = None
  /\ pending' = "empty"
  /\ Unused # {}
  /\ stream' = [stream EXCEPT ![NewStream].line = "connecting"]
  /\ req' = [req EXCEPT ![r] = [NoRequest EXCEPT !.pc = "opening", !.desk = d, !.stream = NewStream]]
  /\ contested' = IF \E q \in Requests : req[q].pc \in {"opening", "unflagging"}
                  THEN contested \cup {NewStream} ELSE contested
  /\ UNCHANGED <<active, recording, lastSession, disk, desk, faults>>

(* The stream is open: it is kept, a file is opened beside it, and what    *)
(* waited goes to both.                                                    *)
Opened(r) ==
  LET s == req[r].stream IN
  /\ req[r].pc = "opening"
  /\ active' = s /\ recording' = s /\ pending' = None
  /\ stream' = [stream EXCEPT ![s] = [line |-> "open", closing |-> FALSE, opened |-> TRUE, held |-> TRUE,
                  heard |-> IF pending \in {"header", "rest"} THEN pending ELSE "nothing"]]
  /\ file' = [file EXCEPT ![s] = "open"]
  /\ req' = [req EXCEPT ![r].pc = "flagging"]
  /\ UNCHANGED <<lastSession, job, desk, faults, contested>>

(* openStream throws.  Where the socket also reports that it closed, the   *)
(* reopening it schedules goes on without anybody who holds the stream.    *)
OpenFails(r, reported) ==
  LET s == req[r].stream IN
  /\ req[r].pc = "opening"
  /\ Faulty /\ faults' = faults + 1
  /\ pending' = None
  /\ stream' = [stream EXCEPT ![s].line = IF reported THEN "waiting" ELSE "dead"]
  /\ req' = [req EXCEPT ![r] = NoRequest]
  /\ UNCHANGED <<active, recording, lastSession, disk, desk, contested>>

Acknowledge(r) ==
  /\ req[r].pc = "flagging"
  /\ desk' = Captures(req[r].desk)
  /\ req' = [req EXCEPT ![r] = NoRequest]
  /\ UNCHANGED <<service, stream, disk, faults, contested>>

(* Slip: the socket is closed, and the flag that says so is not set.       *)
CloseSocket(s) ==
  [stream EXCEPT ![s].line = IF stream[s].line = "open" THEN "waiting" ELSE stream[s].line]
(* A reopening in flight is not told.                                      *)
Close(s) ==
  [stream EXCEPT ![s].closing = TRUE,
                 ![s].line = IF stream[s].line = "open" THEN "closed" ELSE stream[s].line]

Stop(r, d) ==
  /\ Free(r)
  /\ desk[d].capturing
  /\ pending' = None
  /\ stream' = IF active = None THEN stream ELSE Close(active)
  /\ req' = [req EXCEPT ![r] = [NoRequest EXCEPT !.pc = "unflagging", !.desk = d]]
  /\ contested' = contested \cup OpeningStreams
  /\ UNCHANGED <<active, recording, lastSession, disk, desk, faults>>

Released(d) == [desk EXCEPT ![d].capturing = FALSE, ![d].sends = "nothing", ![d].restart = FALSE]

(* Slip: a room without a recording is archived like any other.            *)
StopUnflagAnyway(r) ==
  /\ req[r].pc = "unflagging"
  /\ active' = None /\ recording' = None /\ lastSession' = None
  /\ file' = [s \in Streams |-> IF s = recording THEN "ending" ELSE file[s]]
  /\ req' = [req EXCEPT ![r] = [@ EXCEPT !.pc = "ending", !.stream = recording, !.session = lastSession]]
  /\ UNCHANGED <<pending, stream, job, desk, faults, contested>>
(* Slip: the recording is forgotten when its job is queued.                *)
StopUnflagKeeps(r) ==
  /\ req[r].pc = "unflagging"
  /\ active' = None /\ lastSession' = None
  /\ \/ /\ recording = None
        /\ desk' = Released(req[r].desk)
        /\ req' = [req EXCEPT ![r] = NoRequest]
        /\ UNCHANGED file
     \/ /\ recording # None
        /\ file' = [file EXCEPT ![recording] = "ending"]
        /\ req' = [req EXCEPT ![r] = [@ EXCEPT !.pc = "ending", !.stream = recording, !.session = lastSession]]
        /\ UNCHANGED desk
  /\ UNCHANGED <<pending, recording, stream, job, faults, contested>>
(* Once its key is deleted from Redis, the room, the recording and the      *)
(* session are taken in one go.                                            *)
StopUnflag(r) ==
  /\ req[r].pc = "unflagging"
  /\ active' = None /\ recording' = None /\ lastSession' = None
  /\ \/ /\ recording = None
        /\ desk' = Released(req[r].desk)
        /\ req' = [req EXCEPT ![r] = NoRequest]
        /\ UNCHANGED file
     \/ /\ recording # None
        /\ file' = [file EXCEPT ![recording] = "ending"]
        /\ req' = [req EXCEPT ![r] = [@ EXCEPT !.pc = "ending", !.stream = recording, !.session = lastSession]]
        /\ UNCHANGED desk
  /\ UNCHANGED <<pending, stream, job, faults, contested>>

(* The file is complete: a job for the session, or no file.                *)
StopEnds(r, queued) ==
  LET s == req[r].stream IN
  /\ req[r].pc = "ending"
  /\ queued => req[r].session # None
  /\ file' = [file EXCEPT ![s] = IF queued THEN "queued" ELSE "gone"]
  /\ job' = [job EXCEPT ![s] = IF queued THEN [waiting |-> @.waiting + 1, session |-> req[r].session] ELSE @]
  /\ desk' = Released(req[r].desk)
  /\ req' = [req EXCEPT ![r] = NoRequest]
  /\ UNCHANGED <<service, stream, faults, contested>>

(* The job reads the file, replaces the transcript, and removes the file.  *)
Archive(s) ==
  /\ job[s].waiting > 0
  /\ job' = [job EXCEPT ![s].waiting = @ - 1]
  /\ file' = [file EXCEPT ![s] = "gone"]
  /\ UNCHANGED <<service, stream, desk, req, faults, contested>>

-----------------------------------------------------------------------------
(* Audio.  The desk's page and its recorder are external.                   *)
Records(d) ==
  /\ desk[d].capturing /\ desk[d].sends = "nothing"
  /\ desk' = [desk EXCEPT ![d].sends = "header"]
  /\ UNCHANGED <<service, stream, disk, req, faults, contested>>

HearsRestart(d) ==
  /\ desk[d].restart
  /\ desk' = [desk EXCEPT ![d].restart = FALSE, ![d].sends = "header"]
  /\ UNCHANGED <<service, stream, disk, req, faults, contested>>

Hears(s) == stream[s].line = "open" /\ stream[s].heard = "nothing"

(* sendAudio: to what waits, or to the file and the stream.  A restart      *)
(* reaches the desk before its next chunk, a quarter of a second later.     *)
SendAudio(d) ==
  LET chunk == desk[d].sends IN
  /\ desk[d].capturing /\ chunk # "nothing" /\ ~desk[d].restart
  /\ desk' = [desk EXCEPT ![d].sends = "rest"]
  /\ pending' = IF pending = "empty" THEN chunk ELSE pending
  /\ stream' = IF pending = None /\ active # None /\ Hears(active)
               THEN [stream EXCEPT ![active].heard = chunk] ELSE stream
  /\ UNCHANGED <<active, recording, lastSession, disk, req, faults, contested>>

-----------------------------------------------------------------------------
(* The stream and its connection.                                          *)
Dropped(s) ==
  stream' = [stream EXCEPT ![s].line = IF stream[s].closing THEN "closed" ELSE "waiting", ![s].heard = "nothing"]

Drops(s) ==
  /\ stream[s].line = "open"
  /\ Faulty /\ faults' = faults + 1
  /\ Dropped(s)
  /\ UNCHANGED <<service, disk, desk, req, contested>>

(* Slip: the timer is not cleared.                                         *)
KeptAliveForever(s) == stream[s].held
KeptAlive(s) == stream[s].held /\ ~stream[s].closing

(* The service hangs up on a stream that sends nothing it can decode: one   *)
(* without its header, or one that nobody feeds or keeps alive.             *)
HangsUp(s) ==
  /\ stream[s].line = "open"
  /\ stream[s].heard = "rest" \/ ~KeptAlive(s)
  /\ Dropped(s)
  /\ UNCHANGED <<service, disk, desk, req, faults, contested>>

TimerFires(s) ==
  /\ stream[s].line = "waiting"
  /\ stream' = [stream EXCEPT ![s].line = IF stream[s].closing THEN "closed" ELSE "connecting"]
  /\ UNCHANGED <<service, disk, desk, req, faults, contested>>

(* Slip: it is always the first connection.                                *)
ReopensUnsaid(s) ==
  /\ stream[s].line = "connecting" /\ s \notin OpeningStreams
  /\ stream' = [stream EXCEPT ![s].line = "open", ![s].opened = TRUE]
  /\ UNCHANGED <<service, disk, desk, req, faults, contested>>
(* A reopening asks every desk for a fresh recording.  It does not look     *)
(* whether the stream was closed meanwhile.                                 *)
Reopens(s) ==
  /\ stream[s].line = "connecting" /\ s \notin OpeningStreams
  /\ stream' = [stream EXCEPT ![s].line = "open", ![s].opened = TRUE]
  /\ desk' = IF stream[s].opened
             THEN [d \in Desks |-> [desk[d] EXCEPT !.restart = desk[d].sends # "nothing"]]
             ELSE desk
  /\ UNCHANGED <<service, disk, req, faults, contested>>

(* Tried again only where the socket reports that it closed.               *)
ReopenFails(s, reported) ==
  /\ stream[s].line = "connecting" /\ s \notin OpeningStreams
  /\ Faulty /\ faults' = faults + 1
  /\ stream' = [stream EXCEPT ![s].line =
       IF ~reported THEN "dead" ELSE IF stream[s].closing THEN "closed" ELSE "waiting"]
  /\ UNCHANGED <<service, disk, desk, req, contested>>

-----------------------------------------------------------------------------
(* onTranscript, for a final of a connection that is decoded, or the last   *)
(* words of one that is being closed: its row is saved, at any moment, in   *)
(* whichever session of the programme is live.  The awaits before, and a     *)
(* final that finds no session, leave nothing behind.                       *)
FinalSaves(s, session) ==
  /\ stream[s].opened /\ stream[s].heard = "header"
  /\ lastSession' = session
  /\ UNCHANGED <<pending, active, recording, stream, disk, desk, req, faults, contested>>

-----------------------------------------------------------------------------
(* The end of the process, which closes the streams and leaves the files.   *)
Restart ==
  /\ active # None \/ pending # None \/ \E r \in Requests : req[r].pc # "idle"
  /\ pending' = None /\ active' = None /\ recording' = None /\ lastSession' = None
  /\ req' = [r \in Requests |-> NoRequest]
  /\ desk' = [d \in Desks |-> AwayDesk]
  /\ stream' = [s \in Streams |-> IF stream[s] = Unopened THEN Unopened
                                  ELSE [Unopened EXCEPT !.line = "dead", !.closing = TRUE]]
  /\ file' = [s \in Streams |-> IF file[s] \in {"open", "ending"} THEN "left" ELSE file[s]]
  /\ UNCHANGED <<job, faults, contested>>

RequestStep(r) == Opened(r) \/ Acknowledge(r) \/ StopUnflag(r)

Next ==
  \/ \E r \in Requests :
       \/ \E d \in Desks : StartAgain(r, d) \/ Start(r, d) \/ Stop(r, d)
       \/ RequestStep(r)
       \/ \E b \in BOOLEAN : OpenFails(r, b) \/ StopEnds(r, b)
  \/ \E d \in Desks : Records(d) \/ HearsRestart(d) \/ SendAudio(d)
  \/ \E s \in Streams :
       \/ Drops(s) \/ HangsUp(s) \/ TimerFires(s) \/ Reopens(s) \/ Archive(s)
       \/ \E b \in BOOLEAN : ReopenFails(s, b)
       \/ \E session \in Sessions : FinalSaves(s, session)
  \/ Restart

Spec == Init /\ [][Next]_vars

(* Requests and timers run, an opening or a reopening ends one way or the   *)
(* other, the service hangs up on what it cannot decode, and a desk that     *)
(* records hears the restart and goes on sending.  A stream has one of its  *)
(* three steps at a time.                                                   *)
FairSpec ==
  /\ Spec
  /\ \A r \in Requests : WF_vars(RequestStep(r) \/ StopEnds(r, FALSE))
  /\ \A s \in Streams : WF_vars(TimerFires(s) \/ Reopens(s) \/ HangsUp(s))
  /\ \A d \in Desks : SF_vars(HearsRestart(d)) /\ SF_vars(SendAudio(d))

-----------------------------------------------------------------------------
Chunks == {"nothing", "header", "rest"}
RequestSlot == {x \in [pc : {"idle", "opening", "flagging", "unflagging", "ending"}, desk : Desks \cup {None},
                       stream : Streams \cup {None}, session : Sessions \cup {None}] :
                  /\ x.pc # "idle" => x.desk # None
                  /\ x.pc \in {"opening", "flagging", "ending"} => x.stream # None}

(* The type invariant: a request in flight knows its desk and its stream.   *)
TypeOK ==
  /\ pending \in {None, "empty", "header", "rest"}
  /\ active \in Streams \cup {None} /\ recording \in Streams \cup {None}
  /\ lastSession \in Sessions \cup {None}
  /\ stream \in [Streams -> [line : {"none", "connecting", "open", "waiting", "dead", "closed"},
                             closing : BOOLEAN, opened : BOOLEAN, held : BOOLEAN, heard : Chunks]]
  /\ file \in [Streams -> {"none", "open", "ending", "queued", "gone", "left"}]
  /\ job \in [Streams -> [waiting : Nat, session : Sessions \cup {None}]]
  /\ desk \in [Desks -> [capturing : BOOLEAN, sends : Chunks, restart : BOOLEAN]]
  /\ req \in [Requests -> RequestSlot]
  /\ faults \in 0..MaxFaults
  /\ contested \subseteq Streams

AtRest == \A r \in Requests : req[r].pc = "idle"

(* However requests, losses and audio overlap: when no request is left, a   *)
(* room whose start failed, or ended, can be started again (lines 133-136,  *)
(* 144), a stream that was handed out is the room's or is being closed, and *)
(* a recording on disk is the room's or has its job (195-202, 212-240).     *)
(* The exceptions are the files a lost process leaves, and what was opened  *)
(* while a stop or another opening was under way: lines 137-141 keep what   *)
(* is opened last, so a start, a stop and a start may leave the other's     *)
(* stream running and its file unread.                                      *)
NothingIsForgotten ==
  AtRest =>
    /\ pending = None
    /\ \A s \in Streams :
         /\ stream[s].held /\ stream[s].line \in {"connecting", "open", "waiting"} =>
              active = s \/ stream[s].closing \/ s \in contested
         /\ file[s] = "open" => (recording = s /\ active = s) \/ s \in contested
         /\ file[s] # "ending"
         /\ file[s] = "queued" => job[s].waiting = 1

(* However starts and stops overlap, a recording has one job at most, and   *)
(* the job finds its file (lines 213-216 take the recording before waiting). *)
JobsHaveTheirFile ==
  \A s \in Streams : /\ job[s].waiting <= 1
                     /\ job[s].waiting = 1 => file[s] = "queued" /\ job[s].session # None

(* A stream that was closed hears nobody in the end: the reopening that was *)
(* in flight is hung up on, and is not reopened (deepgram.provider.ts       *)
(* 155-163).                                                                *)
ClosedStreamsEnd ==
  \A s \in Streams : stream[s].closing ~> stream[s].line \in {"closed", "dead"}

Recording(d) == desk[d].capturing /\ desk[d].sends # "nothing"

(* "captions never came back until an operator stopped and restarted        *)
(* capture at the desk" (lines 171-181): a room with a desk that records     *)
(* has, in the end, a stream that got its header, unless it is given up.    *)
CaptureHears ==
  (active # None /\ \E d \in Desks : Recording(d))
    ~> \/ active = None \/ ~\E d \in Desks : Recording(d)
       \/ stream[active].heard = "header" \/ stream[active].line = "dead"
=============================================================================
