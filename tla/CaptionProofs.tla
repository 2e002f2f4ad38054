---------------------------- MODULE CaptionProofs ----------------------------
(***************************************************************************)
(* Proofs about one room's capture: for any number of desks, requests,     *)
(* streams, lost connections and failed openings, however they overlap.     *)
(***************************************************************************)
EXTENDS CaptionRoom, TLAPS

(* A request that opens a stream, or ends a recording, is alone with it.    *)
Owning == {"opening", "ending"}
Owned ==
  /\ \A q, r \in Requests :
       req[q].pc \in Owning /\ req[r].pc \in Owning /\ req[q].stream = req[r].stream => q = r
  /\ \A r \in Requests : req[r].pc = "opening" =>
       /\ stream[req[r].stream].line # "none" /\ ~stream[req[r].stream].held
       /\ file[req[r].stream] = "none"
  /\ \A r \in Requests : req[r].pc = "ending" => file[req[r].stream] = "ending"

(* The room and its recording are one; what waits is waiting for an opening. *)
Kept ==
  /\ recording = active
  /\ active # None => file[active] = "open"
  /\ pending # None => \E r \in Requests : req[r].pc = "opening"

(* A recording that is ending has its request, and one that is queued its   *)
(* job, the only one.                                                       *)
Filed ==
  \A s \in Streams :
    /\ stream[s].line = "none" => file[s] = "none" /\ ~stream[s].held
    /\ file[s] = "ending" => \E r \in Requests : req[r].pc = "ending" /\ req[r].stream = s
    /\ job[s].waiting = IF file[s] = "queued" THEN 1 ELSE 0
    /\ file[s] = "queued" => job[s].session # None

(* An opening that nothing overlapped keeps what waits for it, and finds    *)
(* the room empty; one that a stop or another opening overlapped is         *)
(* contested, and so is whatever it may replace.  A stop closes the room's  *)
(* stream unless that came while the stop was under way.                    *)
Going == {"connecting", "open", "waiting"}
Overlaps ==
  /\ \A q, r \in Requests :
       q # r /\ req[q].pc = "opening" /\ req[r].pc = "opening" => req[r].stream \in contested
  /\ \A r \in Requests : req[r].pc = "opening" =>
       /\ pending = None => req[r].stream \in contested
       /\ active # None => active \in contested
       /\ \A q \in Requests : req[q].pc = "unflagging" => req[r].stream \in contested
  /\ \A r \in Requests :
       req[r].pc = "unflagging" /\ active # None => stream[active].closing \/ active \in contested
  /\ \A s \in Streams :
       /\ stream[s].held /\ stream[s].line \in Going => active = s \/ stream[s].closing \/ s \in contested
       /\ file[s] = "open" => active = s \/ s \in contested

Room == Owned /\ Kept /\ Filed /\ Overlaps
RoomInv == TypeOK /\ Room

LEMMA RoomInit == Init => RoomInv
<1> SUFFICES ASSUME Init PROVE RoomInv
  OBVIOUS
<1> USE DEF Init, InitMemory, NoRequest, AwayDesk, Unopened
<1>1. TypeOK
  BY FaultsAreCounted DEF TypeOK, RequestSlot, Chunks
<1>2. Owned /\ Kept /\ Filed /\ Overlaps
  BY DEF Owned, Owning, Kept, Filed, Overlaps, Going
<1> QED  BY <1>1, <1>2 DEF RoomInv, Room

-----------------------------------------------------------------------------
(* Types, one kind of step at a time, over the records by their names.      *)
StreamRecords == [line : {"none", "connecting", "open", "waiting", "dead", "closed"},
                  closing : BOOLEAN, opened : BOOLEAN, held : BOOLEAN, heard : Chunks]
JobRecords == [waiting : Nat, session : Sessions \cup {None}]
DeskRecords == [capturing : BOOLEAN, sends : Chunks, restart : BOOLEAN]

Typed ==
  /\ pending \in {None, "empty", "header", "rest"}
  /\ active \in Streams \cup {None} /\ recording \in Streams \cup {None}
  /\ lastSession \in Sessions \cup {None}
  /\ stream \in [Streams -> StreamRecords]
  /\ file \in [Streams -> {"none", "open", "ending", "queued", "gone", "left"}]
  /\ job \in [Streams -> JobRecords]
  /\ desk \in [Desks -> DeskRecords]
  /\ req \in [Requests -> RequestSlot]
  /\ faults \in 0..MaxFaults
  /\ contested \subseteq Streams

LEMMA TypedIsTypeOK == (TypeOK <=> Typed) /\ (TypeOK' <=> Typed')
BY DEF TypeOK, Typed, StreamRecords, JobRecords, DeskRecords

LEMMA NewStreamIsUnused ==
  ASSUME Unused # {}
  PROVE  NewStream \in Streams /\ stream[NewStream].line = "none"
BY DEF Unused, NewStream

LEMMA FaultsAreBounded == Typed /\ Faulty => faults + 1 \in 0..MaxFaults
BY FaultsAreCounted DEF Typed, Faulty

(* A record with one field changed is a record of its kind.                 *)
LEMMA StreamFields ==
  ASSUME NEW x \in StreamRecords
  PROVE  /\ \A l \in {"none", "connecting", "open", "waiting", "dead", "closed"} :
              [x EXCEPT !.line = l] \in StreamRecords
         /\ \A l \in {"none", "connecting", "open", "waiting", "dead", "closed"} :
              [x EXCEPT !.closing = TRUE, !.line = l] \in StreamRecords
         /\ \A h \in Chunks : [x EXCEPT !.heard = h] \in StreamRecords
         /\ \A l \in {"closed", "waiting"} : [x EXCEPT !.line = l, !.heard = "nothing"] \in StreamRecords
         /\ [x EXCEPT !.line = "open", !.opened = TRUE] \in StreamRecords
BY DEF StreamRecords, Chunks

LEMMA DeskFields ==
  ASSUME NEW x \in DeskRecords
  PROVE  /\ [x EXCEPT !.capturing = TRUE] \in DeskRecords
         /\ \A c \in Chunks : [x EXCEPT !.sends = c] \in DeskRecords
         /\ \A b \in BOOLEAN : [x EXCEPT !.restart = b] \in DeskRecords
         /\ [x EXCEPT !.restart = FALSE, !.sends = "header"] \in DeskRecords
         /\ [x EXCEPT !.capturing = FALSE, !.sends = "nothing", !.restart = FALSE] \in DeskRecords
BY DEF DeskRecords, Chunks

LEMMA DeskMoves ==
  ASSUME Typed, NEW d \in Desks
  PROVE  Captures(d) \in [Desks -> DeskRecords] /\ Released(d) \in [Desks -> DeskRecords]
<1>1. desk[d] \in DeskRecords
  BY DEF Typed
<1>2. PICK x : x = [desk[d] EXCEPT !.capturing = TRUE]
  OBVIOUS
<1>3. PICK y : y = [desk[d] EXCEPT !.capturing = FALSE, !.sends = "nothing", !.restart = FALSE]
  OBVIOUS
<1>4. x \in DeskRecords /\ y \in DeskRecords
  BY <1>1, <1>2, <1>3, DeskFields
<1>5. Captures(d) = [desk EXCEPT ![d] = x] /\ Released(d) = [desk EXCEPT ![d] = y]
  BY <1>2, <1>3 DEF Captures, Released
<1> QED  BY <1>4, <1>5 DEF Typed

LEMMA RequestTypes ==
  ASSUME Typed, NEW r \in Requests, NEW d \in Desks,
         StartAgain(r, d) \/ Start(r, d) \/ Stop(r, d)
  PROVE  Typed'
<1> USE DEF Typed, service, disk
<1>1. CASE StartAgain(r, d)
  BY <1>1, DeskMoves DEF StartAgain
<1>2. CASE Start(r, d)
  <2>1. NewStream \in Streams
    BY <1>2, NewStreamIsUnused DEF Start
  <2>2. PICK x : x = [NoRequest EXCEPT !.pc = "opening", !.desk = d, !.stream = NewStream]
    OBVIOUS
  <2>3. x \in RequestSlot
    BY <2>1, <2>2, NoneIsNothing DEF NoRequest, RequestSlot
  <2>4. PICK y : y = [stream[NewStream] EXCEPT !.line = "connecting"]
    OBVIOUS
  <2>5. y \in StreamRecords
    BY <2>1, <2>4, StreamFields
  <2>6. req' = [req EXCEPT ![r] = x] /\ stream' = [stream EXCEPT ![NewStream] = y]
    BY <1>2, <2>2, <2>4 DEF Start
  <2> QED  BY <1>2, <2>1, <2>3, <2>5, <2>6 DEF Start
<1>3. CASE Stop(r, d)
  <2>1. PICK x : x = [NoRequest EXCEPT !.pc = "unflagging", !.desk = d]
    OBVIOUS
  <2>2. x \in RequestSlot
    BY <2>1, NoneIsNothing DEF NoRequest, RequestSlot
  <2>3. req' = [req EXCEPT ![r] = x]
    BY <1>3, <2>1 DEF Stop
  <2>4. stream' \in [Streams -> StreamRecords]
    <3>1. CASE active = None
      BY <1>3, <3>1 DEF Stop
    <3>2. CASE active # None
      <4>1. active \in Streams /\ stream[active] \in StreamRecords
        BY <3>2
      <4>2. PICK l : l = IF stream[active].line = "open" THEN "closed" ELSE stream[active].line
        OBVIOUS
      <4>3. l \in {"none", "connecting", "open", "waiting", "dead", "closed"}
        BY <4>1, <4>2 DEF StreamRecords
      <4>4. PICK y : y = [stream[active] EXCEPT !.closing = TRUE, !.line = l]
        OBVIOUS
      <4>5. y \in StreamRecords
        BY <4>1, <4>3, <4>4, StreamFields
      <4>6. stream' = [stream EXCEPT ![active] = y]
        BY <1>3, <3>2, <4>1, <4>2, <4>4 DEF Stop, Close
      <4> QED  BY <4>1, <4>5, <4>6
    <3> QED  BY <3>1, <3>2
  <2>5. contested' \subseteq Streams
    BY <1>3 DEF Stop, OpeningStreams, RequestSlot
  <2> QED  BY <1>3, <2>2, <2>3, <2>4, <2>5 DEF Stop
<1> QED  BY <1>1, <1>2, <1>3

LEMMA RequestStepTypes ==
  ASSUME Typed, NEW r \in Requests,
         RequestStep(r) \/ \E b \in BOOLEAN : OpenFails(r, b) \/ StopEnds(r, b)
  PROVE  Typed'
<1> USE DEF Typed, service, disk
<1>1. req[r] \in RequestSlot /\ NoRequest \in RequestSlot
  BY DEF NoRequest, RequestSlot
<1>2. CASE Opened(r)
  <2>1. req[r].stream \in Streams
    BY <1>1, <1>2 DEF Opened, RequestSlot
  <2>2. PICK x : x = [req[r] EXCEPT !.pc = "flagging"]
    OBVIOUS
  <2>3. x \in RequestSlot
    BY <1>1, <1>2, <2>2 DEF Opened, RequestSlot
  <2>4. req' = [req EXCEPT ![r] = x]
    BY <1>2, <2>2 DEF Opened
  <2>5. PICK y : y = [line |-> "open", closing |-> FALSE, opened |-> TRUE, held |-> TRUE,
                      heard |-> IF pending \in {"header", "rest"} THEN pending ELSE "nothing"]
    OBVIOUS
  <2>6. y \in StreamRecords
    BY <2>5 DEF StreamRecords, Chunks
  <2>7. stream' = [stream EXCEPT ![req[r].stream] = y]
    BY <1>2, <2>5 DEF Opened
  <2> QED  BY <1>2, <2>1, <2>3, <2>4, <2>6, <2>7 DEF Opened
<1>3. CASE Acknowledge(r)
  <2>1. req[r].desk \in Desks
    BY <1>1, <1>3 DEF Acknowledge, RequestSlot
  <2> QED  BY <1>1, <1>3, <2>1, DeskMoves DEF Acknowledge
<1>4. CASE StopUnflag(r)
  <2>1. req[r].desk \in Desks
    BY <1>1, <1>4 DEF StopUnflag, RequestSlot
  <2>2. CASE recording = None
    BY <1>1, <1>4, <2>1, <2>2, DeskMoves DEF StopUnflag
  <2>3. CASE recording # None
    <3>1. PICK x : x = [req[r] EXCEPT !.pc = "ending", !.stream = recording, !.session = lastSession]
      OBVIOUS
    <3>2. x \in RequestSlot
      BY <1>1, <1>4, <2>3, <3>1 DEF StopUnflag, RequestSlot
    <3>3. req' = [req EXCEPT ![r] = x]
      BY <1>4, <2>3, <3>1 DEF StopUnflag
    <3> QED  BY <1>4, <2>3, <3>2, <3>3 DEF StopUnflag
  <2> QED  BY <2>2, <2>3
<1>5. ASSUME NEW b \in BOOLEAN, OpenFails(r, b) PROVE Typed'
  <2>1. req[r].stream \in Streams
    BY <1>1, <1>5 DEF OpenFails, RequestSlot
  <2>2. PICK y : y = [stream[req[r].stream] EXCEPT !.line = IF b THEN "waiting" ELSE "dead"]
    OBVIOUS
  <2>3. y \in StreamRecords
    BY <2>1, <2>2, StreamFields
  <2>4. stream' = [stream EXCEPT ![req[r].stream] = y]
    BY <1>5, <2>2 DEF OpenFails
  <2> QED  BY <1>1, <1>5, <2>1, <2>3, <2>4, FaultsAreBounded DEF OpenFails
<1>6. ASSUME NEW b \in BOOLEAN, StopEnds(r, b) PROVE Typed'
  <2>1. req[r].stream \in Streams /\ req[r].desk \in Desks /\ req[r].session \in Sessions \cup {None}
    BY <1>1, <1>6 DEF StopEnds, RequestSlot
  <2>2. PICK y : y = IF b THEN [waiting |-> job[req[r].stream].waiting + 1, session |-> req[r].session]
                     ELSE job[req[r].stream]
    OBVIOUS
  <2>3. y \in JobRecords
    BY <2>1, <2>2 DEF JobRecords
  <2>4. job' = [job EXCEPT ![req[r].stream] = y]
    BY <1>6, <2>2 DEF StopEnds
  <2> QED  BY <1>1, <1>6, <2>1, <2>3, <2>4, DeskMoves DEF StopEnds
<1> QED  BY <1>2, <1>3, <1>4, <1>5, <1>6 DEF RequestStep

LEMMA ConnectionTypes ==
  ASSUME Typed, NEW s \in Streams,
         \/ Drops(s) \/ HangsUp(s) \/ TimerFires(s) \/ Reopens(s) \/ Archive(s)
         \/ \E b \in BOOLEAN : ReopenFails(s, b)
  PROVE  Typed'
<1> USE DEF Typed, service, disk
<1>1. stream[s] \in StreamRecords
  OBVIOUS
<1>2. ASSUME NEW l \in {"none", "connecting", "open", "waiting", "dead", "closed"},
             stream' = [stream EXCEPT ![s].line = l]
      PROVE  stream' \in [Streams -> StreamRecords]
  <2>1. PICK y : y = [stream[s] EXCEPT !.line = l]
    OBVIOUS
  <2>2. y \in StreamRecords /\ stream' = [stream EXCEPT ![s] = y]
    BY <1>1, <1>2, <2>1, StreamFields
  <2> QED  BY <2>2
<1>0. ASSUME Dropped(s) PROVE stream' \in [Streams -> StreamRecords]
  <2>1. PICK l \in {"closed", "waiting"} : l = IF stream[s].closing THEN "closed" ELSE "waiting"
    OBVIOUS
  <2>2. PICK y : y = [stream[s] EXCEPT !.line = l, !.heard = "nothing"]
    OBVIOUS
  <2>3. y \in StreamRecords /\ stream' = [stream EXCEPT ![s] = y]
    BY <1>0, <1>1, <2>1, <2>2, StreamFields DEF Dropped
  <2> QED  BY <2>3
<1>3. CASE Drops(s)
  BY <1>0, <1>3, FaultsAreBounded DEF Drops
<1>4. CASE HangsUp(s)
  BY <1>0, <1>4 DEF HangsUp
<1>5. CASE TimerFires(s)
  BY <1>2, <1>5 DEF TimerFires
<1>6. ASSUME NEW b \in BOOLEAN, ReopenFails(s, b) PROVE Typed'
  BY <1>2, <1>6, FaultsAreBounded DEF ReopenFails
<1>7. CASE Reopens(s)
  <2>1. PICK y : y = [stream[s] EXCEPT !.line = "open", !.opened = TRUE]
    OBVIOUS
  <2>2. y \in StreamRecords /\ stream' = [stream EXCEPT ![s] = y]
    BY <1>1, <1>7, <2>1, StreamFields DEF Reopens
  <2>3. desk' \in [Desks -> DeskRecords]
    BY <1>7, DeskFields DEF Reopens
  <2>4. UNCHANGED <<service, disk, req, faults, contested>>
    BY <1>7 DEF Reopens
  <2>5. stream' \in [Streams -> StreamRecords]
    BY <2>2
  <2> HIDE <1>1
  <2> QED  BY <2>3, <2>4, <2>5
<1>8. CASE Archive(s)
  <2>1. PICK y : y = [job[s] EXCEPT !.waiting = job[s].waiting - 1]
    OBVIOUS
  <2>2. job[s] \in JobRecords /\ job[s].waiting > 0
    BY <1>8 DEF Archive
  <2>3. y \in JobRecords /\ job' = [job EXCEPT ![s] = y]
    BY <1>8, <2>1, <2>2 DEF Archive, JobRecords
  <2> QED  BY <1>8, <2>3 DEF Archive
<1> QED  BY <1>3, <1>4, <1>5, <1>6, <1>7, <1>8

LEMMA OtherTypes ==
  ASSUME Typed,
         \/ \E d \in Desks : Records(d) \/ HearsRestart(d) \/ SendAudio(d)
         \/ \E s \in Streams, session \in Sessions : FinalSaves(s, session)
         \/ Restart
  PROVE  Typed'
<1> USE DEF Typed, service, disk
<1>1. ASSUME NEW d \in Desks, Records(d) \/ HearsRestart(d) PROVE Typed'
  <2>1. PICK y : y = IF Records(d) THEN [desk[d] EXCEPT !.sends = "header"]
                     ELSE [desk[d] EXCEPT !.restart = FALSE, !.sends = "header"]
    OBVIOUS
  <2>2. y \in DeskRecords
    BY <2>1, DeskFields DEF Chunks
  <2>3. desk' = [desk EXCEPT ![d] = y]
    BY <1>1, <2>1 DEF Records, HearsRestart
  <2> QED  BY <1>1, <2>2, <2>3 DEF Records, HearsRestart
<1>2. ASSUME NEW d \in Desks, SendAudio(d) PROVE Typed'
  <2>1. desk[d].sends \in Chunks /\ desk[d].sends # "nothing"
    BY <1>2 DEF SendAudio, DeskRecords
  <2>2. pending' \in {None, "empty", "header", "rest"}
    BY <1>2, <2>1 DEF SendAudio, Chunks
  <2>3. desk' \in [Desks -> DeskRecords]
    <3>1. PICK y : y = [desk[d] EXCEPT !.sends = "rest"]
      OBVIOUS
    <3>2. y \in DeskRecords /\ desk' = [desk EXCEPT ![d] = y]
      BY <1>2, <3>1, DeskFields DEF SendAudio, Chunks
    <3> QED  BY <3>2
  <2>4. stream' \in [Streams -> StreamRecords]
    <3>1. CASE active # None /\ stream' = [stream EXCEPT ![active].heard = desk[d].sends]
      <4>1. PICK y : y = [stream[active] EXCEPT !.heard = desk[d].sends]
        OBVIOUS
      <4>2. y \in StreamRecords /\ stream' = [stream EXCEPT ![active] = y]
        BY <2>1, <3>1, <4>1, StreamFields
      <4> QED  BY <4>2
    <3> QED  BY <1>2, <3>1 DEF SendAudio
  <2> QED  BY <1>2, <2>2, <2>3, <2>4 DEF SendAudio
<1>3. ASSUME NEW s \in Streams, NEW session \in Sessions, FinalSaves(s, session) PROVE Typed'
  BY <1>3 DEF FinalSaves
<1>4. CASE Restart
  <2>1. NoRequest \in RequestSlot /\ AwayDesk \in DeskRecords
    BY DEF NoRequest, RequestSlot, AwayDesk, DeskRecords, Chunks
  <2>2. stream' \in [Streams -> StreamRecords]
    <3>1. Unopened \in StreamRecords
      BY DEF Unopened, StreamRecords, Chunks
    <3>2. [Unopened EXCEPT !.line = "dead", !.closing = TRUE] \in StreamRecords
      BY DEF Unopened, StreamRecords, Chunks
    <3> QED  BY <1>4, <3>1, <3>2 DEF Restart
  <2> QED  BY <1>4, <2>1, <2>2 DEF Restart
<1> QED  BY <1>1, <1>2, <1>3, <1>4

-----------------------------------------------------------------------------
(* What the requests in flight refer to.                                    *)
LEMMA RequestsKnow ==
  ASSUME Typed
  PROVE  /\ \A r \in Requests : req[r].pc \in {"opening", "flagging", "ending"} => req[r].stream \in Streams
         /\ NoRequest.pc = "idle"
BY DEF Typed, RequestSlot, NoRequest

LEMMA FreeIsIdle == ASSUME NEW r \in Requests, Free(r) PROVE req[r].pc = "idle"
BY DEF Free

(* A step that moves connections, desks or rows, and no request, leaves     *)
(* the room as it is.                                                       *)
LEMMA SameRoom ==
  ASSUME Typed, Room, UNCHANGED <<req, file, job, active, recording, contested>>,
         pending' # None <=> pending # None,
         \A s \in Streams : /\ stream'[s].line = "none" <=> stream[s].line = "none"
                            /\ stream'[s].held <=> stream[s].held
                            /\ stream[s].closing => stream'[s].closing
                            /\ stream'[s].line \in Going => stream[s].line \in Going
  PROVE  Room'
<1>1. Owned'
  BY RequestsKnow DEF Room, Owned
<1>2. Kept'
  BY DEF Room, Kept
<1>3. Filed'
  BY DEF Room, Filed
<1>4. Overlaps'
  BY RequestsKnow DEF Room, Overlaps, Typed
<1> QED  BY <1>1, <1>2, <1>3, <1>4 DEF Room

LEMMA ConnectionRoom ==
  ASSUME Typed, Room, NEW s \in Streams,
         \/ Drops(s) \/ HangsUp(s) \/ TimerFires(s) \/ Reopens(s)
         \/ \E b \in BOOLEAN : ReopenFails(s, b)
  PROVE  Room'
<1>1. /\ UNCHANGED <<req, file, job, active, recording, contested, pending>>
      /\ stream[s].line # "none"
  BY DEF Drops, HangsUp, TimerFires, Reopens, ReopenFails, service, disk
<1>2. /\ \A t \in Streams \ {s} : stream'[t] = stream[t]
      /\ stream'[s].line # "none" /\ stream'[s].held = stream[s].held /\ stream'[s].closing = stream[s].closing
      /\ stream'[s].line \in Going => stream[s].line \in Going
  BY DEF Drops, HangsUp, TimerFires, Reopens, ReopenFails, Dropped, Typed, StreamRecords, Going
<1> QED  BY <1>1, <1>2, SameRoom

LEMMA QuietRoom ==
  ASSUME Typed, Room,
         \/ \E d \in Desks : \/ Records(d) \/ HearsRestart(d) \/ SendAudio(d)
                             \/ \E r \in Requests : StartAgain(r, d)
         \/ \E s \in Streams, session \in Sessions : FinalSaves(s, session)
  PROVE  Room'
<1> USE DEF service, disk
<1>1. ASSUME UNCHANGED <<req, file, job, active, recording, contested, pending, stream>> PROVE Room'
  BY <1>1, SameRoom
<1>2. ASSUME NEW d \in Desks, SendAudio(d) PROVE Room'
  <2>1. UNCHANGED <<req, file, job, active, recording, contested>> /\ (pending' # None <=> pending # None)
    <3>1. desk[d].sends \in {"header", "rest"}
      BY <1>2 DEF SendAudio, Typed, DeskRecords, Chunks
    <3> QED  BY <1>2, <3>1, NoneIsNothing DEF SendAudio
  <2>2. \/ stream' = stream
        \/ active # None /\ stream' = [stream EXCEPT ![active].heard = desk[d].sends]
    BY <1>2 DEF SendAudio
  <2>3. ASSUME NEW s \in Streams
        PROVE  /\ stream'[s].line = stream[s].line /\ stream'[s].held = stream[s].held
               /\ stream'[s].closing = stream[s].closing
    <3>1. stream[s] \in StreamRecords
      BY DEF Typed
    <3>2. \/ stream'[s] = stream[s]
          \/ stream'[s] = [stream[s] EXCEPT !.heard = desk[d].sends]
      BY <2>2 DEF Typed
    <3> QED  BY <3>1, <3>2 DEF StreamRecords
  <2> QED  BY <2>1, <2>3, SameRoom
<1>3. ASSUME NEW d \in Desks, Records(d) \/ HearsRestart(d) \/ \E r \in Requests : StartAgain(r, d) PROVE Room'
  BY <1>1, <1>3 DEF Records, HearsRestart, StartAgain
<1>4. ASSUME NEW s \in Streams, NEW session \in Sessions, FinalSaves(s, session) PROVE Room'
  BY <1>1, <1>4 DEF FinalSaves
<1> QED  BY <1>2, <1>3, <1>4

-----------------------------------------------------------------------------
(* The requests, one by one.                                                *)
LEMMA StartRoom ==
  ASSUME Typed, Room, NEW r \in Requests, NEW d \in Desks, Start(r, d)
  PROVE  Room'
<1>1. PICK s \in Streams : s = NewStream /\ stream[s].line = "none"
  BY NewStreamIsUnused DEF Start
<1>2. /\ req[r].pc = "idle" /\ active = None /\ pending = None /\ pending' = "empty"
      /\ UNCHANGED <<active, recording, file, job>>
  BY FreeIsIdle DEF Start, disk
<1>3. /\ req'[r].pc = "opening" /\ req'[r].stream = s
      /\ \A q \in Requests \ {r} : req'[q] = req[q]
  BY <1>1 DEF Start, Typed, NoRequest
<1>4. /\ stream'[s].line = "connecting" /\ stream'[s].held = stream[s].held /\ stream'[s].closing = stream[s].closing
      /\ \A t \in Streams \ {s} : stream'[t] = stream[t]
  BY <1>1 DEF Start, Typed, StreamRecords
<1>5. /\ file[s] = "none" /\ ~stream[s].held
      /\ \A q \in Requests : req[q].pc \in Owning => req[q].stream # s
  BY <1>1 DEF Room, Owned, Filed, Owning
<1>6. Owned'
  BY <1>2, <1>3, <1>4, <1>5, RequestsKnow DEF Room, Owned, Owning
<1>7. Kept'
  BY <1>2, <1>3 DEF Room, Kept
<1>8. Filed'
  BY <1>2, <1>3, <1>4, <1>5 DEF Room, Filed
<1>9. /\ \A t \in Streams : t \in contested => t \in contested'
      /\ \A q \in Requests : req[q].pc \in {"opening", "unflagging"} => s \in contested'
  BY <1>1 DEF Start
<1>10. \A q \in Requests : req[q].pc = "opening" => req[q].stream \in contested'
  BY <1>2, <1>9, RequestsKnow DEF Room, Overlaps
<1>11. Overlaps'
  <2>1. \A q, p \in Requests :
          q # p /\ req'[q].pc = "opening" /\ req'[p].pc = "opening" => req'[p].stream \in contested'
    BY <1>3, <1>9, <1>10
  <2>2. \A q \in Requests : req'[q].pc = "opening" =>
          /\ pending' # None /\ active' = None
          /\ \A p \in Requests : req'[p].pc = "unflagging" => req'[q].stream \in contested'
    BY <1>2, <1>3, <1>9, <1>10, NoneIsNothing
  <2>3. \A t \in Streams :
          /\ stream'[t].held /\ stream'[t].line \in Going => active' = t \/ stream'[t].closing \/ t \in contested'
          /\ file'[t] = "open" => active' = t \/ t \in contested'
    BY <1>2, <1>4, <1>5, <1>9 DEF Room, Overlaps
  <2> QED  BY <1>2, <2>1, <2>2, <2>3 DEF Overlaps
<1> QED  BY <1>6, <1>7, <1>8, <1>11 DEF Room

LEMMA OpenedRoom ==
  ASSUME Typed, Room, NEW r \in Requests, Opened(r)
  PROVE  Room'
<1>1. PICK s \in Streams : s = req[r].stream
  BY RequestsKnow DEF Opened
<1>2. /\ req[r].pc = "opening" /\ active' = s /\ recording' = s /\ pending' = None
      /\ file' = [file EXCEPT ![s] = "open"] /\ job' = job /\ contested' = contested
      /\ stream'[s].line = "open" /\ ~stream'[s].closing
      /\ \A t \in Streams \ {s} : stream'[t] = stream[t]
  BY <1>1 DEF Opened, Typed
<1>3. req'[r].pc = "flagging" /\ \A q \in Requests \ {r} : req'[q] = req[q]
  BY <1>2 DEF Opened, Typed, RequestSlot
<1>4. file[s] = "none" /\ \A q \in Requests \ {r} : req[q].pc \in Owning => req[q].stream # s
  BY <1>1, <1>2 DEF Room, Owned, Owning
<1>5. Owned'
  BY <1>2, <1>3, <1>4, RequestsKnow DEF Room, Owned, Owning, Typed
<1>6. Kept'
  BY <1>2 DEF Room, Kept, Typed
<1>7. Filed'
  BY <1>2, <1>3, <1>4 DEF Room, Filed, Typed
<1>8. Overlaps'
  <2>1. \A q, p \in Requests :
          q # p /\ req'[q].pc = "opening" /\ req'[p].pc = "opening" => req'[p].stream \in contested
    BY <1>3 DEF Room, Overlaps
  <2>2. \A q \in Requests : req'[q].pc = "opening" =>
          req'[q].stream \in contested /\ s \in contested
    BY <1>1, <1>2, <1>3 DEF Room, Overlaps
  <2>3. \A q \in Requests : req'[q].pc = "unflagging" => s \in contested
    BY <1>1, <1>2, <1>3 DEF Room, Overlaps
  <2>4. \A t \in Streams \ {s} : active = t => t \in contested
    BY <1>2, NoneIsNothing DEF Room, Overlaps
  <2>5. \A t \in Streams :
          /\ stream'[t].held /\ stream'[t].line \in Going => active' = t \/ stream'[t].closing \/ t \in contested
          /\ file'[t] = "open" => active' = t \/ t \in contested
    BY <1>2, <2>4 DEF Room, Overlaps, Typed
  <2> QED  BY <1>2, <2>1, <2>2, <2>3, <2>5 DEF Overlaps
<1> QED  BY <1>2, <1>5, <1>6, <1>7, <1>8 DEF Room

LEMMA OpenFailsRoom ==
  ASSUME Typed, Room, NEW r \in Requests, NEW b \in BOOLEAN, OpenFails(r, b)
  PROVE  Room'
<1>1. PICK s \in Streams : s = req[r].stream
  BY RequestsKnow DEF OpenFails
<1>2. /\ req[r].pc = "opening" /\ pending' = None
      /\ UNCHANGED <<active, recording, file, job, contested>>
  BY DEF OpenFails, disk
<1>3. req'[r].pc = "idle" /\ \A q \in Requests \ {r} : req'[q] = req[q]
  BY <1>2 DEF OpenFails, Typed, NoRequest
<1>4. /\ stream'[s].line # "none" /\ stream'[s].held = stream[s].held /\ stream'[s].closing = stream[s].closing
      /\ \A t \in Streams \ {s} : stream'[t] = stream[t]
  BY <1>1 DEF OpenFails, Typed, StreamRecords
<1>5. Owned'
  BY <1>2, <1>3, <1>4, RequestsKnow DEF Room, Owned, Owning
<1>6. Kept'
  BY <1>2 DEF Room, Kept
<1>7. Filed'
  BY <1>2, <1>3, <1>4 DEF Room, Filed
<1>8. Overlaps'
  <2>1. \A q \in Requests : req'[q].pc = "opening" => req'[q].stream \in contested
    BY <1>2, <1>3 DEF Room, Overlaps
  <2>2. ~stream'[s].held
    BY <1>1, <1>2, <1>4 DEF Room, Owned
  <2> QED  BY <1>2, <1>3, <1>4, <2>1, <2>2, NoneIsNothing DEF Room, Overlaps, Typed
<1> QED  BY <1>2, <1>5, <1>6, <1>7, <1>8 DEF Room

LEMMA AcknowledgeRoom ==
  ASSUME Typed, Room, NEW r \in Requests, Acknowledge(r)
  PROVE  Room'
<1>1. req[r].pc = "flagging" /\ UNCHANGED <<active, recording, pending, stream, file, job, contested>>
  BY DEF Acknowledge, service, disk
<1>2. req'[r].pc = "idle" /\ \A q \in Requests \ {r} : req'[q] = req[q]
  BY DEF Acknowledge, Typed, NoRequest
<1>3. Owned' /\ Filed'
  BY <1>1, <1>2, RequestsKnow DEF Room, Owned, Owning, Filed
<1>4. Kept'
  BY <1>1, <1>2 DEF Room, Kept
<1>5. Overlaps'
  BY <1>1, <1>2 DEF Room, Overlaps
<1> QED  BY <1>1, <1>3, <1>4, <1>5 DEF Room

LEMMA StopRoom ==
  ASSUME Typed, Room, NEW r \in Requests, NEW d \in Desks, Stop(r, d)
  PROVE  Room'
<1>1. /\ req[r].pc = "idle" /\ pending' = None /\ UNCHANGED <<active, recording, file, job>>
      /\ contested' = contested \cup OpeningStreams
  BY FreeIsIdle DEF Stop, disk
<1>2. req'[r].pc = "unflagging" /\ \A q \in Requests \ {r} : req'[q] = req[q]
  BY DEF Stop, Typed, NoRequest
<1>3. ASSUME NEW s \in Streams
      PROVE  /\ stream'[s].line = "none" <=> stream[s].line = "none"
             /\ stream'[s].held = stream[s].held
             /\ stream[s].closing => stream'[s].closing
             /\ active = s => stream'[s].closing
             /\ stream'[s].line \in Going => stream[s].line \in Going
  <2>1. stream[s] \in StreamRecords
    BY DEF Typed
  <2>2. CASE active = s
    <3>1. stream'[s] = [stream[s] EXCEPT !.closing = TRUE,
                          !.line = IF stream[s].line = "open" THEN "closed" ELSE stream[s].line]
      BY <2>2, NoneIsNothing DEF Stop, Close, Typed
    <3> QED  BY <2>1, <3>1 DEF StreamRecords, Going
  <2>3. CASE active # s
    BY <2>3 DEF Stop, Close, Typed
  <2> QED  BY <2>2, <2>3
<1>4. Owned' /\ Filed'
  BY <1>1, <1>2, <1>3, RequestsKnow DEF Room, Owned, Owning, Filed
<1>5. Kept'
  BY <1>1 DEF Room, Kept
<1>6. Overlaps'
  <2>1. \A q \in Requests : req'[q].pc = "opening" => req'[q].stream \in contested'
    BY <1>1, <1>2 DEF OpeningStreams
  <2>2. active # None => stream'[active].closing
    BY <1>3 DEF Typed
  <2> QED  BY <1>1, <1>2, <1>3, <2>1, <2>2 DEF Room, Overlaps
<1> QED  BY <1>1, <1>4, <1>5, <1>6 DEF Room

LEMMA StopUnflagRoom ==
  ASSUME Typed, Room, NEW r \in Requests, StopUnflag(r)
  PROVE  Room'
<1>1. /\ req[r].pc = "unflagging" /\ active' = None /\ recording' = None
      /\ UNCHANGED <<pending, stream, job, contested>> /\ recording = active
  BY DEF StopUnflag, Room, Kept
<1>2. \A q \in Requests \ {r} : req'[q] = req[q]
  BY DEF StopUnflag, Typed
<1>3. CASE active = None
  <2>1. req'[r].pc = "idle" /\ file' = file
    BY <1>1, <1>3 DEF StopUnflag, Typed, NoRequest
  <2>2. Owned' /\ Filed'
    BY <1>1, <1>2, <2>1, RequestsKnow DEF Room, Owned, Owning, Filed
  <2>3. Kept'
    BY <1>1, <1>2 DEF Room, Kept
  <2>4. Overlaps'
    BY <1>1, <1>2, <1>3, <2>1 DEF Room, Overlaps
  <2> QED  BY <1>1, <2>2, <2>3, <2>4 DEF Room
<1>4. CASE active # None
  <2>1. PICK s \in Streams : s = active
    BY <1>4 DEF Typed
  <2>2. file[s] = "open" /\ file' = [file EXCEPT ![s] = "ending"]
    BY <1>1, <1>4, <2>1 DEF StopUnflag, Room, Kept
  <2>3. req'[r].pc = "ending" /\ req'[r].stream = s
    <3>1. req'[r] = [req[r] EXCEPT !.pc = "ending", !.stream = recording, !.session = lastSession]
      BY <1>1, <1>4 DEF StopUnflag, Typed
    <3> QED  BY <1>1, <2>1, <3>1 DEF Typed, RequestSlot
  <2>4. \A q \in Requests : req[q].pc \in Owning => req[q].stream # s
    BY <2>2 DEF Room, Owned, Owning
  <2>5. Owned'
    BY <1>1, <1>2, <2>2, <2>3, <2>4, RequestsKnow DEF Room, Owned, Owning, Typed
  <2>6. Filed'
    BY <1>1, <1>2, <2>2, <2>3, <2>4 DEF Room, Filed, Typed
  <2>7. Kept'
    BY <1>1, <1>2 DEF Room, Kept
  <2>8. Overlaps'
    <3>1. \A t \in Streams :
            /\ stream[t].held /\ stream[t].line \in Going => stream[t].closing \/ t \in contested
            /\ file'[t] = "open" => t \in contested
      <4>1. stream[s].closing \/ s \in contested
        BY <1>1, <1>4, <2>1 DEF Room, Overlaps
      <4>2. file'[s] = "ending" /\ \A t \in Streams \ {s} : file'[t] = file[t]
        BY <2>2 DEF Typed
      <4> QED  BY <2>1, <4>1, <4>2 DEF Room, Overlaps
    <3> QED  BY <1>1, <1>2, <2>3, <3>1 DEF Room, Overlaps
  <2> QED  BY <1>1, <2>5, <2>6, <2>7, <2>8 DEF Room
<1> QED  BY <1>3, <1>4

LEMMA StopEndsRoom ==
  ASSUME Typed, Room, NEW r \in Requests, NEW b \in BOOLEAN, StopEnds(r, b)
  PROVE  Room'
<1>1. PICK s \in Streams : s = req[r].stream
  BY RequestsKnow DEF StopEnds
<1>2. /\ req[r].pc = "ending" /\ file[s] = "ending"
      /\ file' = [file EXCEPT ![s] = IF b THEN "queued" ELSE "gone"]
      /\ UNCHANGED <<pending, active, recording, stream, contested>>
  BY <1>1 DEF StopEnds, service, Room, Owned
<1>3. req'[r].pc = "idle" /\ \A q \in Requests \ {r} : req'[q] = req[q]
  BY DEF StopEnds, Typed, NoRequest
<1>4. /\ \A t \in Streams \ {s} : job'[t] = job[t]
      /\ b => job'[s].waiting = 1 /\ job'[s].session # None
      /\ ~b => job'[s].waiting = 0
  <2>1. job[s].waiting = 0
    BY <1>2 DEF Room, Filed
  <2>2. CASE b
    <3>1. job' = [job EXCEPT ![s] = [waiting |-> job[s].waiting + 1, session |-> req[r].session]]
      BY <1>1, <2>2 DEF StopEnds
    <3>2. job'[s].waiting = 1
      BY <2>1, <3>1 DEF Typed
    <3>3. job'[s].session # None
      BY <2>2, <3>1 DEF StopEnds, Typed
    <3> QED  BY <2>2, <3>1, <3>2, <3>3 DEF Typed
  <2>3. CASE ~b
    <3>1. job' = [job EXCEPT ![s] = @]
      BY <1>1, <2>3 DEF StopEnds
    <3> QED  BY <2>1, <2>3, <3>1 DEF Typed
  <2> QED  BY <2>2, <2>3
<1>5. \A q \in Requests \ {r} : req[q].pc \in Owning => req[q].stream # s
  BY <1>1, <1>2 DEF Room, Owned, Owning
<1>6. Owned'
  BY <1>2, <1>3, <1>5, RequestsKnow DEF Room, Owned, Owning, Typed
<1>7. Filed'
  <2>1. ASSUME NEW t \in Streams \ {s}, file[t] = "ending"
        PROVE  \E q \in Requests : req'[q].pc = "ending" /\ req'[q].stream = t
    BY <1>1, <1>3, <2>1 DEF Room, Filed
  <2>2. \A t \in Streams \ {s} : file'[t] = file[t]
    BY <1>2 DEF Typed
  <2>3. file'[s] = IF b THEN "queued" ELSE "gone"
    BY <1>2 DEF Typed
  <2>4. stream[s].line # "none"
    BY <1>2 DEF Room, Filed
  <2> QED  BY <1>2, <1>4, <2>1, <2>2, <2>3, <2>4 DEF Room, Filed
<1>8. Kept'
  BY <1>2, <1>3 DEF Room, Kept, Typed
<1>9. Overlaps'
  BY <1>2, <1>3 DEF Room, Overlaps, Typed
<1> QED  BY <1>2, <1>6, <1>7, <1>8, <1>9 DEF Room

LEMMA ArchiveRoom ==
  ASSUME Typed, Room, NEW s \in Streams, Archive(s)
  PROVE  Room'
<1>1. file[s] = "queued" /\ job[s].waiting = 1
  BY DEF Archive, Room, Filed
<1>2. /\ file' = [file EXCEPT ![s] = "gone"]
      /\ UNCHANGED <<pending, active, recording, stream, req, contested>>
  BY DEF Archive, service
<1>3. job'[s].waiting = 0 /\ \A t \in Streams \ {s} : job'[t] = job[t]
  BY <1>1 DEF Archive, Typed, JobRecords
<1>4. Owned' /\ Kept'
  BY <1>1, <1>2, RequestsKnow DEF Room, Owned, Kept, Typed
<1>5. Filed'
  BY <1>1, <1>2, <1>3 DEF Room, Filed, Typed
<1>6. Overlaps'
  BY <1>2 DEF Room, Overlaps, Typed
<1> QED  BY <1>2, <1>4, <1>5, <1>6 DEF Room

LEMMA RestartRoom ==
  ASSUME Typed, Room, Restart
  PROVE  Room'
<1>1. /\ pending' = None /\ active' = None /\ recording' = None /\ job' = job
      /\ \A r \in Requests : req'[r].pc = "idle"
      /\ \A s \in Streams : file'[s] = IF file[s] \in {"open", "ending"} THEN "left" ELSE file[s]
  BY DEF Restart, NoRequest
<1>2. \A s \in Streams : \/ stream'[s] = Unopened /\ stream[s] = Unopened
                         \/ stream'[s].line = "dead"
  <2>1. \A s \in Streams : stream[s] \in StreamRecords
    BY DEF Typed
  <2> QED  BY <2>1 DEF Restart, StreamRecords
<1>3. Owned' /\ Kept'
  BY <1>1 DEF Owned, Kept, Owning
<1>4. Filed'
  BY <1>1, <1>2 DEF Room, Filed, Unopened
<1>5. Overlaps'
  BY <1>1, <1>2 DEF Overlaps, Unopened, Going
<1> QED  BY <1>3, <1>4, <1>5 DEF Room

LEMMA RoomStep == RoomInv /\ [Next]_vars => RoomInv'
<1> SUFFICES ASSUME Typed, Room, [Next]_vars PROVE Typed' /\ Room'
  BY TypedIsTypeOK DEF RoomInv
<1>1. ASSUME NEW r \in Requests, NEW d \in Desks, StartAgain(r, d) \/ Start(r, d) \/ Stop(r, d)
      PROVE  Typed' /\ Room'
  BY <1>1, RequestTypes, QuietRoom, StartRoom, StopRoom
<1>2. ASSUME NEW r \in Requests, RequestStep(r) \/ \E b \in BOOLEAN : OpenFails(r, b) \/ StopEnds(r, b)
      PROVE  Typed' /\ Room'
  BY <1>2, RequestStepTypes, OpenedRoom, AcknowledgeRoom, StopUnflagRoom, OpenFailsRoom, StopEndsRoom
     DEF RequestStep
<1>3. ASSUME NEW s \in Streams,
             \/ Drops(s) \/ HangsUp(s) \/ TimerFires(s) \/ Reopens(s) \/ Archive(s)
             \/ \E b \in BOOLEAN : ReopenFails(s, b)
      PROVE  Typed' /\ Room'
  BY <1>3, ConnectionTypes, ConnectionRoom, ArchiveRoom
<1>4. ASSUME \/ \E d \in Desks : Records(d) \/ HearsRestart(d) \/ SendAudio(d)
             \/ \E s \in Streams, session \in Sessions : FinalSaves(s, session)
          PROVE  Typed' /\ Room'
  BY <1>4, OtherTypes, QuietRoom
<1>5. CASE Restart
  BY <1>5, OtherTypes, RestartRoom
<1>6. CASE UNCHANGED vars
  <2>1. Typed'
    BY <1>6 DEF vars, service, disk, Typed
  <2> QED  BY <1>6, <2>1, SameRoom DEF vars, service, disk
<1> QED  BY <1>1, <1>2, <1>3, <1>4, <1>5, <1>6 DEF Next

LEMMA RoomHolds == Spec => []RoomInv
BY RoomInit, RoomStep, PTL DEF Spec

-----------------------------------------------------------------------------
(* Every request in flight knows its desk and its stream.                   *)
THEOREM CaptionRoomTypeCorrect == Spec => []TypeOK
<1>1. RoomInv => TypeOK
  BY DEF RoomInv
<1> QED  BY <1>1, RoomHolds, PTL

(* However requests, losses and audio overlap: at rest a room whose start    *)
(* failed, or ended, can be started again, a stream or a recording that was *)
(* opened is the room's, is being closed, or has its job, but for those     *)
(* whose opening a stop or another opening overlapped (startRoom, stopRoom). *)
THEOREM RoomsAreRestartable == Spec => []NothingIsForgotten
<1>1. RoomInv => NothingIsForgotten
  <2> SUFFICES ASSUME Typed, Room, AtRest PROVE NothingIsForgotten
    BY TypedIsTypeOK DEF RoomInv, NothingIsForgotten
  <2>1. pending = None
    BY DEF Room, Kept, AtRest
  <2>2. ASSUME NEW s \in Streams
        PROVE  file[s] # "ending" /\ (file[s] = "queued" => job[s].waiting = 1)
    BY DEF Room, Filed, AtRest
  <2>3. ASSUME NEW s \in Streams
        PROVE  /\ stream[s].held /\ stream[s].line \in {"connecting", "open", "waiting"} =>
                    active = s \/ stream[s].closing \/ s \in contested
               /\ file[s] = "open" => (recording = s /\ active = s) \/ s \in contested
    BY DEF Room, Kept, Overlaps, Going
  <2> QED  BY <2>1, <2>2, <2>3 DEF NothingIsForgotten
<1> QED  BY <1>1, RoomHolds, PTL

(* A recording has one job at most, and the job finds its file: stopRoom    *)
(* takes the recording before it waits, however starts and stops overlap.   *)
THEOREM ArchiveFindsItsFile == Spec => []JobsHaveTheirFile
<1>1. RoomInv => JobsHaveTheirFile
  BY DEF RoomInv, Room, Filed, JobsHaveTheirFile
<1> QED  BY <1>1, RoomHolds, PTL
=============================================================================
