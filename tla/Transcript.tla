----------------------------- MODULE Transcript -----------------------------
(***************************************************************************)
(* One session's transcript_segments: the finals that onTranscript saves   *)
(* and translates, the gap fills a reader queues, the archive job that     *)
(* replaces the lot, and clearCaptions (captions.service.ts and the two    *)
(* processors).                                                            *)
(*                                                                         *)
(* A line is what somebody said, heard live by the take (the recording)    *)
(* that was running.  A row is English or in the one other language; an    *)
(* English row is named by its line and whether it is live or archived, a  *)
(* translation by the row it points back at.  A line is numbered in the     *)
(* order it is said.                                                       *)
(* Each "Slip:" is a plausible wrong version of what follows it.           *)
(***************************************************************************)
EXTENDS Naturals, FiniteSets, Sequences

CONSTANTS MaxLines,  \* a bound
          Takes,     \* recordings of the session
          Workers,   \* of the caption-gapfill queue, all instances together
          Window,    \* rows a gap fill reads of each language: 60
          GapFillMax,
          MaxClears, \* clears, and workers that are lost: a bound
          Regimes,   \* of {"single", "shared"}
          None

Lines == 1..MaxLines
Ids == {"live", "archive"} \X Lines

ASSUME TranscriptBounds ==
  MaxLines \in Nat /\ Window \in Nat \ {0} /\ GapFillMax \in Nat \ {0} /\ MaxClears \in Nat
ASSUME TranscriptSwitches == Regimes \subseteq {"single", "shared"} /\ None \notin Takes

VARIABLES
  said,        \* lines so far
  take,        \* the recording that runs, or None
  heard,       \* the lines each take has on tape
  archiveJob,  \* "none", "queued", "done"
  english,     \* the English rows
  translated,  \* the translations in the order they were saved: their sources
  fills,       \* how many gap fills saved for each row: history
  line,        \* a final on its way through onTranscript
  gapJob,      \* jobs of this session and language in the queue
  worker,
  clears, losses,
  regime       \* "single": one thing at a time; "shared": the code's own

rows == <<english, translated, fills>>
vars == <<said, take, heard, archiveJob, rows, line, gapJob, worker, clears, losses, regime>>

IdleWorker == [pc |-> "idle", read |-> {}, missing |-> {}]

Init ==
  /\ said = 0 /\ take = None
  /\ heard = [t \in Takes |-> {}]
  /\ archiveJob = [t \in Takes |-> "none"]
  /\ english = {}
  /\ translated = <<>> /\ fills = [i \in Ids |-> 0]
  /\ line = [l \in Lines |-> "none"]
  /\ gapJob = 0
  /\ worker = [w \in Workers |-> IdleWorker]
  /\ clears = 0 /\ losses = 0
  /\ regime \in Regimes

BusyLines == {l \in Lines : line[l] # "none"}
BusyWorkers == {w \in Workers : worker[w].pc # "idle"}
Quiet == BusyLines = {} /\ BusyWorkers = {}
MayStart == regime = "single" => Quiet

-----------------------------------------------------------------------------
(* onTranscript and translateAndEmit.                                      *)
Capture(t) ==
  /\ take = None /\ archiveJob[t] = "none" /\ heard[t] = {}
  /\ take' = t
  /\ UNCHANGED <<said, heard, archiveJob, rows, line, gapJob, worker, clears, losses, regime>>

Say ==
  /\ take # None /\ said < MaxLines /\ MayStart
  /\ said' = said + 1
  /\ heard' = [heard EXCEPT ![take] = @ \cup {said + 1}]
  /\ line' = [line EXCEPT ![said + 1] = "saving"]
  /\ UNCHANGED <<take, archiveJob, rows, gapJob, worker, clears, losses, regime>>

(* The English row is kept; nobody waits for its translation.              *)
SaveLine(l) ==
  /\ line[l] = "saving"
  /\ english' = english \cup {<<"live", l>>}
  /\ line' = [line EXCEPT ![l] = "translating"]
  /\ UNCHANGED <<said, take, heard, archiveJob, translated, fills, gapJob, worker, clears, losses, regime>>

(* translate: a text, from Redis or from the translator; nothing where it   *)
(* fails, or where what it says is its verdict on the line.                *)
Answers == {"text", "nothing"}

Translate(l, answer) ==
  /\ line[l] = "translating"
  /\ answer \in Answers
  /\ line' = [line EXCEPT ![l] = IF answer = "text" THEN "keeping" ELSE "none"]
  /\ UNCHANGED <<said, take, heard, archiveJob, rows, gapJob, worker, clears, losses, regime>>

(* A translation whose English row is gone is refused by the database.      *)
Kept(i) == IF i \in english THEN Append(translated, i) ELSE translated

KeepTranslation(l) ==
  /\ line[l] = "keeping"
  /\ translated' = Kept(<<"live", l>>)
  /\ line' = [line EXCEPT ![l] = "none"]
  /\ UNCHANGED <<said, take, heard, archiveJob, english, fills, gapJob, worker, clears, losses, regime>>

-----------------------------------------------------------------------------
(* Slip: a job of its own for every reader.                                *)
ReadAlways ==
  /\ gapJob' = gapJob + 1 /\ gapJob < 2
  /\ UNCHANGED <<said, take, heard, archiveJob, rows, line, worker, clears, losses, regime>>
(* recentCaptions in the other language, queueTranslationGapFill: the id of *)
(* the job is the session and the language, and it stays until it is done.  *)
Read ==
  /\ gapJob = 0
  /\ gapJob' = 1
  /\ UNCHANGED <<said, take, heard, archiveJob, rows, line, worker, clears, losses, regime>>

(* Newest first: rows without an offset, the live ones, before all others,  *)
(* by the time they were saved, then the archived ones by their offset.     *)
Newer(i, j) == \/ i[1] = "live" /\ j[1] = "archive"
               \/ i[1] = j[1] /\ i[2] > j[2]
Newest(ids, n) == {i \in ids : Cardinality({j \in ids : Newer(j, i)}) < n}

SavedAfter(q, p) == IF translated[q][1] = "live" /\ translated[p][1] = "live" THEN q > p
                    ELSE Newer(translated[q], translated[p])
NewestTranslated(n) ==
  {translated[p] : p \in {x \in DOMAIN translated :
                           Cardinality({q \in DOMAIN translated : SavedAfter(q, x)}) < n}}

(* fillTranslationGaps sends both its queries: one of them answers first.    *)
WorkerReads(w, first) ==
  /\ worker[w].pc = "idle" /\ w = CHOOSE v \in Workers : worker[v].pc = "idle"
  /\ gapJob > Cardinality(BusyWorkers) /\ MayStart
  /\ worker' = [worker EXCEPT ![w] = [IdleWorker EXCEPT !.pc = first, !.read =
       IF first = "english" THEN Newest(english, Window) ELSE NewestTranslated(Window)]]
  /\ UNCHANGED <<said, take, heard, archiveJob, rows, line, gapJob, clears, losses, regime>>

(* Slip: every line that is read is taken for missing.                     *)
WorkerComparesAll(w) ==
  LET source == IF worker[w].pc = "english" THEN worker[w].read ELSE Newest(english, Window) IN
  /\ worker[w].pc \in {"english", "translated"}
  /\ worker' = [worker EXCEPT ![w] = [IdleWorker EXCEPT !.pc = "filling", !.missing = Newest(source, GapFillMax)]]
  /\ UNCHANGED <<said, take, heard, archiveJob, rows, line, gapJob, clears, losses, regime>>
(* Slip: the newest lines, then those of them that are missing.            *)
WorkerComparesNewest(w) ==
  LET source == IF worker[w].pc = "english" THEN worker[w].read ELSE Newest(english, Window)
      existing == IF worker[w].pc = "english" THEN NewestTranslated(Window) ELSE worker[w].read IN
  /\ worker[w].pc \in {"english", "translated"}
  /\ worker' = [worker EXCEPT ![w] = [IdleWorker EXCEPT !.pc = "filling",
                                       !.missing = Newest(source, GapFillMax) \ existing]]
  /\ UNCHANGED <<said, take, heard, archiveJob, rows, line, gapJob, clears, losses, regime>>
WorkerCompares(w) ==
  LET source == IF worker[w].pc = "english" THEN worker[w].read ELSE Newest(english, Window)
      existing == IF worker[w].pc = "english" THEN NewestTranslated(Window) ELSE worker[w].read IN
  /\ worker[w].pc \in {"english", "translated"}
  /\ worker' = [worker EXCEPT ![w] = [IdleWorker EXCEPT !.pc = "filling",
                                       !.missing = Newest(source \ existing, GapFillMax)]]
  /\ UNCHANGED <<said, take, heard, archiveJob, rows, line, gapJob, clears, losses, regime>>

(* One of the lines of a batch: translated without its context, and kept.   *)
WorkerFills(w, i, answer) ==
  /\ worker[w].pc = "filling" /\ i \in worker[w].missing
  /\ answer \in Answers
  /\ worker' = [worker EXCEPT ![w].missing = @ \ {i}]
  /\ translated' = IF answer = "text" THEN Kept(i) ELSE translated
  /\ fills' = IF answer = "text" /\ i \in english THEN [fills EXCEPT ![i] = @ + 1] ELSE fills
  /\ UNCHANGED <<said, take, heard, archiveJob, english, line, gapJob, clears, losses, regime>>

(* The job never fails, and leaves the queue.                              *)
WorkerEnds(w) ==
  /\ worker[w].pc = "filling" /\ worker[w].missing = {}
  /\ worker' = [worker EXCEPT ![w] = IdleWorker]
  /\ gapJob' = gapJob - 1
  /\ UNCHANGED <<said, take, heard, archiveJob, rows, line, clears, losses, regime>>

(* A worker that is lost leaves its job to another.                        *)
WorkerDies(w) ==
  /\ worker[w].pc # "idle"
  /\ losses < MaxClears /\ losses' = losses + 1
  /\ worker' = [worker EXCEPT ![w] = IdleWorker]
  /\ UNCHANGED <<said, take, heard, archiveJob, rows, line, gapJob, clears, regime>>

-----------------------------------------------------------------------------
StopCapture ==
  /\ take # None
  /\ archiveJob' = [archiveJob EXCEPT ![take] = IF heard[take] = {} THEN "done" ELSE "queued"]
  /\ take' = None
  /\ UNCHANGED <<said, heard, rows, line, gapJob, worker, clears, losses, regime>>

(* Slip: the archived rows are added to the live ones.                     *)
ArchiveAppends(t) ==
  /\ archiveJob[t] = "queued" /\ MayStart
  /\ archiveJob' = [archiveJob EXCEPT ![t] = "done"]
  /\ english' = english \cup {<<"archive", l>> : l \in heard[t]}
  /\ UNCHANGED <<said, take, heard, translated, fills, line, gapJob, worker, clears, losses, regime>>
(* "Replace rather than append": every row of the session, in every         *)
(* language, gives way to what this one take has on tape.                  *)
Archive(t) ==
  /\ archiveJob[t] = "queued" /\ MayStart
  /\ archiveJob' = [archiveJob EXCEPT ![t] = "done"]
  /\ english' = {<<"archive", l>> : l \in heard[t]}
  /\ translated' = <<>> /\ fills' = [i \in Ids |-> 0]
  /\ UNCHANGED <<said, take, heard, line, gapJob, worker, clears, losses, regime>>

(* The pass fails or hears nothing: the live rows stand.                   *)
ArchiveFails(t) ==
  /\ archiveJob[t] = "queued"
  /\ archiveJob' = [archiveJob EXCEPT ![t] = "done"]
  /\ UNCHANGED <<said, take, heard, rows, line, gapJob, worker, clears, losses, regime>>

ClearCaptions ==
  /\ clears < MaxClears /\ clears' = clears + 1 /\ MayStart
  /\ english' = {}
  /\ translated' = <<>> /\ fills' = [i \in Ids |-> 0]
  /\ UNCHANGED <<said, take, heard, archiveJob, line, gapJob, worker, losses, regime>>

LineStep(l) ==
  \/ SaveLine(l) \/ KeepTranslation(l)
  \/ \E answer \in Answers : Translate(l, answer)
WorkerFill(w) ==
  \E i \in Ids, answer \in Answers : WorkerFills(w, i, answer)
Queries == {"english", "translated"}
WorkerStep(w) == (\E first \in Queries : WorkerReads(w, first)) \/ WorkerCompares(w) \/ WorkerFill(w) \/ WorkerEnds(w)

Next ==
  \/ \E t \in Takes : Capture(t) \/ Archive(t) \/ ArchiveFails(t)
  \/ Say \/ StopCapture \/ Read \/ ClearCaptions
  \/ \E l \in Lines : LineStep(l)
  \/ \E w \in Workers : WorkerStep(w) \/ WorkerDies(w)

Spec == Init /\ [][Next]_vars

(* Delegates go on reading, workers and finals go on, and a line that is    *)
(* tried again and again is translated in the end.                         *)
FairSpec ==
  /\ Spec
  /\ WF_vars(Read)
  /\ \A l \in Lines : WF_vars(LineStep(l))
  /\ \A w \in Workers : WF_vars(WorkerStep(w))
  /\ \A i \in Ids : SF_vars(\E w \in Workers : WorkerFills(w, i, "text"))

-----------------------------------------------------------------------------
(* The type invariant: one job at most for the session and the language.    *)
TypeOK ==
  /\ said \in 0..MaxLines
  /\ take \in Takes \cup {None}
  /\ heard \in [Takes -> SUBSET Lines]
  /\ archiveJob \in [Takes -> {"none", "queued", "done"}]
  /\ english \subseteq Ids
  /\ translated \in Seq(Ids) /\ fills \in [Ids -> Nat]
  /\ line \in [Lines -> {"none", "saving", "translating", "keeping"}]
  /\ gapJob \in {0, 1}
  /\ worker \in [Workers -> [pc : {"idle", "filling"} \cup Queries, read : SUBSET Ids, missing : SUBSET Ids]]
  /\ clears \in 0..MaxClears /\ losses \in 0..MaxClears
  /\ regime \in Regimes

Translations(i) == Cardinality({p \in DOMAIN translated : translated[p] = i})

(* One job per session and language at a time (lines 506-510): whatever     *)
(* readers, workers, losses, clears and archives overlap, one gap fill      *)
(* saves a line, and a line has a second translation only where the live    *)
(* one came late, which takes two things at once: "paid for once no matter  *)
(* how many delegates read it afterwards" (lines 544-545).  It is so where  *)
(* the translations that are read are all there are; beyond Window, one     *)
(* that was saved late pushes another out, and that line is filled again.   *)
GapsAreFilledOnce ==
  \A i \in Ids :
    /\ fills[i] <= 1 /\ Translations(i) <= 2
    /\ Translations(i) = 2 => fills[i] = 1 /\ regime = "shared"

(* "Keeping both would double every sentence in the export" (archive, lines *)
(* 62-66): while things happen one at a time no line has two English rows,  *)
(* and whatever overlaps, no translation is left without the row it points  *)
(* back at, nor fills one that was replaced.                                *)
NoLineTwice ==
  /\ \A p \in DOMAIN translated : translated[p] \in english
  /\ regime = "single" /\ Quiet =>
       \A l \in Lines : ~({<<"live", l>>, <<"archive", l>>} \subseteq english)

(* "A delegate switching to Hausa mid-session saw a short history, with no  *)
(* way to ever recover those lines" (lines 525-541): while delegates read,  *)
(* every English line gets its translation, unless the line goes.           *)
LinesGetTranslated ==
  \A i \in Ids : i \in english ~> Translations(i) > 0 \/ i \notin english
=============================================================================
