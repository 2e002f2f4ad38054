-------------------------- MODULE TranscriptProofs --------------------------
(***************************************************************************)
(* Proofs about one session's rows: for any number of lines, recordings,   *)
(* workers, readers, losses and clears, and in both regimes.  That a gap    *)
(* fill translates no line again is so while the translations fit in what  *)
(* it reads of them (RowsFit), and not beyond.                             *)
(***************************************************************************)
EXTENDS Transcript, FiniteSetTheorems, TLAPS

(* Every translation there is can be read.                                 *)
RowsFit == Len(translated) <= Window

(* The queue holds the job of the one worker that is busy with it.         *)
Alone ==
  /\ \A v, w \in Workers : worker[v].pc # "idle" /\ worker[w].pc # "idle" => v = w
  /\ \A w \in Workers : worker[w].pc # "idle" => gapJob = 1

(* Nothing is kept of a line before it is said, nor without its English.   *)
Rooted ==
  /\ \A p \in DOMAIN translated : translated[p] \in english
  /\ \A l \in Lines :
       line[l] # "none" \/ <<"live", l>> \in english \/ <<"archive", l>> \in english => l <= said
  /\ \A t \in Takes : \A l \in heard[t] : l <= said
  /\ \A l \in Lines : line[l] = "saving" => <<"live", l>> \notin english

(* Who translated what: beside the gap fills, a live line's own final, once. *)
LineCounted(l) ==
  /\ Translations(<<"archive", l>>) = fills[<<"archive", l>>]
  /\ fills[<<"live", l>>] <= Translations(<<"live", l>>)
  /\ Translations(<<"live", l>>) <= fills[<<"live", l>>] + 1
  /\ line[l] # "none" => Translations(<<"live", l>>) = fills[<<"live", l>>]
Counted == \A l \in Lines : LineCounted(l)

(* One thing at a time: a line is live or archived, and no gap fill runs   *)
(* while it is under way.                                                  *)
OneAtATime ==
  regime = "single" => \A l \in Lines :
    /\ <<"archive", l>> \in english => <<"live", l>> \notin english /\ line[l] # "saving"
    /\ line[l] # "none" => Translations(<<"live", l>>) = 0 /\ \A w \in Workers : worker[w].pc = "idle"

Session == Alone /\ Rooted /\ Counted /\ OneAtATime
SessionInv == TypeOK /\ Session

(* The job that saw what was translated has seen all that was filled, and  *)
(* fills nothing that was.                                                 *)
Filled ==
  /\ \A i \in Ids : fills[i] <= 1
  /\ \A w \in Workers : \A i \in Ids :
       /\ worker[w].pc = "translated" /\ i \notin worker[w].read => fills[i] = 0
       /\ worker[w].pc = "filling" /\ i \in worker[w].missing => fills[i] = 0

(* And one thing at a time: all that is translated.                        *)
FilledAlone ==
  regime = "single" =>
    /\ \A i \in Ids : Translations(i) <= 1
    /\ \A w \in Workers : \A i \in Ids :
         /\ worker[w].pc = "translated" /\ i \notin worker[w].read => Translations(i) = 0
         /\ worker[w].pc = "filling" /\ i \in worker[w].missing => Translations(i) = 0

-----------------------------------------------------------------------------
(* How often a source is among a row of translations.                      *)
Places(s, i) == {p \in DOMAIN s : s[p] = i}

LEMMA PlacesAreFinite ==
  ASSUME NEW s \in Seq(Ids), NEW i
  PROVE  IsFiniteSet(Places(s, i)) /\ Cardinality(Places(s, i)) \in Nat
<1>1. DOMAIN s = 1..Len(s) /\ Len(s) \in Nat
  OBVIOUS
<1>2. IsFiniteSet(DOMAIN s)
  BY <1>1, FS_Interval
<1>3. Places(s, i) \subseteq DOMAIN s
  BY DEF Places
<1> QED  BY <1>2, <1>3, FS_Subset, FS_CardinalityType

LEMMA NoPlaces ==
  ASSUME NEW s \in Seq(Ids), NEW i
  PROVE  Cardinality(Places(s, i)) = 0 <=> \A p \in DOMAIN s : s[p] # i
<1>1. Cardinality(Places(s, i)) = 0 <=> Places(s, i) = {}
  BY PlacesAreFinite, FS_EmptySet
<1> QED  BY <1>1 DEF Places

LEMMA PlacesAppend ==
  ASSUME NEW s \in Seq(Ids), NEW i \in Ids, NEW j \in Ids
  PROVE  Cardinality(Places(Append(s, i), j)) =
           IF j = i THEN Cardinality(Places(s, j)) + 1 ELSE Cardinality(Places(s, j))
<1> DEFINE n == Len(s) + 1
<1>1. /\ n \notin DOMAIN s /\ DOMAIN Append(s, i) = DOMAIN s \cup {n}
      /\ Append(s, i)[n] = i /\ \A p \in DOMAIN s : Append(s, i)[p] = s[p]
  OBVIOUS
<1>2. CASE j = i
  <2>1. Places(Append(s, i), j) = Places(s, j) \cup {n} /\ n \notin Places(s, j)
    BY <1>1, <1>2 DEF Places
  <2> DEFINE P == Places(s, j)
  <2>2. IsFiniteSet(P)
    BY PlacesAreFinite
  <2> HIDE DEF P, n
  <2>3. n \notin P => Cardinality(P \cup {n}) = Cardinality(P) + 1
    BY <2>2, FS_AddElement
  <2> QED  BY <2>1, <2>3, <1>2 DEF P
<1>3. CASE j # i
  <2>1. Places(Append(s, i), j) = Places(s, j)
    BY <1>1, <1>3 DEF Places
  <2> QED  BY <2>1, <1>3
<1> QED  BY <1>2, <1>3

LEMMA NoTranslation ==
  ASSUME translated \in Seq(Ids), NEW i
  PROVE  /\ Translations(i) \in Nat
         /\ Translations(i) = 0 <=> \A p \in DOMAIN translated : translated[p] # i
<1>1. Translations(i) = Cardinality(Places(translated, i))
  BY DEF Translations, Places
<1>2. Cardinality(Places(translated, i)) \in Nat
  BY PlacesAreFinite
<1>3. Cardinality(Places(translated, i)) = 0 <=> \A p \in DOMAIN translated : translated[p] # i
  BY NoPlaces
<1> QED  BY <1>1, <1>2, <1>3

(* Of the rows that are replaced none is left.                             *)
LEMMA NothingLeft ==
  ASSUME translated' = <<>>
  PROVE  DOMAIN translated' = {} /\ \A i : Translations(i)' = 0
<1>1. DOMAIN translated' = {}
  OBVIOUS
<1>2. ASSUME NEW i PROVE Translations(i)' = 0
  BY <1>1, FS_EmptySet DEF Translations
<1> QED  BY <1>1, <1>2

(* A translation is kept where its English row still is, and no other line *)
(* has one more.                                                           *)
LEMMA KeptCounts ==
  ASSUME translated \in Seq(Ids), NEW i \in Ids, translated' = Kept(i)
  PROVE  /\ translated' \in Seq(Ids)
         /\ \A j \in Ids : Translations(j)' = IF j = i /\ i \in english THEN Translations(j) + 1
                                                                       ELSE Translations(j)
         /\ \A p \in DOMAIN translated' :
              \/ p \in DOMAIN translated /\ translated'[p] = translated[p]
              \/ translated'[p] = i /\ i \in english
<1>1. CASE i \in english
  <2>1. translated' = Append(translated, i)
    BY <1>1 DEF Kept
  <2>2. \A j \in Ids : Translations(j)' = IF j = i THEN Translations(j) + 1 ELSE Translations(j)
    BY <2>1, PlacesAppend DEF Translations, Places
  <2> QED  BY <1>1, <2>1, <2>2
<1>2. CASE i \notin english
  <2>1. translated' = translated
    BY <1>2 DEF Kept
  <2>2. \A j \in Ids : Translations(j)' = Translations(j)
    BY <2>1 DEF Translations
  <2> QED  BY <1>2, <2>1, <2>2
<1> QED  BY <1>1, <1>2

(* While they fit, the translations that are read are all there are.       *)
LEMMA AllAreRead ==
  ASSUME translated \in Seq(Ids), RowsFit, Window \in Nat, NEW i, i \notin NewestTranslated(Window)
  PROVE  Translations(i) = 0
<1>1. SUFFICES ASSUME NEW x \in DOMAIN translated PROVE translated[x] \in NewestTranslated(Window)
  BY NoTranslation
<1> DEFINE After == {q \in DOMAIN translated : SavedAfter(q, x)}
<1>2. DOMAIN translated = 1..Len(translated) /\ Len(translated) \in Nat
  OBVIOUS
<1>3. After \subseteq DOMAIN translated \ {x}
  <2>1. ~SavedAfter(x, x)
    <3>1. translated[x][2] \in Nat /\ x \in Nat
      BY <1>2 DEF Ids, Lines
    <3> QED  BY <3>1 DEF SavedAfter, Newer
  <2> QED  BY <2>1
<1>4. IsFiniteSet(DOMAIN translated) /\ Cardinality(DOMAIN translated) = Len(translated)
  <2> DEFINE n == Len(translated)
  <2>1. IsFiniteSet(1..n) /\ Cardinality(1..n) = IF 1 > n THEN 0 ELSE n - 1 + 1
    BY <1>2, FS_Interval
  <2>2. IF 1 > n THEN 0 = n ELSE n - 1 + 1 = n
    BY <1>2
  <2> QED  BY <1>2, <2>1, <2>2
<1>5. /\ IsFiniteSet(DOMAIN translated \ {x})
      /\ Cardinality(DOMAIN translated \ {x}) = Len(translated) - 1
  BY <1>4, FS_RemoveElement
<1>6. Cardinality(After) \in Nat /\ Cardinality(After) <= Len(translated) - 1
  BY <1>3, <1>5, FS_Subset, FS_CardinalityType
<1>7. Cardinality(After) < Window
  BY <1>2, <1>6 DEF RowsFit
<1> QED  BY <1>7 DEF NewestTranslated

-----------------------------------------------------------------------------
(* Types, and the one job of the one worker.                               *)
WorkerRecords == [pc : {"idle", "filling"} \cup Queries, read : SUBSET Ids, missing : SUBSET Ids]

LEMMA NobodyIsBusy ==
  ASSUME TypeOK, Alone, gapJob > Cardinality(BusyWorkers)
  PROVE  gapJob = 1 /\ \A w \in Workers : worker[w].pc = "idle"
<1>1. gapJob \in {0, 1}
  BY DEF TypeOK
<1>2. CASE \E w \in Workers : worker[w].pc # "idle"
  <2>1. PICK w \in Workers : worker[w].pc # "idle"
    BY <1>2
  <2>2. BusyWorkers = {w}
    BY <2>1 DEF BusyWorkers, Alone
  <2>3. Cardinality(BusyWorkers) = 1
    BY <2>2, FS_Singleton
  <2> QED  BY <1>1, <2>3
<1>3. CASE \A w \in Workers : worker[w].pc = "idle"
  <2>1. BusyWorkers = {}
    BY <1>3 DEF BusyWorkers
  <2>2. Cardinality(BusyWorkers) = 0
    BY <2>1, FS_EmptySet
  <2> QED  BY <1>1, <1>3, <2>2
<1> QED  BY <1>2, <1>3

(* What is read, and what is taken for missing, are rows of this session.  *)
LEMMA ReadsAreRows ==
  ASSUME TypeOK, NEW n
  PROVE  /\ \A ids : Newest(ids, n) \subseteq ids
         /\ NewestTranslated(n) \subseteq Ids
<1>1. \A p \in DOMAIN translated : translated[p] \in Ids
  BY DEF TypeOK
<1> QED  BY <1>1 DEF Newest, NewestTranslated

(* A gap fill's job takes one step; of the others the room is the same.    *)
LEMMA WorkersStep ==
  ASSUME TypeOK, Alone, NEW w \in Workers, WorkerStep(w) \/ WorkerDies(w)
  PROVE  /\ worker' \in [Workers -> WorkerRecords] /\ gapJob' \in {0, 1}
         /\ \A v \in Workers \ {w} : worker'[v] = worker[v] /\ worker'[v].pc = "idle"
         /\ worker'[w].pc # "idle" => gapJob' = 1
<1> USE DEF TypeOK
<1>1. worker \in [Workers -> WorkerRecords] /\ IdleWorker \in WorkerRecords
  BY DEF WorkerRecords, IdleWorker, Queries
<1>2. worker[w].pc # "idle" => gapJob = 1 /\ \A v \in Workers \ {w} : worker[v].pc = "idle"
  BY DEF Alone
<1>3. ASSUME NEW first \in Queries, WorkerReads(w, first)
      PROVE  /\ worker' \in [Workers -> WorkerRecords] /\ gapJob' = 1
             /\ \A v \in Workers \ {w} : worker'[v] = worker[v] /\ worker[v].pc = "idle"
  <2>1. gapJob = 1 /\ \A v \in Workers : worker[v].pc = "idle"
    BY <1>3, NobodyIsBusy DEF WorkerReads
  <2> DEFINE read == IF first = "english" THEN Newest(english, Window) ELSE NewestTranslated(Window)
  <2>2. read \in SUBSET Ids
    BY ReadsAreRows
  <2>3. worker' = [worker EXCEPT ![w] = [IdleWorker EXCEPT !.pc = first, !.read = read]] /\ gapJob' = gapJob
    BY <1>3 DEF WorkerReads
  <2> HIDE DEF read
  <2>4. [IdleWorker EXCEPT !.pc = first, !.read = read] \in WorkerRecords
    BY <2>2 DEF IdleWorker, WorkerRecords
  <2> QED  BY <1>1, <2>1, <2>3, <2>4
<1>4. CASE WorkerCompares(w)
  <2> DEFINE source == IF worker[w].pc = "english" THEN worker[w].read ELSE Newest(english, Window)
             existing == IF worker[w].pc = "english" THEN NewestTranslated(Window) ELSE worker[w].read
             missing == Newest(source \ existing, GapFillMax)
  <2>1. worker[w].pc # "idle" /\ gapJob' = gapJob
    BY <1>4 DEF WorkerCompares, Queries
  <2>2. worker' = [worker EXCEPT ![w] = [IdleWorker EXCEPT !.pc = "filling", !.missing = missing]]
    BY <1>4 DEF WorkerCompares
  <2>3. source \subseteq Ids
    BY <1>1, ReadsAreRows DEF WorkerRecords
  <2>4. missing \subseteq source
    BY ReadsAreRows
  <2> HIDE DEF source, existing, missing
  <2>5. [IdleWorker EXCEPT !.pc = "filling", !.missing = missing] \in WorkerRecords
    BY <2>3, <2>4 DEF IdleWorker, WorkerRecords
  <2> QED  BY <1>1, <1>2, <2>1, <2>2, <2>5
<1>5. CASE WorkerFill(w)
  <2>1. PICK i \in Ids : \E answer \in Answers : WorkerFills(w, i, answer)
    BY <1>5 DEF WorkerFill
  <2>2. /\ worker[w].pc = "filling" /\ gapJob' = gapJob
        /\ worker' = [worker EXCEPT ![w].missing = @ \ {i}]
    BY <2>1 DEF WorkerFills
  <2>3. [worker[w] EXCEPT !.missing = @ \ {i}] \in WorkerRecords
    BY <1>1 DEF WorkerRecords
  <2> QED  BY <1>1, <1>2, <2>2, <2>3
<1>6. CASE WorkerEnds(w)
  BY <1>1, <1>2, <1>6 DEF WorkerEnds, IdleWorker
<1>7. CASE WorkerDies(w)
  BY <1>1, <1>2, <1>7 DEF WorkerDies, IdleWorker
<1> QED  BY <1>3, <1>4, <1>5, <1>6, <1>7 DEF WorkerStep

(* What a gap fill's job does to the rows: nothing, or one more of a line. *)
LEMMA WorkersRows ==
  ASSUME TypeOK, NEW w \in Workers, WorkerStep(w) \/ WorkerDies(w)
  PROVE  /\ UNCHANGED <<said, take, heard, archiveJob, english, line, clears, regime>>
         /\ losses' \in 0..MaxClears
         /\ \/ UNCHANGED <<translated, fills>>
            \/ \E i \in Ids : /\ worker[w].pc = "filling" /\ i \in worker[w].missing /\ i \in english
                              /\ worker' = [worker EXCEPT ![w].missing = @ \ {i}]
                              /\ translated' = Kept(i) /\ fills' = [fills EXCEPT ![i] = @ + 1]
<1>1. CASE WorkerFill(w)
  <2>1. PICK i \in Ids, answer \in Answers : WorkerFills(w, i, answer)
    BY <1>1 DEF WorkerFill
  <2>2. /\ UNCHANGED <<said, take, heard, archiveJob, english, line, clears, losses, regime>>
        /\ worker[w].pc = "filling" /\ i \in worker[w].missing
        /\ worker' = [worker EXCEPT ![w].missing = @ \ {i}]
        /\ translated' = IF answer = "text" THEN Kept(i) ELSE translated
        /\ fills' = IF answer = "text" /\ i \in english THEN [fills EXCEPT ![i] = @ + 1] ELSE fills
    BY <2>1 DEF WorkerFills
  <2>3. losses' \in 0..MaxClears
    BY <2>2 DEF TypeOK
  <2>4. CASE answer = "text" /\ i \in english
    BY <2>2, <2>3, <2>4
  <2>5. CASE ~(answer = "text" /\ i \in english)
    <3>1. UNCHANGED <<translated, fills>>
      BY <2>2, <2>5 DEF Kept
    <3> QED  BY <2>2, <2>3, <3>1
  <2> QED  BY <2>4, <2>5
<1>2. CASE WorkerDies(w)
  BY <1>2, TranscriptBounds DEF WorkerDies, TypeOK, rows
<1>3. CASE (\E first \in Queries : WorkerReads(w, first)) \/ WorkerCompares(w) \/ WorkerEnds(w)
  BY <1>3 DEF WorkerReads, WorkerCompares, WorkerEnds, TypeOK, rows
<1> QED  BY <1>1, <1>2, <1>3 DEF WorkerStep

LEMMA SessionInit == Init => SessionInv /\ Filled /\ FilledAlone
<1> SUFFICES ASSUME Init PROVE SessionInv /\ Filled /\ FilledAlone
  OBVIOUS
<1>1. TypeOK
  BY TranscriptBounds, TranscriptSwitches DEF Init, TypeOK, IdleWorker, Queries, Lines
<1>2. \A i : Translations(i) = 0
  <2>1. DOMAIN translated = {}
    BY DEF Init
  <2> QED  BY <2>1, FS_EmptySet DEF Translations
<1>3. /\ \A w \in Workers : worker[w] = IdleWorker
      /\ \A l \in Lines : line[l] = "none" /\ <<"live", l>> \in Ids /\ <<"archive", l>> \in Ids
      /\ \A i \in Ids : fills[i] = 0
      /\ english = {} /\ DOMAIN translated = {}
      /\ \A t \in Takes : heard[t] = {}
  BY DEF Init, Ids
<1>4. Alone /\ Rooted /\ Counted /\ OneAtATime
  <2>1. \A w \in Workers : worker[w].pc = "idle"
    BY <1>3 DEF IdleWorker
  <2>4. Alone /\ OneAtATime
    BY <1>3, <2>1 DEF Alone, OneAtATime
  <2>2. Rooted
    BY <1>3 DEF Rooted
  <2>3. Counted
    <3> SUFFICES ASSUME NEW l \in Lines PROVE LineCounted(l)
      BY DEF Counted
    <3>1. Translations(<<"archive", l>>) = 0 /\ Translations(<<"live", l>>) = 0
      BY <1>2
    <3>2. fills[<<"archive", l>>] = 0 /\ fills[<<"live", l>>] = 0
      BY <1>3
    <3> QED  BY <3>1, <3>2 DEF LineCounted
  <2> QED  BY <2>2, <2>3, <2>4
<1>5. Filled /\ FilledAlone
  BY <1>2, <1>3 DEF Filled, FilledAlone, IdleWorker
<1> QED  BY <1>1, <1>4, <1>5 DEF SessionInv, Session

LEMMA TypesStep ==
  ASSUME TypeOK, Alone, [Next]_vars
  PROVE  TypeOK' /\ Alone'
<1>1. CASE \E w \in Workers : WorkerStep(w) \/ WorkerDies(w)
  <2>1. PICK w \in Workers : WorkerStep(w) \/ WorkerDies(w)
    BY <1>1
  <2>2. /\ worker' \in [Workers -> WorkerRecords] /\ gapJob' \in {0, 1}
        /\ \A v \in Workers \ {w} : worker'[v] = worker[v] /\ worker'[v].pc = "idle"
        /\ worker'[w].pc # "idle" => gapJob' = 1
    BY <2>1, WorkersStep
  <2>3. /\ UNCHANGED <<said, take, heard, archiveJob, english, line, clears, regime>>
        /\ losses' \in 0..MaxClears
        /\ \/ UNCHANGED <<translated, fills>>
           \/ \E i \in Ids : translated' = Kept(i) /\ fills' = [fills EXCEPT ![i] = @ + 1]
    BY <2>1, WorkersRows
  <2>4. translated' \in Seq(Ids) /\ fills' \in [Ids -> Nat]
    <3>1. CASE UNCHANGED <<translated, fills>>
      BY <3>1 DEF TypeOK
    <3>2. CASE ~UNCHANGED <<translated, fills>>
      <4>1. PICK i \in Ids : translated' = Kept(i) /\ fills' = [fills EXCEPT ![i] = @ + 1]
        BY <2>3, <3>2
      <4>2. translated \in Seq(Ids) /\ fills \in [Ids -> Nat]
        BY DEF TypeOK
      <4>3. translated' \in Seq(Ids)
        BY <4>1, <4>2, KeptCounts
      <4> QED  BY <4>1, <4>2, <4>3
    <3> QED  BY <3>1, <3>2
  <2>5. TypeOK'
    BY <2>2, <2>3, <2>4 DEF TypeOK, WorkerRecords
  <2>6. Alone'
    BY <2>2 DEF Alone
  <2> QED  BY <2>5, <2>6
<1>2. CASE Say \/ StopCapture \/ \E t \in Takes : Capture(t)
  <2>1. UNCHANGED <<rows, gapJob, worker, clears, losses, regime>>
    BY <1>2 DEF Say, StopCapture, Capture
  <2>2. Alone'
    BY <2>1 DEF Alone
  <2>3. /\ said' \in 0..MaxLines /\ take' \in Takes \cup {None}
        /\ heard' \in [Takes -> SUBSET Lines]
        /\ archiveJob' \in [Takes -> {"none", "queued", "done"}]
        /\ line' \in [Lines -> {"none", "saving", "translating", "keeping"}]
    <3>1. CASE Say
      <4>1. said + 1 \in Lines /\ said + 1 \in 0..MaxLines /\ take \in Takes
        BY <3>1, TranscriptBounds DEF Say, TypeOK, Lines
      <4> QED  BY <3>1, <4>1 DEF Say, TypeOK
    <3>2. CASE StopCapture \/ \E t \in Takes : Capture(t)
      BY <3>2 DEF StopCapture, Capture, TypeOK
    <3> QED  BY <1>2, <3>1, <3>2
  <2>4. TypeOK'
    BY <2>1, <2>3 DEF TypeOK, rows
  <2> QED  BY <2>2, <2>4
<1>3. CASE Read
  <2>1. Alone'
    BY <1>3 DEF Read, Alone
  <2> QED  BY <1>3, <2>1 DEF Read, TypeOK, rows
<1>4. CASE ClearCaptions \/ \E t \in Takes : Archive(t) \/ ArchiveFails(t)
  <2>1. UNCHANGED <<said, take, heard, line, gapJob, worker, losses, regime>>
    BY <1>4 DEF ClearCaptions, Archive, ArchiveFails
  <2>2. Alone'
    BY <2>1 DEF Alone
  <2>3. archiveJob' \in [Takes -> {"none", "queued", "done"}] /\ clears' \in 0..MaxClears
    BY <1>4, TranscriptBounds DEF ClearCaptions, Archive, ArchiveFails, TypeOK
  <2>4. english' \subseteq Ids /\ translated' \in Seq(Ids) /\ fills' \in [Ids -> Nat]
    <3>1. english' \subseteq Ids
      <4>1. ASSUME NEW t \in Takes PROVE {<<"archive", l>> : l \in heard[t]} \subseteq Ids
        BY DEF TypeOK, Ids
      <4> QED  BY <1>4, <4>1 DEF ClearCaptions, Archive, ArchiveFails, TypeOK, rows
    <3>2. CASE \E t \in Takes : ArchiveFails(t)
      BY <3>1, <3>2 DEF ArchiveFails, TypeOK, rows
    <3>3. CASE ClearCaptions \/ \E t \in Takes : Archive(t)
      <4>1. translated' = <<>> /\ fills' = [i \in Ids |-> 0]
        BY <3>3 DEF ClearCaptions, Archive
      <4> QED  BY <3>1, <4>1
    <3> QED  BY <1>4, <3>2, <3>3
  <2>5. TypeOK'
    BY <2>1, <2>3, <2>4 DEF TypeOK
  <2> QED  BY <2>2, <2>5
<1>5. CASE \E l \in Lines : LineStep(l)
  <2>1. PICK l \in Lines : LineStep(l)
    BY <1>5
  <2>2. UNCHANGED <<said, take, heard, archiveJob, fills, gapJob, worker, clears, losses, regime>>
    BY <2>1 DEF LineStep, SaveLine, Translate, KeepTranslation, rows
  <2>3. Alone'
    BY <2>2 DEF Alone
  <2>4. line' \in [Lines -> {"none", "saving", "translating", "keeping"}]
    BY <2>1 DEF LineStep, SaveLine, Translate, KeepTranslation, TypeOK
  <2>5. english' \subseteq Ids
    BY <2>1 DEF LineStep, SaveLine, Translate, KeepTranslation, TypeOK, Ids, rows
  <2>6. translated' \in Seq(Ids)
    BY <2>1, KeptCounts DEF LineStep, SaveLine, Translate, KeepTranslation, TypeOK, Ids, rows
  <2>7. TypeOK'
    BY <2>2, <2>4, <2>5, <2>6 DEF TypeOK
  <2> QED  BY <2>3, <2>7
<1>6. CASE UNCHANGED vars
  BY <1>6 DEF vars, rows, TypeOK, Alone
<1> QED  BY <1>1, <1>2, <1>3, <1>4, <1>5, <1>6 DEF Next

-----------------------------------------------------------------------------
(* What is kept of a line is kept of what was said.                        *)
LEMMA SameCounts ==
  ASSUME UNCHANGED translated
  PROVE  \A i : Translations(i)' = Translations(i)
BY DEF Translations

LEMMA RootedStep ==
  ASSUME TypeOK, Rooted, [Next]_vars
  PROVE  Rooted'
<1> USE DEF Rooted
<1>1. CASE \E w \in Workers : WorkerStep(w) \/ WorkerDies(w)
  <2>1. PICK w \in Workers : WorkerStep(w) \/ WorkerDies(w)
    BY <1>1
  <2>2. /\ UNCHANGED <<said, heard, english, line>>
        /\ UNCHANGED translated \/ \E i \in Ids : translated' = Kept(i)
    BY <2>1, WorkersRows
  <2>3. \A p \in DOMAIN translated' : translated'[p] \in english'
    <3>1. CASE UNCHANGED translated
      BY <2>2, <3>1
    <3>2. ASSUME NEW i \in Ids, translated' = Kept(i)
          PROVE  \A p \in DOMAIN translated' : translated'[p] \in english'
      BY <2>2, <3>2, KeptCounts DEF TypeOK
    <3> QED  BY <2>2, <3>1, <3>2
  <2> QED  BY <2>2, <2>3
<1>2. CASE Say
  <2>1. said \in Nat /\ said' = said + 1 /\ said' \in Lines /\ take \in Takes
    BY <1>2, TranscriptBounds DEF Say, TypeOK, Lines
  <2>2. UNCHANGED <<english, translated>> /\ line' = [line EXCEPT ![said + 1] = "saving"]
    BY <1>2 DEF Say, rows
  <2>3. \A l \in Lines : l \in Nat
    BY DEF Lines
  <2>4. <<"live", said + 1>> \notin english
    <3>1. said + 1 \in Lines /\ ~(said + 1 <= said)
      BY <2>1
    <3> QED  BY <3>1, Zenon
  <2>5. ASSUME NEW t \in Takes PROVE \A l \in heard'[t] : l <= said'
    <3>1. heard' = [heard EXCEPT ![take] = @ \cup {said + 1}] /\ heard \in [Takes -> SUBSET Lines]
      BY <1>2 DEF Say, TypeOK
    <3>2. heard'[t] \subseteq heard[t] \cup {said + 1} /\ heard[t] \subseteq Lines
      BY <3>1
    <3>3. \A l \in heard[t] : l \in Nat /\ l <= said
      BY <2>3, <3>2
    <3> QED  BY <2>1, <3>2, <3>3
  <2>6. line \in [Lines -> {"none", "saving", "translating", "keeping"}]
    BY DEF TypeOK
  <2>7. ASSUME NEW l \in Lines
        PROVE  /\ line'[l] # "none" \/ <<"live", l>> \in english' \/ <<"archive", l>> \in english' => l <= said'
               /\ line'[l] = "saving" => <<"live", l>> \notin english'
    <3>1. CASE l = said + 1
      BY <2>1, <2>2, <2>4, <3>1
    <3>2. CASE l # said + 1
      BY <2>1, <2>2, <2>3, <2>6, <3>2
    <3> QED  BY <3>1, <3>2
  <2> QED  BY <2>2, <2>5, <2>7
<1>3. CASE StopCapture \/ Read \/ (\E t \in Takes : Capture(t) \/ ArchiveFails(t)) \/ UNCHANGED vars
  BY <1>3 DEF StopCapture, Read, Capture, ArchiveFails, vars, rows
<1>4. CASE ClearCaptions \/ \E t \in Takes : Archive(t)
  <2>1. UNCHANGED <<said, heard, line>> /\ translated' = <<>>
    BY <1>4 DEF ClearCaptions, Archive
  <2>2. DOMAIN translated' = {}
    BY <2>1, NothingLeft
  <2>3. \A l \in Lines : <<"live", l>> \notin english' /\ (<<"archive", l>> \in english' => l <= said)
    <3>1. CASE ClearCaptions
      BY <3>1 DEF ClearCaptions
    <3>2. ASSUME NEW t \in Takes, Archive(t)
          PROVE  \A l \in Lines : <<"live", l>> \notin english' /\ (<<"archive", l>> \in english' => l <= said)
      <4>1. english' = {<<"archive", l>> : l \in heard[t]}
        BY <3>2 DEF Archive
      <4>2. ASSUME NEW l \in Lines, <<"archive", l>> \in english' PROVE l \in heard[t]
        BY <4>1, <4>2
      <4>3. ASSUME NEW l \in Lines PROVE <<"live", l>> \notin english'
        BY <4>1
      <4> QED  BY <4>2, <4>3
    <3> QED  BY <1>4, <3>1, <3>2
  <2> QED  BY <2>1, <2>2, <2>3
<1>5. ASSUME NEW l \in Lines, LineStep(l) PROVE Rooted'
  <2>1. line \in [Lines -> {"none", "saving", "translating", "keeping"}] /\ translated \in Seq(Ids)
        /\ <<"live", l>> \in Ids
    BY DEF TypeOK, Ids
  <2>2. CASE SaveLine(l)
    BY <2>1, <2>2 DEF SaveLine
  <2>3. CASE \E answer \in Answers : Translate(l, answer)
    BY <2>1, <2>3 DEF Translate, rows
  <2>4. CASE KeepTranslation(l)
    <3>1. /\ UNCHANGED <<said, heard, english>> /\ translated' = Kept(<<"live", l>>)
          /\ line[l] = "keeping" /\ line' = [line EXCEPT ![l] = "none"]
      BY <2>4 DEF KeepTranslation
    <3>2. \A p \in DOMAIN translated' : translated'[p] \in english'
      BY <2>1, <3>1, KeptCounts
    <3> QED  BY <2>1, <3>1, <3>2
  <2> QED  BY <1>5, <2>2, <2>3, <2>4 DEF LineStep
<1> QED  BY <1>1, <1>2, <1>3, <1>4, <1>5 DEF Next

LEMMA CountedStep ==
  ASSUME TypeOK, Rooted, Counted, [Next]_vars
  PROVE  Counted'
<1> SUFFICES ASSUME NEW l \in Lines PROVE LineCounted(l)'
  BY DEF Counted
<1> DEFINE Live == <<"live", l>>
           Archived == <<"archive", l>>
<1>1. LineCounted(l) /\ Live \in Ids /\ Archived \in Ids /\ Live # Archived
  BY DEF Counted, Ids
<1>2. /\ translated \in Seq(Ids) /\ fills \in [Ids -> Nat]
      /\ line \in [Lines -> {"none", "saving", "translating", "keeping"}]
      /\ Translations(Live) \in Nat /\ Translations(Archived) \in Nat
  BY NoTranslation DEF TypeOK
<1>3. CASE \E w \in Workers : WorkerStep(w) \/ WorkerDies(w)
  <2>1. PICK w \in Workers : WorkerStep(w) \/ WorkerDies(w)
    BY <1>3
  <2>2. /\ UNCHANGED line
        /\ \/ UNCHANGED <<translated, fills>>
           \/ \E i \in Ids : i \in english /\ translated' = Kept(i) /\ fills' = [fills EXCEPT ![i] = @ + 1]
    BY <2>1, WorkersRows
  <2>3. CASE UNCHANGED <<translated, fills>>
    BY <1>1, <2>2, <2>3, SameCounts DEF LineCounted
  <2>4. ASSUME NEW i \in Ids, i \in english, translated' = Kept(i), fills' = [fills EXCEPT ![i] = @ + 1]
        PROVE  LineCounted(l)'
    <3>1. /\ Translations(Live)' = IF Live = i THEN Translations(Live) + 1 ELSE Translations(Live)
          /\ Translations(Archived)' = IF Archived = i THEN Translations(Archived) + 1 ELSE Translations(Archived)
      BY <1>1, <1>2, <2>4, KeptCounts
    <3>2. /\ fills'[Live] = IF Live = i THEN fills[Live] + 1 ELSE fills[Live]
          /\ fills'[Archived] = IF Archived = i THEN fills[Archived] + 1 ELSE fills[Archived]
      BY <1>1, <1>2, <2>4
    <3>3. fills[Live] \in Nat /\ fills[Archived] \in Nat
      BY <1>1, <1>2
    <3> HIDE DEF Live, Archived
    <3> QED  BY <1>1, <1>2, <2>2, <3>1, <3>2, <3>3 DEF LineCounted, Live, Archived
  <2> QED  BY <2>2, <2>3, <2>4
<1>4. CASE Say
  <2>1. UNCHANGED <<translated, fills>> /\ line' = [line EXCEPT ![said + 1] = "saving"]
    BY <1>4 DEF Say, rows
  <2>2. ASSUME l = said + 1 PROVE Translations(Live) = fills[Live]
    <3>1. said \in Nat /\ ~(l <= said)
      BY <2>2 DEF TypeOK
    <3>2. Live \notin english
      BY <3>1 DEF Rooted
    <3>3. \A p \in DOMAIN translated : translated[p] # Live
      BY <3>2 DEF Rooted
    <3>4. Translations(Live) = 0
      BY <1>2, <3>3, NoTranslation
    <3>5. fills[Live] \in Nat /\ fills[Live] <= 0
      BY <1>1, <1>2, <3>4 DEF LineCounted
    <3> QED  BY <3>4, <3>5
  <2>3. Translations(Live)' = Translations(Live) /\ Translations(Archived)' = Translations(Archived)
    BY <2>1, SameCounts
  <2>4. line'[l] # "none" => line[l] # "none" \/ l = said + 1
    BY <1>2, <2>1
  <2> QED  BY <1>1, <2>1, <2>2, <2>3, <2>4 DEF LineCounted
<1>5. CASE StopCapture \/ Read \/ (\E t \in Takes : Capture(t) \/ ArchiveFails(t)) \/ UNCHANGED vars
  <2>1. UNCHANGED <<translated, fills, line>>
    BY <1>5 DEF StopCapture, Read, Capture, ArchiveFails, vars, rows
  <2> QED  BY <1>1, <2>1, SameCounts DEF LineCounted
<1>6. CASE ClearCaptions \/ \E t \in Takes : Archive(t)
  <2>1. translated' = <<>> /\ fills' = [i \in Ids |-> 0]
    BY <1>6 DEF ClearCaptions, Archive
  <2>2. Translations(Live)' = 0 /\ Translations(Archived)' = 0
    BY <2>1, NothingLeft
  <2>3. fills'[Live] = 0 /\ fills'[Archived] = 0
    BY <1>1, <2>1
  <2> QED  BY <2>2, <2>3 DEF LineCounted
<1>7. ASSUME NEW k \in Lines, LineStep(k) PROVE LineCounted(l)'
  <2>1. CASE SaveLine(k) \/ \E answer \in Answers : Translate(k, answer)
    <3>1. UNCHANGED <<translated, fills>> /\ (line'[l] # "none" => line[l] # "none")
      BY <1>2, <2>1 DEF SaveLine, Translate, rows
    <3> QED  BY <1>1, <3>1, SameCounts DEF LineCounted
  <2>2. CASE KeepTranslation(k)
    <3>1. /\ UNCHANGED fills /\ translated' = Kept(<<"live", k>>) /\ <<"live", k>> \in Ids
          /\ line[k] = "keeping" /\ line' = [line EXCEPT ![k] = "none"]
      BY <2>2 DEF KeepTranslation, Ids
    <3>2. /\ Translations(Live)' = IF Live = <<"live", k>> /\ <<"live", k>> \in english
                                   THEN Translations(Live) + 1 ELSE Translations(Live)
          /\ Translations(Archived)' = Translations(Archived)
      BY <1>1, <1>2, <3>1, KeptCounts
    <3>3. CASE l = k
      <4>1. Translations(Live) = fills[Live] /\ line'[l] = "none" /\ fills[Live] \in Nat
        BY <1>1, <1>2, <3>1, <3>3 DEF LineCounted
      <4> QED  BY <1>1, <1>2, <3>1, <3>2, <4>1 DEF LineCounted
    <3>4. CASE l # k
      <4>1. Live # <<"live", k>> /\ line'[l] = line[l]
        BY <1>2, <3>1, <3>4
      <4> QED  BY <1>1, <3>1, <3>2, <4>1 DEF LineCounted
    <3> QED  BY <3>3, <3>4
  <2> QED  BY <1>7, <2>1, <2>2 DEF LineStep
<1> QED  BY <1>3, <1>4, <1>5, <1>6, <1>7 DEF Next

-----------------------------------------------------------------------------
(* One thing at a time.                                                    *)
LEMMA QuietStart ==
  ASSUME regime = "single", MayStart
  PROVE  (\A l \in Lines : line[l] = "none") /\ (\A w \in Workers : worker[w].pc = "idle")
BY DEF MayStart, Quiet, BusyLines, BusyWorkers

LEMMA WorkersAlone ==
  ASSUME OneAtATime, regime = "single", NEW w \in Workers, WorkerStep(w) \/ WorkerDies(w)
  PROVE  \A l \in Lines : line[l] = "none"
<1>1. CASE \E first \in Queries : WorkerReads(w, first)
  BY <1>1, QuietStart DEF WorkerReads
<1>2. CASE WorkerCompares(w) \/ WorkerFill(w) \/ WorkerEnds(w) \/ WorkerDies(w)
  <2>1. worker[w].pc # "idle"
    BY <1>2 DEF WorkerCompares, WorkerFill, WorkerFills, WorkerEnds, WorkerDies
  <2> QED  BY <2>1 DEF OneAtATime
<1> QED  BY <1>1, <1>2 DEF WorkerStep

LEMMA OneAtATimeStep ==
  ASSUME TypeOK, Rooted, OneAtATime, [Next]_vars
  PROVE  OneAtATime'
<1>1. UNCHANGED regime
  <2>1. ASSUME NEW w \in Workers, WorkerStep(w) \/ WorkerDies(w) PROVE UNCHANGED regime
    BY <2>1, WorkersRows
  <2> QED  BY <2>1 DEF Next, Capture, Archive, ArchiveFails, Say, StopCapture, Read, ClearCaptions,
                       LineStep, SaveLine, KeepTranslation, Translate, vars
<1> SUFFICES ASSUME regime = "single", NEW l \in Lines
             PROVE  /\ <<"archive", l>> \in english' => <<"live", l>> \notin english' /\ line'[l] # "saving"
                    /\ line'[l] # "none" =>
                         Translations(<<"live", l>>)' = 0 /\ \A w \in Workers : worker'[w].pc = "idle"
  BY <1>1 DEF OneAtATime
<1>2. /\ <<"archive", l>> \in english => <<"live", l>> \notin english /\ line[l] # "saving"
      /\ line[l] # "none" => Translations(<<"live", l>>) = 0 /\ \A w \in Workers : worker[w].pc = "idle"
      /\ line \in [Lines -> {"none", "saving", "translating", "keeping"}]
      /\ <<"live", l>> \in Ids /\ <<"archive", l>> \in Ids
  BY DEF OneAtATime, TypeOK, Ids
<1>3. ASSUME NEW w \in Workers, WorkerStep(w) \/ WorkerDies(w)
      PROVE  line'[l] = "none" /\ UNCHANGED english
  BY <1>3, WorkersAlone, WorkersRows
<1>4. CASE Say
  <2>1. UNCHANGED <<english, translated, worker>> /\ line' = [line EXCEPT ![said + 1] = "saving"]
    BY <1>4 DEF Say, rows
  <2>2. line[l] = "none" /\ \A w \in Workers : worker[w].pc = "idle"
    BY <1>4, QuietStart DEF Say
  <2>3. CASE l = said + 1
    <3>1. ~(l <= said)
      BY <2>3 DEF TypeOK
    <3>2. <<"live", l>> \notin english /\ <<"archive", l>> \notin english
      BY <3>1 DEF Rooted
    <3>3. Translations(<<"live", l>>) = 0
      BY <3>2, NoTranslation DEF Rooted, TypeOK
    <3> QED  BY <2>1, <2>2, <3>2, <3>3, SameCounts
  <2>4. CASE l # said + 1
    <3>1. line'[l] = "none"
      BY <1>2, <2>1, <2>2, <2>4
    <3> QED  BY <1>2, <2>1, <3>1
  <2> QED  BY <2>3, <2>4
<1>5. CASE StopCapture \/ Read \/ (\E t \in Takes : Capture(t) \/ ArchiveFails(t)) \/ UNCHANGED vars
  <2>1. UNCHANGED <<english, translated, line, worker>>
    BY <1>5 DEF StopCapture, Read, Capture, ArchiveFails, vars, rows
  <2> QED  BY <1>2, <2>1, SameCounts
<1>6. CASE ClearCaptions \/ \E t \in Takes : Archive(t)
  <2>1. UNCHANGED line /\ MayStart
    BY <1>6 DEF ClearCaptions, Archive
  <2>2. <<"live", l>> \notin english'
    BY <1>6 DEF ClearCaptions, Archive
  <2> QED  BY <2>1, <2>2, QuietStart
<1>7. ASSUME NEW k \in Lines, LineStep(k)
      PROVE  /\ <<"archive", l>> \in english' => <<"live", l>> \notin english' /\ line'[l] # "saving"
             /\ line'[l] # "none" =>
                  Translations(<<"live", l>>)' = 0 /\ \A w \in Workers : worker'[w].pc = "idle"
  <2>1. UNCHANGED worker
    BY <1>7 DEF LineStep, SaveLine, Translate, KeepTranslation
  <2>2. CASE SaveLine(k)
    <3>1. /\ line[k] = "saving" /\ line' = [line EXCEPT ![k] = "translating"]
          /\ english' = english \cup {<<"live", k>>} /\ UNCHANGED translated
      BY <2>2 DEF SaveLine
    <3> QED  BY <1>2, <2>1, <3>1, SameCounts
  <2>3. CASE \E answer \in Answers : Translate(k, answer)
    <3>1. /\ UNCHANGED <<english, translated>>
          /\ line'[l] = line[l] \/ (line[l] # "none" /\ line'[l] # "saving")
      BY <1>2, <2>3 DEF Translate, rows
    <3> QED  BY <1>2, <2>1, <3>1, SameCounts
  <2>4. CASE KeepTranslation(k)
    <3>1. /\ line[k] = "keeping" /\ line' = [line EXCEPT ![k] = "none"]
          /\ UNCHANGED english /\ translated' = Kept(<<"live", k>>)
      BY <2>4 DEF KeepTranslation
    <3>2. CASE l = k
      BY <1>2, <2>1, <3>1, <3>2
    <3>3. CASE l # k
      <4>1. <<"live", k>> \in Ids /\ translated \in Seq(Ids) /\ <<"live", l>> # <<"live", k>>
        BY <3>3 DEF Ids, TypeOK
      <4>2. Translations(<<"live", l>>)' = Translations(<<"live", l>>)
        BY <1>2, <3>1, <4>1, KeptCounts
      <4> QED  BY <1>2, <2>1, <3>1, <3>3, <4>2
    <3> QED  BY <3>2, <3>3
  <2> QED  BY <1>7, <2>2, <2>3, <2>4 DEF LineStep
<1> QED  BY <1>2, <1>3, <1>4, <1>5, <1>6, <1>7 DEF Next

THEOREM SessionHolds == Spec => []SessionInv
<1>1. SessionInv /\ [Next]_vars => SessionInv'
  BY TypesStep, RootedStep, CountedStep, OneAtATimeStep DEF SessionInv, Session
<1> QED  BY <1>1, SessionInit, PTL DEF Spec

(* The types, with one job at most for the session and the language.       *)
THEOREM TranscriptTypeCorrect == Spec => []TypeOK
<1>1. SessionInv => TypeOK
  BY DEF SessionInv
<1> QED  BY <1>1, SessionHolds, PTL

(* "Keeping both would double every sentence in the export": whatever       *)
(* readers, workers, clears and archives do to each other.                 *)
THEOREM NoLineIsTwice == Spec => []NoLineTwice
<1>1. SessionInv => NoLineTwice
  <2> SUFFICES ASSUME SessionInv PROVE NoLineTwice
    OBVIOUS
  <2>1. ASSUME regime = "single", NEW l \in Lines PROVE ~({<<"live", l>>, <<"archive", l>>} \subseteq english)
    BY <2>1 DEF SessionInv, Session, OneAtATime
  <2> QED  BY <2>1 DEF NoLineTwice, SessionInv, Session, Rooted
<1> QED  BY <1>1, SessionHolds, PTL

-----------------------------------------------------------------------------
(* Gap fills, while the translations fit in what is read of them.          *)
LEMMA FillsAreKept ==
  ASSUME TypeOK, Counted, NEW i \in Ids, Translations(i) = 0
  PROVE  fills[i] = 0
<1>1. fills[i] \in Nat
  BY DEF TypeOK
<1>2. PICK l \in Lines : i = <<"live", l>> \/ i = <<"archive", l>>
  BY DEF Ids
<1>3. LineCounted(l)
  BY DEF Counted
<1> QED  BY <1>1, <1>2, <1>3 DEF LineCounted

(* What a job has read and what it takes for missing: rows that have no     *)
(* translation, or those it had found before.                              *)
LEMMA WorkersKnow ==
  ASSUME TypeOK, Alone, RowsFit, NEW w \in Workers, WorkerStep(w) \/ WorkerDies(w), NEW i \in Ids
  PROVE  /\ worker'[w].pc = "translated" /\ i \notin worker'[w].read =>
              Translations(i) = 0 /\ UNCHANGED <<translated, fills>>
         /\ worker'[w].pc = "filling" /\ i \in worker'[w].missing =>
              \/ /\ UNCHANGED <<translated, fills>>
                 /\ Translations(i) = 0 \/ (worker[w].pc = "translated" /\ i \notin worker[w].read)
              \/ worker[w].pc = "filling" /\ i \in worker[w].missing
<1>1. worker \in [Workers -> WorkerRecords] /\ translated \in Seq(Ids) /\ Window \in Nat
  BY TranscriptBounds DEF TypeOK, WorkerRecords
<1>2. ASSUME NEW first \in Queries, WorkerReads(w, first)
      PROVE  /\ worker'[w].pc # "filling"
             /\ worker'[w].pc = "translated" /\ i \notin worker'[w].read =>
                  Translations(i) = 0 /\ UNCHANGED <<translated, fills>>
  <2> DEFINE read == IF first = "english" THEN Newest(english, Window) ELSE NewestTranslated(Window)
  <2>1. worker' = [worker EXCEPT ![w] = [IdleWorker EXCEPT !.pc = first, !.read = read]] /\ UNCHANGED rows
    BY <1>2 DEF WorkerReads
  <2> HIDE DEF read
  <2>2. worker'[w].pc = first /\ worker'[w].read = read
    BY <1>1, <2>1 DEF IdleWorker
  <2>3. ASSUME first = "translated", i \notin read PROVE Translations(i) = 0
    BY <1>1, <2>3, AllAreRead DEF read
  <2> QED  BY <2>1, <2>2, <2>3 DEF Queries, rows
<1>3. CASE WorkerCompares(w)
  <2> DEFINE source == IF worker[w].pc = "english" THEN worker[w].read ELSE Newest(english, Window)
             existing == IF worker[w].pc = "english" THEN NewestTranslated(Window) ELSE worker[w].read
             missing == Newest(source \ existing, GapFillMax)
  <2>1. /\ UNCHANGED <<translated, fills>> /\ worker[w].pc \in Queries
        /\ worker' = [worker EXCEPT ![w] = [IdleWorker EXCEPT !.pc = "filling", !.missing = missing]]
    BY <1>3 DEF WorkerCompares, Queries, rows
  <2>2. missing \subseteq source \ existing
    BY ReadsAreRows
  <2>3. worker'[w].pc = "filling" /\ worker'[w].missing = missing
    <3> HIDE DEF missing
    <3> QED  BY <1>1, <2>1 DEF IdleWorker
  <2>4. ASSUME i \notin existing, worker[w].pc = "english" PROVE Translations(i) = 0
    BY <1>1, <2>4, AllAreRead
  <2>5. ASSUME i \notin existing, worker[w].pc = "translated" PROVE i \notin worker[w].read
    BY <2>5
  <2> HIDE DEF source, existing, missing
  <2> QED  BY <2>1, <2>2, <2>3, <2>4, <2>5 DEF Queries
<1>4. CASE WorkerFill(w)
  <2>1. PICK j \in Ids : worker[w].pc = "filling" /\ worker' = [worker EXCEPT ![w].missing = @ \ {j}]
    BY <1>4 DEF WorkerFill, WorkerFills
  <2>2. worker'[w].pc = "filling" /\ worker'[w].missing = worker[w].missing \ {j}
    BY <1>1, <2>1 DEF WorkerRecords
  <2> QED  BY <2>1, <2>2
<1>5. CASE WorkerEnds(w) \/ WorkerDies(w)
  <2>1. worker' = [worker EXCEPT ![w] = IdleWorker]
    BY <1>5 DEF WorkerEnds, WorkerDies
  <2>2. worker'[w].pc = "idle"
    BY <1>1, <2>1 DEF IdleWorker
  <2> QED  BY <2>2
<1> QED  BY <1>2, <1>3, <1>4, <1>5 DEF WorkerStep

LEMMA FilledStep ==
  ASSUME SessionInv, Filled, RowsFit, [Next]_vars
  PROVE  Filled'
<1> USE DEF SessionInv, Session
<1>1. /\ translated \in Seq(Ids) /\ fills \in [Ids -> Nat] /\ worker \in [Workers -> WorkerRecords]
  BY DEF TypeOK, WorkerRecords
<1>2. ASSUME NEW w \in Workers, WorkerStep(w) \/ WorkerDies(w) PROVE Filled'
  <2>1. \A v \in Workers \ {w} : worker'[v].pc = "idle"
    BY <1>2, WorkersStep
  <2>2. CASE UNCHANGED <<translated, fills>>
    <3> SUFFICES ASSUME NEW i \in Ids
                 PROVE  /\ fills[i] <= 1
                        /\ worker'[w].pc = "translated" /\ i \notin worker'[w].read => fills[i] = 0
                        /\ worker'[w].pc = "filling" /\ i \in worker'[w].missing => fills[i] = 0
      BY <2>1, <2>2 DEF Filled
    <3>1. Translations(i) = 0 => fills[i] = 0
      BY FillsAreKept
    <3> QED  BY <1>2, <3>1, WorkersKnow DEF Filled
  <2>3. CASE ~UNCHANGED <<translated, fills>>
    <3>1. PICK j \in Ids : /\ worker[w].pc = "filling" /\ j \in worker[w].missing
                           /\ worker' = [worker EXCEPT ![w].missing = @ \ {j}]
                           /\ fills' = [fills EXCEPT ![j] = @ + 1]
      BY <1>2, <2>3, WorkersRows
    <3>2. worker'[w].pc = "filling" /\ worker'[w].missing = worker[w].missing \ {j}
      BY <1>1, <3>1 DEF WorkerRecords
    <3>3. ASSUME NEW i \in Ids
          PROVE  fills'[i] <= 1 /\ (i \in worker'[w].missing => fills'[i] = 0)
      <4>1. CASE i = j
        <5>1. fills[i] = 0
          BY <3>1, <4>1 DEF Filled
        <5> QED  BY <1>1, <3>1, <3>2, <4>1, <5>1
      <4>2. CASE i # j
        <5>1. fills'[i] = fills[i] /\ fills[i] <= 1
          BY <1>1, <3>1, <4>2 DEF Filled
        <5> QED  BY <3>1, <3>2, <5>1 DEF Filled
      <4> QED  BY <4>1, <4>2
    <3> QED  BY <2>1, <3>2, <3>3 DEF Filled
  <2> QED  BY <2>2, <2>3
<1>3. CASE Say \/ StopCapture \/ Read \/ (\E t \in Takes : Capture(t) \/ ArchiveFails(t))
           \/ (\E l \in Lines : LineStep(l)) \/ UNCHANGED vars
  <2>1. UNCHANGED <<fills, worker>>
    BY <1>3 DEF Say, StopCapture, Read, Capture, ArchiveFails, vars, rows,
                LineStep, SaveLine, Translate, KeepTranslation
  <2> QED  BY <2>1 DEF Filled
<1>4. CASE ClearCaptions \/ \E t \in Takes : Archive(t)
  <2>1. UNCHANGED worker /\ fills' = [i \in Ids |-> 0]
    BY <1>4 DEF ClearCaptions, Archive
  <2> QED  BY <2>1 DEF Filled
<1> QED  BY <1>2, <1>3, <1>4 DEF Next

LEMMA FilledAloneStep ==
  ASSUME SessionInv, FilledAlone, RowsFit, [Next]_vars
  PROVE  FilledAlone'
<1> USE DEF SessionInv, Session
<1>1. /\ translated \in Seq(Ids) /\ worker \in [Workers -> WorkerRecords]
  BY DEF TypeOK, WorkerRecords
<1>2. UNCHANGED regime
  <2>1. ASSUME NEW w \in Workers, WorkerStep(w) \/ WorkerDies(w) PROVE UNCHANGED regime
    BY <2>1, WorkersRows
  <2> QED  BY <2>1 DEF Next, Capture, Archive, ArchiveFails, Say, StopCapture, Read, ClearCaptions,
                       LineStep, SaveLine, KeepTranslation, Translate, vars
<1> SUFFICES ASSUME regime = "single"
             PROVE  FilledAlone'
  BY <1>2 DEF FilledAlone
<1>3. ASSUME NEW w \in Workers, WorkerStep(w) \/ WorkerDies(w) PROVE FilledAlone'
  <2>1. \A v \in Workers \ {w} : worker'[v].pc = "idle"
    BY <1>3, WorkersStep
  <2>2. CASE UNCHANGED <<translated, fills>>
    <3>1. \A i : Translations(i)' = Translations(i)
      BY <2>2, SameCounts
    <3>2. ASSUME NEW i \in Ids
          PROVE  /\ Translations(i) <= 1
                 /\ worker'[w].pc = "translated" /\ i \notin worker'[w].read => Translations(i) = 0
                 /\ worker'[w].pc = "filling" /\ i \in worker'[w].missing => Translations(i) = 0
      BY <1>3, WorkersKnow DEF FilledAlone
    <3> QED  BY <2>1, <3>1, <3>2 DEF FilledAlone
  <2>3. CASE ~UNCHANGED <<translated, fills>>
    <3>1. PICK j \in Ids : /\ worker[w].pc = "filling" /\ j \in worker[w].missing
                           /\ worker' = [worker EXCEPT ![w].missing = @ \ {j}]
                           /\ translated' = Kept(j)
      BY <1>3, <2>3, WorkersRows
    <3>2. worker'[w].pc = "filling" /\ worker'[w].missing = worker[w].missing \ {j}
      BY <1>1, <3>1 DEF WorkerRecords
    <3>3. Translations(j) = 0
      BY <3>1 DEF FilledAlone
    <3>4. \A i \in Ids : Translations(i)' = IF i = j /\ j \in english THEN Translations(i) + 1 ELSE Translations(i)
      BY <1>1, <3>1, KeptCounts
    <3>5. ASSUME NEW i \in Ids
          PROVE  Translations(i)' <= 1 /\ (i \in worker'[w].missing => Translations(i)' = 0)
      <4>1. CASE i = j
        BY <3>2, <3>3, <3>4, <4>1
      <4>2. CASE i # j
        <5>1. Translations(i)' = Translations(i) /\ Translations(i) <= 1
          BY <3>4, <4>2 DEF FilledAlone
        <5> QED  BY <3>1, <3>2, <5>1 DEF FilledAlone
      <4> QED  BY <4>1, <4>2
    <3> QED  BY <2>1, <3>2, <3>5 DEF FilledAlone
  <2> QED  BY <2>2, <2>3
<1>4. CASE Say \/ StopCapture \/ Read \/ (\E t \in Takes : Capture(t) \/ ArchiveFails(t)) \/ UNCHANGED vars
  <2>1. UNCHANGED <<translated, worker>>
    BY <1>4 DEF Say, StopCapture, Read, Capture, ArchiveFails, vars, rows
  <2> QED  BY <2>1, SameCounts DEF FilledAlone
<1>5. ASSUME NEW l \in Lines, LineStep(l) PROVE FilledAlone'
  <2>1. CASE SaveLine(l) \/ \E answer \in Answers : Translate(l, answer)
    <3>1. UNCHANGED <<translated, worker>>
      BY <2>1 DEF SaveLine, Translate, rows
    <3> QED  BY <3>1, SameCounts DEF FilledAlone
  <2>2. CASE KeepTranslation(l)
    <3> DEFINE j == <<"live", l>>
    <3>1. line[l] # "none" /\ UNCHANGED worker /\ translated' = Kept(j) /\ j \in Ids
      BY <2>2 DEF KeepTranslation, Ids
    <3>2. Translations(j) = 0 /\ \A w \in Workers : worker[w].pc = "idle"
      BY <3>1 DEF OneAtATime
    <3> HIDE DEF j
    <3>3. \A i \in Ids : Translations(i)' = IF i = j /\ j \in english THEN Translations(i) + 1 ELSE Translations(i)
      BY <1>1, <3>1, KeptCounts
    <3>4. ASSUME NEW i \in Ids PROVE Translations(i)' <= 1
      <4>1. CASE i = j
        BY <3>2, <3>3, <4>1
      <4>2. CASE i # j
        BY <3>3, <4>2 DEF FilledAlone
      <4> QED  BY <4>1, <4>2
    <3> QED  BY <3>1, <3>2, <3>4 DEF FilledAlone
  <2> QED  BY <1>5, <2>1, <2>2 DEF LineStep
<1>6. CASE ClearCaptions \/ \E t \in Takes : Archive(t)
  <2>1. UNCHANGED worker /\ translated' = <<>>
    BY <1>6 DEF ClearCaptions, Archive
  <2>2. \A i : Translations(i)' = 0
    BY <2>1, NothingLeft
  <2> QED  BY <2>1, <2>2 DEF FilledAlone
<1> QED  BY <1>3, <1>4, <1>5, <1>6 DEF Next

LEMMA FillsAreOnce ==
  ASSUME SessionInv, Filled, FilledAlone
  PROVE  GapsAreFilledOnce
<1>1. ASSUME NEW i \in Ids
      PROVE  /\ fills[i] <= 1 /\ Translations(i) <= 2
             /\ Translations(i) = 2 => fills[i] = 1 /\ regime = "shared"
  <2>1. fills[i] \in Nat /\ fills[i] <= 1 /\ Translations(i) \in Nat /\ regime \in {"single", "shared"}
    BY NoTranslation, TranscriptSwitches DEF SessionInv, TypeOK, Filled
  <2>2. PICK l \in Lines : i = <<"live", l>> \/ i = <<"archive", l>>
    BY DEF Ids
  <2>3. Translations(i) <= fills[i] + 1
    <3>1. LineCounted(l)
      BY DEF SessionInv, Session, Counted
    <3> QED  BY <2>1, <2>2, <3>1 DEF LineCounted
  <2>4. regime = "single" => Translations(i) <= 1
    BY DEF FilledAlone
  <2> QED  BY <2>1, <2>3, <2>4
<1> QED  BY <1>1 DEF GapsAreFilledOnce

(* "One job per session and language at a time": while all that is          *)
(* translated fits in what a gap fill reads of it, whatever readers,       *)
(* workers, losses, clears and archives do to each other, a line is filled *)
(* once, and with one thing at a time it is translated once.               *)
THEOREM GapsFillOnce == Spec /\ []RowsFit => []GapsAreFilledOnce
<1>1. SessionInv /\ Filled /\ FilledAlone /\ RowsFit /\ [Next]_vars => Filled' /\ FilledAlone'
  BY FilledStep, FilledAloneStep
<1>2. SessionInv /\ Filled /\ FilledAlone => GapsAreFilledOnce
  BY FillsAreOnce
<1> QED  BY <1>1, <1>2, SessionInit, SessionHolds, PTL DEF Spec
=============================================================================
