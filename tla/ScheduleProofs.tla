--------------------------- MODULE ScheduleProofs ---------------------------
(***************************************************************************)
(* Proofs about the timelines of the rooms, for any number of sessions,     *)
(* rooms and operators: what clearRoom's walk makes of a room, and what an  *)
(* edit that pushed leaves behind.                                         *)
(***************************************************************************)
EXTENDS RoomSchedule, FiniteSetTheorems, TLAPS

(* A set of positions has a first one: the induction over a walk is a        *)
(* search for the first place where it goes wrong.                          *)
LEMMA FirstPosition ==
  ASSUME NEW P \in SUBSET Nat, P # {}
  PROVE  \E i \in P : \A j \in P : i <= j
<1>1. PICK i \in P : \A j \in P : ~(<<j, i>> \in OpToRel(<, Nat))
  BY NatLessThanWellFounded, WFMin
<1>2. \A j \in P : ~(j < i)
  BY <1>1 DEF OpToRel
<1> QED  BY <1>2

(* A row that stands pushed by d.                                           *)
Shifted(row, d) == [row EXCEPT !.start = @ + d, !.end = @ + d]

(* When t starts and ends once a plan is in.                                *)
StartIn(plan, t) == IF t \in DOMAIN plan THEN plan[t].start ELSE programme[t].start
EndIn(plan, t) == IF t \in DOMAIN plan THEN plan[t].end ELSE programme[t].end

ProgrammeIsSane ==
  /\ programme \in [Sessions -> Rows \cup {None}]
  /\ \A t \in Sessions : programme[t] # None => Sane(programme[t])

(* What a plan does to the room of row, for the session s that takes it.     *)
Fits(plan, row, s) ==
  LET later == Following(row, s) IN
  /\ ~EarlierInTheWay(row, s)
  /\ DOMAIN plan \subseteq later
  /\ \A t \in DOMAIN plan : \E d \in 1..Latest : plan[t] = Shifted(programme[t], d)
  /\ \A t \in later : row.end <= StartIn(plan, t)
  /\ \A t, u \in later : t # u => EndIn(plan, t) <= StartIn(plan, u) \/ EndIn(plan, u) <= StartIn(plan, t)
  /\ \A t \in DOMAIN plan : \/ StartIn(plan, t) = row.end
                            \/ \E u \in later \ {t} : EndIn(plan, u) = StartIn(plan, t)
  /\ \A t \in DOMAIN plan, u \in later :
       programme[u].start > programme[t].start => StartIn(plan, t) <= StartIn(plan, u)

(* An order of a finite set passes each of its members.                     *)
LEMMA OrderPassesAll ==
  ASSUME NEW S, IsFiniteSet(S), NEW q \in SetToSeqs(S)
  PROVE  /\ Cardinality(S) \in Nat /\ q \in [1..Cardinality(S) -> S]
         /\ \A i, j \in 1..Cardinality(S) : i # j => q[i] # q[j]
         /\ \A t \in S : \E i \in 1..Cardinality(S) : q[i] = t
<1> DEFINE D == 1..Cardinality(S)
<1>1. q \in [D -> S] /\ \A i, j \in D : i # j => q[i] # q[j]
  BY DEF SetToSeqs
<1>2. Cardinality(S) \in Nat
  BY FS_CardinalityType
<1>3. Cardinality(D) = Cardinality(S)
  BY <1>2, FS_Interval
<1>4. q \in Injection(D, S)
  BY <1>1 DEF Injection, IsInjective
<1>5. q \in Surjection(D, S)
  BY <1>3, <1>4, FS_Injection
<1> QED  BY <1>1, <1>2, <1>5 DEF Surjection

(* The walk: each session it passes starts no earlier than all before it     *)
(* end, and a pushed one starts just then.                                   *)
LEMMA WalkFits ==
  ASSUME ProgrammeIsSane, NEW row \in Rows, Sane(row), NEW s \in Sessions,
         NEW plan \in Plans(row, s), ~EarlierInTheWay(row, s)
  PROVE  Fits(plan, row, s)
<1> DEFINE L == Following(row, s)
           n == Cardinality(L)
<1>1. L \subseteq Sessions /\ \A t \in L : programme[t] \in Rows /\ Sane(programme[t])
  BY DEF Following, Others, ProgrammeIsSane
<1>2. IsFiniteSet(L)
  BY <1>1, SessionsAreFew, FS_Subset
<1>q. PICK q \in ByStart(L) : \E late \in Walks(row, q) : plan = Pushed(late)
  BY DEF Plans
<1>3. PICK late \in Walks(row, q) : plan = Pushed(late)
  BY <1>q
<1>4. /\ n \in Nat /\ q \in [1..n -> L] /\ \A i, j \in 1..n : i # j => q[i] # q[j]
      /\ \A t \in L : \E i \in 1..n : q[i] = t
  BY <1>2, <1>q, OrderPassesAll DEF ByStart
<1>5. \A i, j \in 1..n : i < j => programme[q[i]].start <= programme[q[j]].start
  BY <1>q, <1>4 DEF ByStart
<1>6. Range(q) = L /\ DOMAIN q = 1..n
  BY <1>4 DEF Range
<1>7. late \in [L -> Nat] /\ \A i \in 1..n : late[q[i]] = Delta(q[i], PrevEnd(row, q, late, i))
  BY <1>3, <1>6, TimesAreInstants DEF Walks
<1> HIDE DEF L, n
<1> DEFINE b(t) == programme[t].start + late[t]
           e(t) == programme[t].end + late[t]
<1>8. \A t \in L : /\ programme[t].start \in Nat /\ programme[t].end \in Nat
                   /\ programme[t].start <= programme[t].end
  BY <1>1 DEF Rows, Sane
<1>9. row.end \in Nat /\ row.start \in Nat /\ row.start <= row.end
  BY DEF Rows, Sane
<1>10. \A t \in L : late[t] \in Nat /\ b(t) \in Nat /\ e(t) \in Nat /\ b(t) <= e(t)
  BY <1>7, <1>8
(* Just past the one before it, unless it starts later on its own.          *)
<1>11. \A i \in 1..n : LET p == PrevEnd(row, q, late, i) IN
         p \in Nat /\ p <= b(q[i]) /\ (late[q[i]] > 0 => b(q[i]) = p)
  <2> TAKE i \in 1..n
  <2>1. q[i] \in L /\ (i # 1 => i - 1 \in 1..n /\ q[i - 1] \in L)
    BY <1>4
  <2>2. PrevEnd(row, q, late, i) = IF i = 1 THEN row.end ELSE e(q[i - 1])
    BY DEF PrevEnd
  <2>3. PrevEnd(row, q, late, i) \in Nat
    BY <2>1, <2>2, <1>9, <1>10
  <2> QED  BY <2>1, <2>3, <1>7, <1>8 DEF Delta
<1>12. \A i \in 1..n : PrevEnd(row, q, late, i) = IF i = 1 THEN row.end ELSE e(q[i - 1])
  BY DEF PrevEnd
(* No session starts before the edited one ends.                            *)
<1>13. \A i \in 1..n : row.end <= b(q[i])
  <2> SUFFICES ASSUME NEW k \in 1..n, ~(row.end <= b(q[k])) PROVE FALSE
    OBVIOUS
  <2> DEFINE P == {i \in 1..n : ~(row.end <= b(q[i]))}
  <2>1. P \in SUBSET Nat /\ P # {}
    BY <1>4
  <2>2. PICK i \in P : \A j \in P : i <= j
    BY <2>1, FirstPosition
  <2>3. i \in 1..n /\ q[i] \in L
    BY <1>4
  <2>4. i # 1
    BY <2>3, <1>11, <1>12
  <2>5. i - 1 \in 1..n /\ q[i - 1] \in L /\ i - 1 \notin P
    BY <2>2, <2>3, <2>4, <1>4
  <2>6. row.end <= b(q[i - 1])
    BY <2>5
  <2>7. e(q[i - 1]) <= b(q[i])
    BY <2>3, <2>4, <1>11, <1>12
  <2> QED  BY <2>2, <2>3, <2>5, <2>6, <2>7, <1>9, <1>10
(* Nor before any that comes earlier in the walk ends.                       *)
<1>14. \A k, m \in 1..n : k < m => e(q[k]) <= b(q[m])
  <2> SUFFICES ASSUME NEW k \in 1..n, NEW m \in 1..n, k < m, ~(e(q[k]) <= b(q[m])) PROVE FALSE
    OBVIOUS
  <2> DEFINE P == {i \in 1..n : k < i /\ ~(e(q[k]) <= b(q[i]))}
  <2>1. P \in SUBSET Nat /\ P # {}
    BY <1>4
  <2>2. PICK i \in P : \A j \in P : i <= j
    BY <2>1, FirstPosition
  <2>3. i \in 1..n /\ k < i /\ q[i] \in L /\ q[k] \in L
    BY <1>4
  <2>4. i - 1 \in 1..n /\ q[i - 1] \in L /\ i - 1 \notin P /\ i # 1
    BY <2>2, <2>3, <1>4
  <2>5. e(q[i - 1]) <= b(q[i])
    BY <2>3, <2>4, <1>11, <1>12
  <2>6. CASE i - 1 = k
    BY <2>2, <2>5, <2>6
  <2>7. CASE i - 1 # k
    <3>1. e(q[k]) <= b(q[i - 1])
      BY <2>3, <2>4, <2>7
    <3> QED  BY <2>2, <2>3, <2>4, <2>5, <3>1, <1>10
  <2> QED  BY <2>6, <2>7
<1>15. /\ DOMAIN plan \subseteq L
       /\ \A t \in L : t \in DOMAIN plan <=> late[t] > 0
       /\ \A t \in DOMAIN plan : plan[t] = Shifted(programme[t], late[t])
  BY <1>3, <1>7 DEF Pushed, Shifted
<1>16. \A t \in L : StartIn(plan, t) = b(t) /\ EndIn(plan, t) = e(t)
  <2> TAKE t \in L
  <2>1. CASE t \in DOMAIN plan
    <3>1. programme[t] \in Rows
      BY <1>1 DEF L
    <3> QED  BY <2>1, <3>1, <1>15 DEF StartIn, EndIn, Shifted, Rows
  <2>2. CASE t \notin DOMAIN plan
    BY <2>2, <1>8, <1>10, <1>15 DEF StartIn, EndIn
  <2> QED  BY <2>1, <2>2
<1>17. \A t \in DOMAIN plan : \E d \in 1..Latest : plan[t] = Shifted(programme[t], d)
  <2> TAKE t \in DOMAIN plan
  <2>1. late[t] \in 0..Latest /\ late[t] > 0
    BY <1>3, <1>6, <1>15 DEF Walks
  <2> QED  BY <2>1, <1>15, TimesAreInstants
<1>18. \A t \in L : row.end <= StartIn(plan, t)
  BY <1>4, <1>13, <1>16
<1>19. \A t, u \in L : t # u => EndIn(plan, t) <= StartIn(plan, u) \/ EndIn(plan, u) <= StartIn(plan, t)
  <2> TAKE t, u \in L
  <2>1. PICK k \in 1..n : q[k] = t
    BY <1>4
  <2>2. PICK m \in 1..n : q[m] = u
    BY <1>4
  <2>3. t # u => k < m \/ m < k
    BY <2>1, <2>2
  <2> QED  BY <2>1, <2>2, <2>3, <1>14, <1>16
<1>20. \A t \in DOMAIN plan : \/ StartIn(plan, t) = row.end
                              \/ \E u \in L \ {t} : EndIn(plan, u) = StartIn(plan, t)
  <2> TAKE t \in DOMAIN plan
  <2>1. t \in L /\ late[t] > 0
    BY <1>15
  <2>2. PICK i \in 1..n : q[i] = t
    BY <2>1, <1>4
  <2>3. b(t) = IF i = 1 THEN row.end ELSE e(q[i - 1])
    BY <2>1, <2>2, <1>11, <1>12
  <2>4. CASE i = 1
    BY <2>1, <2>3, <2>4, <1>16
  <2>5. CASE i # 1
    <3>1. i - 1 \in 1..n /\ i - 1 # i
      BY <2>5, <1>4
    <3>2. q[i - 1] \in L \ {t}
      BY <2>2, <3>1, <1>4
    <3> QED  BY <2>1, <2>3, <2>5, <3>2, <1>16
  <2> QED  BY <2>4, <2>5
<1>21. \A t \in DOMAIN plan, u \in L :
         programme[u].start > programme[t].start => StartIn(plan, t) <= StartIn(plan, u)
  <2> TAKE t \in DOMAIN plan, u \in L
  <2> HAVE programme[u].start > programme[t].start
  <2>1. t \in L
    BY <1>15
  <2>2. PICK k \in 1..n : q[k] = t
    BY <2>1, <1>4
  <2>3. PICK m \in 1..n : q[m] = u
    BY <1>4
  <2>4. k < m
    <3>1. ~(m < k)
      BY <2>1, <2>2, <2>3, <1>5, <1>8
    <3>2. m # k
      BY <2>1, <2>2, <2>3, <1>8
    <3> QED  BY <3>1, <3>2
  <2>5. e(t) <= b(u)
    BY <2>2, <2>3, <2>4, <1>14
  <2> QED  BY <2>1, <2>5, <1>10, <1>16
<1> QED  BY <1>15, <1>17, <1>18, <1>19, <1>20, <1>21 DEF Fits, L

-----------------------------------------------------------------------------
(* The invariant.  Where requests take turns, what one has read of its room  *)
(* stands until it is done: the plan it holds fits, and goes on fitting      *)
(* when the edited session takes its place.                                 *)
Busy(a) == req[a].pc # "idle"
Writes == {"clearing", "saving", "pushing", "announcing", "saveStatus"}

RowsAreSane ==
  /\ ProgrammeIsSane
  /\ \A a \in Admins : /\ req[a].pc \in Writes => Sane(req[a].row)
                       /\ \A t \in DOMAIN req[a].plan : Sane(req[a].plan[t])

(* The room of an edit that is in, as RoomIsCleared wants it.                *)
Cleared(s, row) ==
  LET room == Others(row, s)
      later == {t \in room : programme[t].start >= programme[s].start}
  IN  /\ \A t \in room : ~Overlap(s, t)
      /\ \A t, u \in later : t # u => ~Overlap(t, u)

Stands(a) ==
  LET x == req[a] IN
  /\ x.pc \in {"saving", "pushing"} =>
       IF x.placed THEN Fits(x.plan, x.row, x.session) /\ (x.plan # NoPlan => x.push)
       ELSE x.pc = "saving" /\ x.plan = NoPlan
  /\ x.pc = "clearing" => x.placed
  /\ x.pc = "pushing" => programme[x.session] = x.row
  /\ x.pc = "announcing" /\ x.placed => Cleared(x.session, x.row)

Standing ==
  OneDesk => /\ \A a, b \in Admins : Busy(a) /\ Busy(b) => a = b
             /\ \A a \in Admins : Stands(a)

ScheduleInv == TypeOK /\ RowsAreSane /\ Standing

-----------------------------------------------------------------------------
(* Types.                                                                   *)
PlansToMove == UNION {[S -> Rows] : S \in SUBSET Sessions}

(* What a slot that is at work holds.                                       *)
Holds(x) ==
  /\ x.pc # "idle" => x.session # None
  /\ x.pc \in Writes => x.row # None
  /\ x.pc = "status" => x.status # None

LEMMA NothingToMove == NoPlan \in PlansToMove /\ DOMAIN NoPlan = {}
  BY DEF NoPlan, PlansToMove

LEMMA IdleIsARequest == Idle \in Requests /\ Holds(Idle)
  BY NothingToMove DEF Idle, Requests, PlansToMove, Holds, Writes

LEMMA SlotType ==
  ASSUME TypeOK, NEW a \in Admins, NEW slot \in Requests, Holds(slot), ReqTo(a, slot),
         programme' \in [Sessions -> Rows \cup {None}]
  PROVE  TypeOK'
<1>1. req' \in [Admins -> Requests] /\ \A b \in Admins : req'[b] = IF b = a THEN slot ELSE req[b]
  BY DEF TypeOK, ReqTo
<1> QED  BY <1>1 DEF TypeOK, ReqTo, Holds, Writes

LEMMA RowShape ==
  ASSUME NEW row \in Rows
  PROVE  /\ row.room \in Rooms /\ row.status \in Statuses /\ row.start \in 0..Latest /\ row.end \in 0..Latest
         /\ row # None
<1>1. row = [room |-> row.room, start |-> row.start, end |-> row.end, status |-> row.status]
  BY DEF Rows
<1> QED  BY <1>1, NoneIsNoPlace DEF Rows

LEMMA EditedRow ==
  ASSUME NEW row \in Rows, NEW room \in Rooms \cup {None}, NEW start \in Times \cup {None}, NEW end \in Times \cup {None}
  PROVE  Edited(row, room, start, end) \in Rows
<1>1. Times \subseteq 0..Latest /\ None \notin 0..Latest /\ None \notin Rooms
  BY TimesAreInstants, NoSession
<1>2. /\ Sent(room, row.room) \in Rooms
      /\ Sent(start, row.start) \in 0..Latest /\ Sent(end, row.end) \in 0..Latest
  BY <1>1, RowShape DEF Sent
<1> QED  BY <1>2 DEF Edited, Rows

LEMMA PlanType ==
  ASSUME ProgrammeIsSane, NEW row, NEW s, NEW plan \in Plans(row, s),
         \A t \in DOMAIN plan : plan[t].end \in 0..Latest /\ plan[t].start <= Latest
  PROVE  /\ plan \in PlansToMove
         /\ \A t \in DOMAIN plan : t \in Sessions /\ Sane(plan[t])
<1> DEFINE L == Following(row, s)
<1>1. PICK q \in ByStart(L) : \E late \in Walks(row, q) : plan = Pushed(late)
  BY DEF Plans
<1>2. PICK late \in Walks(row, q) : plan = Pushed(late)
  BY <1>1
<1>3. L \subseteq Sessions /\ \A t \in L : programme[t] \in Rows /\ Sane(programme[t])
  BY DEF Following, Others, ProgrammeIsSane
<1>4. IsFiniteSet(L)
  BY <1>3, SessionsAreFew, FS_Subset
<1>5. \A i \in DOMAIN q : q[i] \in L
  BY <1>1, <1>4, OrderPassesAll DEF ByStart
<1> HIDE DEF L
<1>6. late \in [Range(q) -> 0..Latest] /\ Range(q) \subseteq L
  BY <1>2, <1>5 DEF Walks, Range
<1>7. ASSUME NEW t \in DOMAIN plan PROVE t \in L /\ plan[t] \in Rows /\ Sane(plan[t])
  <2>t. t \in DOMAIN late /\ plan[t] = Shifted(programme[t], late[t])
    BY <1>2, <1>7 DEF Pushed, Shifted
  <2>1. t \in L /\ late[t] \in Nat /\ plan[t] = Shifted(programme[t], late[t])
    BY <2>t, <1>6, TimesAreInstants
  <2>2. /\ programme[t] \in Rows /\ programme[t].start <= programme[t].end
        /\ programme[t].start \in Nat /\ programme[t].end \in Nat
    BY <2>1, <1>3, RowShape, TimesAreInstants DEF Sane
  <2>3. plan[t] = [programme[t] EXCEPT !.start = programme[t].start + late[t], !.end = programme[t].end + late[t]]
    BY <2>1 DEF Shifted
  <2>4. plan[t].start = programme[t].start + late[t] /\ plan[t].end = programme[t].end + late[t]
    BY <2>2, <2>3 DEF Rows
  <2>5. plan[t].start \in 0..Latest /\ plan[t].end \in 0..Latest /\ Sane(plan[t])
    BY <1>7, <2>1, <2>2, <2>4, TimesAreInstants DEF Sane
  <2> QED  BY <2>1, <2>2, <2>3, <2>4, <2>5 DEF Rows
<1>8. plan \in [DOMAIN plan -> Rows]
  BY <1>2, <1>7 DEF Pushed
<1> QED  BY <1>3, <1>7, <1>8 DEF PlansToMove

-----------------------------------------------------------------------------
(* Steps.  A request that moves from await to await keeps the invariant if   *)
(* its own slot does: where requests take turns no other is at work.         *)
LEMMA SlotMoves ==
  ASSUME ScheduleInv, NEW a \in Admins, NEW slot \in Requests, Holds(slot), ReqTo(a, slot), ProgrammeIsSane',
         slot.pc \in Writes => Sane(slot.row), \A t \in DOMAIN slot.plan : Sane(slot.plan[t]),
         OneDesk => Busy(a) \/ \A b \in Admins : ~Busy(b),
         OneDesk => Stands(a)'
  PROVE  ScheduleInv'
<1>1. req' \in [Admins -> Requests] /\ \A b \in Admins : req'[b] = IF b = a THEN slot ELSE req[b]
  BY DEF ScheduleInv, TypeOK, ReqTo
<1>2. TypeOK'
  BY SlotType DEF ScheduleInv, ProgrammeIsSane
<1>3. RowsAreSane'
  BY <1>1 DEF ScheduleInv, RowsAreSane
<1>4. Standing'
  <2> SUFFICES ASSUME OneDesk'
               PROVE  (\A b, c \in Admins : Busy(b) /\ Busy(c) => b = c)' /\ \A b \in Admins : Stands(b)'
    BY DEF Standing
  <2>1. OneDesk
    BY DEF OneDesk, ReqTo
  <2>2. \A b \in Admins \ {a} : ~Busy(b)
    BY <2>1 DEF ScheduleInv, Standing
  <2>3. \A b \in Admins \ {a} : req'[b] = req[b] /\ req[b].pc = "idle"
    BY <1>1, <2>2 DEF Busy
  <2>4. \A b \in Admins \ {a} : Stands(b)'
    BY <2>3 DEF Stands
  <2> QED  BY <2>1, <2>3, <2>4 DEF Busy
<1> QED  BY <1>2, <1>3, <1>4 DEF ScheduleInv

LEMMA Begins ==
  ASSUME ScheduleInv, NEW a \in Admins, NEW slot \in Requests, Holds(slot), Begin(a, slot),
         slot.pc \in {"clearing", "saving", "status", "removing"}, slot.plan = NoPlan,
         slot.pc = "saving" => ~slot.placed, slot.pc = "clearing" => slot.placed, slot.pc \in Writes => Sane(slot.row)
  PROVE  ScheduleInv'
<1>1. ReqTo(a, slot) /\ programme' = programme /\ (OneDesk => \A b \in Admins : ~Busy(b))
  BY DEF Begin, MayBegin, OneDesk, Busy
<1>2. ProgrammeIsSane'
  BY <1>1 DEF ProgrammeIsSane, ScheduleInv, RowsAreSane
<1>3. req'[a] = slot
  BY <1>1 DEF ScheduleInv, TypeOK, ReqTo
<1>4. Stands(a)'
  BY <1>3 DEF Stands
<1> QED  BY <1>1, <1>2, <1>4, SlotMoves, NothingToMove

(* A plan is about the other sessions only: the edited one takes its place   *)
(* and the plan fits on.                                                    *)
LEMMA FitsFrame ==
  ASSUME NEW plan, NEW row, NEW s, Fits(plan, row, s),
         \A t \in Sessions \ {s} : programme'[t] = programme[t]
  PROVE  Fits(plan, row, s)'
<1>1. Others(row, s)' = Others(row, s)
  BY DEF Others
<1>2. \A t \in Others(row, s) : programme'[t] = programme[t]
  BY DEF Others
<1>3. Following(row, s)' = Following(row, s) /\ Following(row, s) \subseteq Others(row, s)
  BY <1>1, <1>2 DEF Following
<1>4. \A t \in Following(row, s) : StartIn(plan, t)' = StartIn(plan, t) /\ EndIn(plan, t)' = EndIn(plan, t)
  BY <1>2, <1>3 DEF StartIn, EndIn
<1>5. ~EarlierInTheWay(row, s)'
  BY <1>1, <1>2 DEF EarlierInTheWay, Fits
<1>6. DOMAIN plan \subseteq Following(row, s)
  BY DEF Fits
<1>7. \A t \in DOMAIN plan : \E d \in 1..Latest : plan[t] = Shifted(programme'[t], d)
  BY <1>2, <1>3, <1>6 DEF Fits
<1>8. \A t \in DOMAIN plan : \/ StartIn(plan, t)' = row.end
                             \/ \E u \in Following(row, s) \ {t} : EndIn(plan, u)' = StartIn(plan, t)'
  BY <1>4, <1>6 DEF Fits
<1>9. \A t \in DOMAIN plan, u \in Following(row, s) :
        programme'[u].start > programme'[t].start => StartIn(plan, t)' <= StartIn(plan, u)'
  BY <1>2, <1>3, <1>4, <1>6 DEF Fits
<1>10. /\ \A t \in Following(row, s) : row.end <= StartIn(plan, t)'
       /\ \A t, u \in Following(row, s) :
            t # u => EndIn(plan, t)' <= StartIn(plan, u)' \/ EndIn(plan, u)' <= StartIn(plan, t)'
  BY <1>4 DEF Fits
<1> QED  BY <1>3, <1>5, <1>6, <1>7, <1>8, <1>9, <1>10 DEF Fits

(* What a session pushed by d is.                                           *)
LEMMA ShiftedRow ==
  ASSUME NEW row \in Rows, NEW d \in Nat
  PROVE  /\ Shifted(row, d).room = row.room /\ Shifted(row, d).status = row.status
         /\ Shifted(row, d).start = row.start + d /\ Shifted(row, d).end = row.end + d
  BY DEF Shifted, Rows

(* With the plan in, the room holds one session at a time from the edited    *)
(* one on, and nothing runs into it.                                        *)
LEMMA FitsClears ==
  ASSUME ProgrammeIsSane, NEW row \in Rows, Sane(row), NEW s \in Sessions, NEW plan \in PlansToMove,
         Fits(plan, row, s), programme'[s] = row,
         \A t \in Sessions \ {s} : programme'[t] = IF t \in DOMAIN plan THEN plan[t] ELSE programme[t]
  PROVE  Cleared(s, row)'
<1> DEFINE R == Others(row, s)
           L == Following(row, s)
<1>1. R \subseteq Sessions \ {s} /\ L \subseteq R /\ DOMAIN plan \subseteq L
  BY DEF Others, Following, Fits
<1>2. \A t \in DOMAIN plan : plan[t] \in Rows
  BY DEF PlansToMove
<1>3. ASSUME NEW t \in DOMAIN plan PROVE plan[t].room = programme[t].room /\ plan[t].status = programme[t].status
  <2>1. PICK d \in 1..Latest : plan[t] = Shifted(programme[t], d)
    BY DEF Fits
  <2>2. programme[t] \in Rows
    BY <1>1 DEF Others, ProgrammeIsSane
  <2> QED  BY <2>1, <2>2, ShiftedRow, TimesAreInstants
<1>4. R' = R
  <2>1. \A t \in Sessions \ {s} : (programme'[t] # None /\ programme'[t].room = row.room /\ programme'[t].status # "completed")
                               <=> (programme[t] # None /\ programme[t].room = row.room /\ programme[t].status # "completed")
    <3> TAKE t \in Sessions \ {s}
    <3>1. CASE t \in DOMAIN plan
      <4>1. plan[t] # None /\ programme[t] # None
        BY <3>1, <1>1, <1>2, NoneIsNoPlace DEF Others
      <4> QED  BY <3>1, <4>1, <1>3
    <3>2. CASE t \notin DOMAIN plan
      BY <3>2
    <3> QED  BY <3>1, <3>2
  <2> QED  BY <2>1 DEF Others
<1>5. \A t \in R : programme'[t].start = StartIn(plan, t) /\ programme'[t].end = EndIn(plan, t)
  BY <1>1 DEF StartIn, EndIn
<1>6. \A t \in R : programme'[t] \in Rows
  <2>1. \A t \in R : programme[t] \in Rows
    BY DEF Others, ProgrammeIsSane
  <2> QED  BY <2>1, <1>1, <1>2
<1>7. \A t \in R : programme'[t].start \in Nat /\ programme'[t].end \in Nat /\ row.start \in Nat /\ row.end \in Nat
  BY <1>6, RowShape, TimesAreInstants
(* What starts before the edited session ends before it, and has not moved.  *)
<1>8. \A t \in R \ L : programme'[t].start < row.start /\ programme'[t].end <= row.start
  <2> TAKE t \in R \ L
  <2>1. programme'[t] = programme[t]
    BY <1>1
  <2>2. ~(programme[t].start >= row.start)
    BY DEF Following
  <2>3. ~(programme[t].start < row.start /\ programme[t].end > row.start)
    BY DEF Fits, EarlierInTheWay
  <2> QED  BY <2>1, <2>2, <2>3, <1>7
<1>9. \A t \in L : row.end <= programme'[t].start
  BY <1>1, <1>5 DEF Fits
<1>10. \A t, u \in L : t # u => \/ programme'[t].end <= programme'[u].start
                               \/ programme'[u].end <= programme'[t].start
  BY <1>1, <1>5 DEF Fits
<1> HIDE DEF R, L
<1>11. \A t \in R : ~Overlap(s, t)'
  <2> TAKE t \in R
  <2>1. CASE t \in L
    BY <2>1, <1>7, <1>9 DEF Overlap
  <2>2. CASE t \notin L
    BY <2>2, <1>7, <1>8 DEF Overlap
  <2> QED  BY <2>1, <2>2
<1>12. \A t \in R : programme'[t].start >= programme'[s].start => t \in L
  BY <1>7, <1>8
<1>13. \A t, u \in L : t # u => ~Overlap(t, u)'
  BY <1>1, <1>7, <1>10 DEF Overlap
<1> QED  BY <1>4, <1>11, <1>12, <1>13 DEF Cleared, R

-----------------------------------------------------------------------------
(* Every action.                                                            *)
LEMMA CreateKeeps ==
  ASSUME ScheduleInv, NEW s \in Sessions, NEW row \in [room : Rooms, start : Times, end : Times, status : Statuses],
         Create(s, row)
  PROVE  ScheduleInv'
<1>1. row \in Rows /\ Sane(row)
  BY TimesAreInstants DEF Rows, Create
<1>2. ProgrammeIsSane'
  BY <1>1 DEF Create, ScheduleInv, RowsAreSane, ProgrammeIsSane
<1>3. TypeOK'
  BY <1>2 DEF Create, ScheduleInv, TypeOK, ProgrammeIsSane
<1>4. RowsAreSane'
  BY <1>2 DEF Create, ScheduleInv, RowsAreSane
<1>5. OneDesk => \A a \in Admins : req[a].pc = "idle"
  BY DEF Create, MayBegin, OneDesk
<1>6. Standing'
  BY <1>5 DEF Create, Standing, Stands, OneDesk, Busy
<1> QED  BY <1>3, <1>4, <1>6 DEF ScheduleInv

LEMMA ReadsKeep ==
  ASSUME ScheduleInv, NEW a \in Admins, NEW s \in Sessions,
         \/ \E room \in Rooms \cup {None}, start, end \in Times \cup {None} : UpdateRead(a, s, room, start, end)
         \/ \E status \in Statuses : SetStatus(a, s, status)
         \/ RemoveRead(a, s)
  PROVE  ScheduleInv'
<1>1. s # None /\ None \notin Statuses
  BY NoSession
<1>2. ASSUME NEW room \in Rooms \cup {None}, NEW start \in Times \cup {None}, NEW end \in Times \cup {None},
             UpdateRead(a, s, room, start, end)
      PROVE  ScheduleInv'
  <2> DEFINE placed == <<room, start, end>> # <<None, None, None>>
             row == Edited(programme[s], room, start, end)
             slot == [Idle EXCEPT !.pc = IF placed THEN "clearing" ELSE "saving", !.session = s, !.placed = placed, !.row = row]
  <2>1. Begin(a, slot) /\ Sane(row) /\ programme[s] \in Rows
    BY <1>2 DEF UpdateRead, ScheduleInv, TypeOK
  <2>2. row \in Rows /\ row # None
    BY <2>1, EditedRow, RowShape
  <2>3. placed \in BOOLEAN
    OBVIOUS
  <2> HIDE DEF placed, row
  <2>4. /\ slot \in Requests /\ slot.pc \in {"clearing", "saving"} /\ (slot.pc = "saving" <=> ~slot.placed)
        /\ slot.session = s /\ slot.row = row /\ slot.plan = NoPlan
    BY <2>2, <2>3, IdleIsARequest DEF Idle, Requests
  <2> HIDE DEF slot
  <2> QED  BY <2>1, <2>2, <2>4, <1>1, Begins DEF Holds
<1>3. ASSUME NEW status \in Statuses, SetStatus(a, s, status) PROVE ScheduleInv'
  <2> DEFINE slot == [Idle EXCEPT !.pc = "status", !.session = s, !.status = status]
  <2>1. /\ slot \in Requests /\ slot.pc = "status" /\ slot.session = s /\ slot.status = status
        /\ slot.plan = NoPlan
    BY IdleIsARequest DEF Idle, Requests
  <2>2. Begin(a, slot)
    BY <1>3 DEF SetStatus
  <2> HIDE DEF slot
  <2> QED  BY <2>1, <2>2, <1>1, Begins DEF Holds, Writes
<1>4. ASSUME RemoveRead(a, s) PROVE ScheduleInv'
  <2> DEFINE slot == [Idle EXCEPT !.pc = "removing", !.session = s]
  <2>1. slot \in Requests /\ slot.pc = "removing" /\ slot.session = s /\ slot.plan = NoPlan
    BY IdleIsARequest DEF Idle, Requests
  <2>2. Begin(a, slot)
    BY <1>4 DEF RemoveRead
  <2> HIDE DEF slot
  <2> QED  BY <2>1, <2>2, <1>1, Begins DEF Holds, Writes
<1> QED  BY <1>2, <1>3, <1>4

(* A slot that is at work, and what is known of it.                         *)
LEMMA AtWork ==
  ASSUME ScheduleInv, NEW a \in Admins, req[a].pc # "idle"
  PROVE  /\ req[a] \in Requests /\ Busy(a) /\ req[a].session \in Sessions /\ ProgrammeIsSane
         /\ req[a].pc \in Writes => req[a].row \in Rows /\ Sane(req[a].row)
         /\ req[a].plan \in PlansToMove /\ \A t \in DOMAIN req[a].plan : Sane(req[a].plan[t])
         /\ OneDesk => Stands(a)
<1>1. req[a] \in Requests
  BY DEF ScheduleInv, TypeOK
<1>2. /\ req[a].session \in Sessions \cup {None} /\ req[a].row \in Rows \cup {None}
      /\ req[a].plan \in PlansToMove
  BY <1>1 DEF Requests, PlansToMove
<1> QED  BY <1>1, <1>2 DEF ScheduleInv, TypeOK, RowsAreSane, Standing, Busy, Writes

(* A slot goes back to idle, or is refused.                                  *)
LEMMA Rests ==
  ASSUME ScheduleInv, NEW a \in Admins, Busy(a), ReqTo(a, Idle), ProgrammeIsSane'
  PROVE  ScheduleInv'
<1>1. req'[a] = Idle /\ Idle.pc = "idle" /\ Idle.plan = NoPlan
  BY DEF ScheduleInv, TypeOK, ReqTo, Idle
<1>2. Stands(a)'
  BY <1>1 DEF Stands
<1> QED  BY <1>1, <1>2, SlotMoves, IdleIsARequest, NothingToMove DEF Writes

LEMMA ClearKeeps ==
  ASSUME ScheduleInv, NEW a \in Admins, NEW push \in BOOLEAN, UpdateClear(a, push)
  PROVE  ScheduleInv'
<1>1. PICK x : x = req[a]
  OBVIOUS
<1>2. /\ x \in Requests /\ x.pc = "clearing" /\ x.row \in Rows /\ Sane(x.row) /\ x.session \in Sessions
      /\ ProgrammeIsSane /\ Busy(a) /\ programme' = programme
  BY <1>1, AtWork DEF UpdateClear, Writes
<1>3. ProgrammeIsSane'
  BY <1>2 DEF ProgrammeIsSane
<1>4. CASE ReqTo(a, Idle)
  BY <1>2, <1>3, <1>4, Rests
<1>5. ASSUME NEW plan \in Plans(x.row, x.session), \A t \in DOMAIN plan : plan[t].end \in 0..Latest /\ plan[t].start <= Latest,
             ~EarlierInTheWay(x.row, x.session), plan = NoPlan \/ push,
             ReqTo(a, [x EXCEPT !.pc = "saving", !.push = push, !.plan = plan])
      PROVE  ScheduleInv'
  <2> DEFINE slot == [x EXCEPT !.pc = "saving", !.push = push, !.plan = plan]
  <2>1. plan \in PlansToMove /\ \A t \in DOMAIN plan : Sane(plan[t])
    BY <1>2, <1>5, PlanType
  <2>2. Fits(plan, x.row, x.session)
    BY <1>2, <1>5, WalkFits
  <2>3. /\ slot \in Requests /\ slot.pc = "saving" /\ slot.row = x.row /\ slot.session = x.session
        /\ slot.plan = plan /\ slot.push = push /\ slot.placed = x.placed
    BY <1>2, <2>1 DEF Requests, PlansToMove
  <2>4. ReqTo(a, slot)
    BY <1>5
  <2> HIDE DEF slot
  <2>5. Holds(slot)
    BY <1>2, <2>3, RowShape, NoSession DEF Holds
  <2>6. req'[a] = slot
    BY <2>4 DEF ScheduleInv, TypeOK, ReqTo
  <2>7. Fits(plan, x.row, x.session)'
    BY <1>2, <2>2, FitsFrame
  <2>8. OneDesk => x.placed
    BY <1>1, <1>2, AtWork DEF Stands
  <2>9. OneDesk => Stands(a)'
    BY <2>3, <2>6, <2>7, <2>8, <1>5 DEF Stands
  <2> QED  BY <1>2, <1>3, <2>1, <2>3, <2>4, <2>5, <2>9, SlotMoves
<1> QED  BY <1>1, <1>4, <1>5 DEF UpdateClear

LEMMA SaveKeeps ==
  ASSUME ScheduleInv, NEW a \in Admins, UpdateSave(a)
  PROVE  ScheduleInv'
<1>1. PICK x : x = req[a]
  OBVIOUS
<1>2. /\ x \in Requests /\ x.pc = "saving" /\ x.row \in Rows /\ Sane(x.row) /\ x.session \in Sessions
      /\ x.plan \in PlansToMove /\ (\A t \in DOMAIN x.plan : Sane(x.plan[t]))
      /\ ProgrammeIsSane /\ Busy(a) /\ (OneDesk => Stands(a))
  BY <1>1, AtWork DEF UpdateSave, Writes
<1> DEFINE slot == [x EXCEPT !.pc = IF x.plan = NoPlan THEN "announcing" ELSE "pushing"]
<1>3. ReqTo(a, slot) /\ programme' = [programme EXCEPT ![x.session] = x.row]
  BY <1>1 DEF UpdateSave
<1>4. /\ slot \in Requests /\ slot.pc = (IF x.plan = NoPlan THEN "announcing" ELSE "pushing")
      /\ slot.row = x.row /\ slot.session = x.session
      /\ slot.plan = x.plan /\ slot.push = x.push /\ slot.placed = x.placed
  BY <1>2 DEF Requests
<1> HIDE DEF slot
<1>5. Holds(slot)
  BY <1>2, <1>4, RowShape, NoSession DEF Holds
<1>6. /\ programme'[x.session] = x.row
      /\ \A t \in Sessions \ {x.session} : programme'[t] = programme[t]
  BY <1>2, <1>3 DEF ProgrammeIsSane
<1>7. ProgrammeIsSane'
  BY <1>2, <1>3, <1>6 DEF ProgrammeIsSane
<1>8. req'[a] = slot
  BY <1>3 DEF ScheduleInv, TypeOK, ReqTo
<1>9. OneDesk => Stands(a)'
  <2> HAVE OneDesk
  <2>1. CASE x.plan # NoPlan
    <3>1. x.placed /\ x.push /\ Fits(x.plan, x.row, x.session)
      BY <1>1, <1>2, <2>1 DEF Stands
    <3>2. Fits(x.plan, x.row, x.session)'
      BY <1>6, <3>1, FitsFrame
    <3> QED  BY <1>4, <1>6, <1>8, <2>1, <3>1, <3>2 DEF Stands
  <2>2. CASE x.plan = NoPlan /\ x.placed
    <3>1. Fits(x.plan, x.row, x.session)
      BY <1>1, <1>2, <2>2 DEF Stands
    <3>2. Cleared(x.session, x.row)'
      BY <1>2, <1>6, <2>2, <3>1, NothingToMove, FitsClears
    <3> QED  BY <1>4, <1>8, <2>2, <3>2 DEF Stands
  <2>3. CASE x.plan = NoPlan /\ ~x.placed
    BY <1>4, <1>8, <2>3 DEF Stands
  <2> QED  BY <2>1, <2>2, <2>3
<1> QED  BY <1>2, <1>3, <1>4, <1>5, <1>7, <1>9, SlotMoves

LEMMA PushKeeps ==
  ASSUME ScheduleInv, NEW a \in Admins, UpdatePush(a)
  PROVE  ScheduleInv'
<1>1. PICK x : x = req[a]
  OBVIOUS
<1>2. /\ x \in Requests /\ x.pc = "pushing" /\ x.row \in Rows /\ Sane(x.row) /\ x.session \in Sessions
      /\ x.plan \in PlansToMove /\ (\A t \in DOMAIN x.plan : Sane(x.plan[t]))
      /\ ProgrammeIsSane /\ Busy(a) /\ (OneDesk => Stands(a))
  BY <1>1, AtWork DEF UpdatePush, Writes
<1> DEFINE slot == [x EXCEPT !.pc = "announcing"]
<1>3. /\ ReqTo(a, slot)
      /\ programme' = [t \in Sessions |-> IF t \in DOMAIN x.plan THEN x.plan[t] ELSE programme[t]]
  BY <1>1 DEF UpdatePush
<1>4. /\ slot \in Requests /\ slot.pc = "announcing" /\ slot.row = x.row /\ slot.session = x.session
      /\ slot.plan = x.plan /\ slot.placed = x.placed
  BY <1>2 DEF Requests
<1> HIDE DEF slot
<1>5. Holds(slot)
  BY <1>2, <1>4, RowShape, NoSession DEF Holds
<1>6. DOMAIN x.plan \subseteq Sessions /\ \A t \in DOMAIN x.plan : x.plan[t] \in Rows
  BY <1>2 DEF PlansToMove
<1>7. programme' \in [Sessions -> Rows \cup {None}]
  BY <1>2, <1>3, <1>6 DEF ProgrammeIsSane
<1>8. \A t \in Sessions : programme'[t] = IF t \in DOMAIN x.plan THEN x.plan[t] ELSE programme[t]
  BY <1>2, <1>3, <1>6 DEF ProgrammeIsSane
<1>9. ProgrammeIsSane'
  BY <1>2, <1>7, <1>8 DEF ProgrammeIsSane
<1>10. req'[a] = slot
  BY <1>3 DEF ScheduleInv, TypeOK, ReqTo
<1>11. OneDesk => Stands(a)'
  <2> HAVE OneDesk
  <2>1. x.placed /\ Fits(x.plan, x.row, x.session) /\ programme[x.session] = x.row
    BY <1>1, <1>2 DEF Stands
  <2>2. x.session \notin DOMAIN x.plan
    BY <2>1 DEF Fits, Following, Others
  <2>3. Cleared(x.session, x.row)'
    BY <1>2, <1>8, <2>1, <2>2, FitsClears
  <2> QED  BY <1>4, <1>10, <2>1, <2>3 DEF Stands
<1> QED  BY <1>2, <1>3, <1>4, <1>5, <1>9, <1>11, SlotMoves

LEMMA AnnounceKeeps ==
  ASSUME ScheduleInv, NEW a \in Admins, NEW status \in Statuses \cup {None}, UpdateAnnounce(a, status)
  PROVE  ScheduleInv'
<1>1. /\ req[a].pc = "announcing" /\ Busy(a) /\ req[a].session \in Sessions /\ ProgrammeIsSane
      /\ programme' = programme
  BY AtWork DEF UpdateAnnounce
<1>2. ProgrammeIsSane'
  BY <1>1 DEF ProgrammeIsSane
<1>3. CASE ReqTo(a, Idle)
  BY <1>1, <1>2, <1>3, Rests
<1> DEFINE slot == [Idle EXCEPT !.pc = "status", !.session = req[a].session, !.status = status]
<1>4. CASE status # None /\ ReqTo(a, slot)
  <2>1. /\ slot \in Requests /\ slot.pc = "status" /\ slot.session \in Sessions /\ slot.status # None
        /\ slot.plan = NoPlan
    BY <1>1, <1>4, IdleIsARequest DEF Idle, Requests
  <2> HIDE DEF slot
  <2>2. req'[a] = slot
    BY <1>4 DEF ScheduleInv, TypeOK, ReqTo
  <2>3. Holds(slot) /\ Stands(a)'
    BY <2>1, <2>2, NoSession DEF Holds, Writes, Stands
  <2> QED  BY <1>1, <1>2, <1>4, <2>1, <2>3, SlotMoves, NothingToMove DEF Writes
<1> QED  BY <1>3, <1>4 DEF UpdateAnnounce

LEMMA StatusKeeps ==
  ASSUME ScheduleInv, NEW a \in Admins, SetStatusRead(a) \/ SetStatusSave(a) \/ RemoveRow(a)
  PROVE  ScheduleInv'
<1>1. PICK x : x = req[a]
  OBVIOUS
<1>2. CASE SetStatusRead(a)
  <2>1. /\ x.pc = "status" /\ Busy(a) /\ x \in Requests /\ x.session \in Sessions /\ ProgrammeIsSane
        /\ x.status \in Statuses /\ programme' = programme
        /\ x.plan \in PlansToMove /\ (\A t \in DOMAIN x.plan : Sane(x.plan[t]))
    <3>1. x.status # None /\ x.status \in Statuses \cup {None}
      BY <1>1, <1>2 DEF SetStatusRead, ScheduleInv, TypeOK, Requests
    <3> QED  BY <1>1, <1>2, <3>1, AtWork DEF SetStatusRead
  <2>2. ProgrammeIsSane'
    BY <2>1 DEF ProgrammeIsSane
  <2>3. CASE programme[x.session] = None
    BY <1>1, <1>2, <2>1, <2>2, <2>3, Rests DEF SetStatusRead
  <2>4. CASE programme[x.session] # None
    <3> DEFINE row == [programme[x.session] EXCEPT !.status = x.status]
               slot == [x EXCEPT !.pc = "saveStatus", !.row = row]
    <3>1. ReqTo(a, slot)
      BY <1>1, <1>2, <2>4 DEF SetStatusRead
    <3>2. programme[x.session] \in Rows /\ Sane(programme[x.session])
      BY <2>1, <2>4 DEF ProgrammeIsSane
    <3>3. row \in Rows /\ Sane(row)
      BY <2>1, <3>2 DEF Rows, Sane
    <3> HIDE DEF row
    <3>4. /\ slot \in Requests /\ slot.pc = "saveStatus" /\ slot.row = row /\ slot.session = x.session
          /\ slot.plan = x.plan
      BY <2>1, <3>3 DEF Requests
    <3> HIDE DEF slot
    <3>5. req'[a] = slot
      BY <3>1 DEF ScheduleInv, TypeOK, ReqTo
    <3>6. Holds(slot) /\ Stands(a)'
      BY <2>1, <3>3, <3>4, <3>5, RowShape, NoSession DEF Holds, Stands
    <3> QED  BY <2>1, <2>2, <3>1, <3>3, <3>4, <3>6, SlotMoves
  <2> QED  BY <2>3, <2>4
<1>3. CASE SetStatusSave(a) \/ RemoveRow(a)
  <2>1. Busy(a) /\ ProgrammeIsSane /\ ReqTo(a, Idle)
    BY <1>3, AtWork DEF SetStatusSave, RemoveRow
  <2>2. ProgrammeIsSane'
    <3>1. CASE SetStatusSave(a)
      <4>1. req[a].row \in Rows /\ Sane(req[a].row)
        BY <3>1, AtWork DEF SetStatusSave, Writes
      <4> QED  BY <2>1, <3>1, <4>1 DEF SetStatusSave, ProgrammeIsSane
    <3>2. CASE RemoveRow(a)
      BY <2>1, <3>2 DEF RemoveRow, ProgrammeIsSane
    <3> QED  BY <1>3, <3>1, <3>2
  <2> QED  BY <2>1, <2>2, Rests
<1> QED  BY <1>2, <1>3

LEMMA ScheduleHolds == Spec => []ScheduleInv
<1>1. Init => ScheduleInv
  <2> SUFFICES ASSUME Init PROVE ScheduleInv
    OBVIOUS
  <2>1. \A a \in Admins : req[a] = Idle /\ Idle.pc = "idle" /\ Idle.plan = NoPlan
    BY DEF Init, Idle
  <2>2. ProgrammeIsSane
    BY DEF Init, ProgrammeIsSane
  <2>3. TypeOK
    BY <2>1, <2>2, IdleIsARequest DEF Init, TypeOK, ProgrammeIsSane
  <2> QED  BY <2>1, <2>2, <2>3, NothingToMove DEF ScheduleInv, RowsAreSane, Standing, Stands, Busy, Writes
<1>2. ScheduleInv /\ [Next]_vars => ScheduleInv'
  <2> SUFFICES ASSUME ScheduleInv, [Next]_vars PROVE ScheduleInv'
    OBVIOUS
  <2>1. CASE UNCHANGED vars
    <3>1. programme' = programme /\ used' = used /\ req' = req /\ regime' = regime
      BY <2>1 DEF vars
    <3>2. TypeOK'
      BY <3>1 DEF ScheduleInv, TypeOK
    <3>3. RowsAreSane'
      BY <3>1 DEF ScheduleInv, RowsAreSane, ProgrammeIsSane
    <3>4. ASSUME NEW a \in Admins, Stands(a) PROVE Stands(a)'
      <4>1. PICK x : x = req[a]
        OBVIOUS
      <4>2. Fits(x.plan, x.row, x.session) => Fits(x.plan, x.row, x.session)'
        BY <3>1, FitsFrame
      <4>3. Cleared(x.session, x.row)' = Cleared(x.session, x.row)
        BY <3>1 DEF Cleared, Others, Overlap
      <4> QED  BY <3>1, <3>4, <4>1, <4>2, <4>3 DEF Stands
    <3>5. Standing'
      BY <3>1, <3>4 DEF ScheduleInv, Standing, OneDesk, Busy
    <3> QED  BY <3>2, <3>3, <3>5 DEF ScheduleInv
  <2>2. CASE Next
    BY <2>2, CreateKeeps, ReadsKeep, ClearKeeps, SaveKeeps, PushKeeps, AnnounceKeeps, StatusKeeps DEF Next
  <2> QED  BY <2>1, <2>2
<1> QED  BY <1>1, <1>2, PTL DEF Spec

(* Type correctness of the programme and its requests, in all regimes.      *)
THEOREM ScheduleTypeCorrect == Spec => []TypeOK
<1>1. ScheduleInv => TypeOK
  BY DEF ScheduleInv
<1> QED  BY <1>1, ScheduleHolds, PTL

(* An edit of time or place leaves its session alone in its slot and no two   *)
(* sessions after it on one another, however many there are and however far  *)
(* the pushes cascade (clearRoom, update).                                  *)
THEOREM RoomsAreCleared == Spec => []RoomIsCleared
<1>1. ScheduleInv => RoomIsCleared
  BY DEF ScheduleInv, Standing, Stands, Cleared, RoomIsCleared
<1> QED  BY <1>1, ScheduleHolds, PTL

(* Saving the pushed sessions delays them by what the walk found, keeps       *)
(* length, room and status, leaves what is over alone, moves nobody for an    *)
(* operator who asked not to, goes no further than it must and swaps no two.  *)
LEMMA PushStep ==
  ASSUME ScheduleInv, NEW a \in Admins, OneDesk, UpdatePush(a), NEW t \in Sessions, Moved(t)
  PROVE  LET room == Others(req[a].row, None) \cup {req[a].session} IN
         /\ req[a].push /\ programme[t] # None /\ programme[t].status # "completed"
         /\ \E d \in 1..Latest : programme'[t] = [programme[t] EXCEPT !.start = @ + d, !.end = @ + d]
         /\ \E u \in room \ {t} : programme'[u].end = programme'[t].start
         /\ \A u \in room : programme[u].start > programme[t].start =>
              programme'[u].start >= programme'[t].start
<1>1. PICK x : x = req[a]
  OBVIOUS
<1> DEFINE s == x.session
           row == x.row
           plan == x.plan
           L == Following(row, s)
           room == Others(row, None) \cup {s}
<1>2. /\ x.pc = "pushing" /\ row \in Rows /\ Sane(row) /\ s \in Sessions /\ plan \in PlansToMove
      /\ ProgrammeIsSane /\ Stands(a)
      /\ programme' = [u \in Sessions |-> IF u \in DOMAIN plan THEN plan[u] ELSE programme[u]]
  BY <1>1, AtWork DEF UpdatePush, Writes
<1>3. Fits(plan, row, s) /\ programme[s] = row /\ (plan # NoPlan => x.push)
  BY <1>1, <1>2 DEF Stands
<1> HIDE DEF s, row, plan
<1>4. t \in DOMAIN plan /\ programme'[t] = plan[t] /\ plan # NoPlan
  BY <1>2, NothingToMove DEF Moved
<1>5. /\ DOMAIN plan \subseteq L /\ L \subseteq Others(row, s) /\ Others(row, s) \subseteq Sessions \ {s}
  BY <1>3 DEF Fits, Following, Others
<1>6. \A u \in Sessions \ {s} : programme'[u].start = StartIn(plan, u) /\ programme'[u].end = EndIn(plan, u)
  BY <1>2 DEF StartIn, EndIn
<1>7. programme'[s] = row
  BY <1>2, <1>3, <1>5
<1>8. \A u \in Others(row, s) : programme[u] \in Rows
  BY <1>2 DEF Others, ProgrammeIsSane
<1>9. /\ programme[t] # None /\ programme[t].status # "completed" /\ programme[t].start >= row.start
      /\ programme[t].start \in Nat /\ row.start \in Nat
  <2>1. programme[t] \in Rows
    BY <1>4, <1>5, <1>8
  <2> QED  BY <1>2, <1>4, <1>5, <2>1, RowShape, TimesAreInstants DEF Following, Others
<1>10. L \subseteq room /\ room \ {s} \subseteq Others(row, s)
  BY <1>5, NoSession DEF Others
<1>11. \E d \in 1..Latest : programme'[t] = [programme[t] EXCEPT !.start = @ + d, !.end = @ + d]
  BY <1>3, <1>4 DEF Fits, Shifted
<1>12. \E u \in room \ {t} : programme'[u].end = programme'[t].start
  <2>1. programme'[t].start = StartIn(plan, t)
    BY <1>4, <1>5, <1>6
  <2>2. CASE StartIn(plan, t) = row.end
    BY <1>4, <1>5, <1>7, <2>1, <2>2
  <2>3. CASE \E u \in L \ {t} : EndIn(plan, u) = StartIn(plan, t)
    BY <1>5, <1>6, <1>10, <2>1, <2>3
  <2> QED  BY <1>3, <1>4, <2>2, <2>3 DEF Fits
(* What starts after a pushed session is in the walk too.                   *)
<1>13. ASSUME NEW u \in room, programme[u].start > programme[t].start
       PROVE  programme'[u].start >= programme'[t].start
  <2>1. CASE u = s
    BY <1>3, <1>9, <1>13, <2>1
  <2>2. CASE u # s
    <3>1. u \in Others(row, s) /\ programme[u] \in Rows
      BY <1>8, <1>10, <2>2
    <3>2. programme[u].start \in Nat
      BY <3>1, RowShape, TimesAreInstants
    <3>3. u \in L
      BY <1>9, <1>13, <3>1, <3>2 DEF Following
    <3>4. StartIn(plan, t) <= StartIn(plan, u)
      BY <1>3, <1>4, <1>13, <3>3 DEF Fits
    <3>5. programme'[t].start = StartIn(plan, t) /\ programme'[u].start = StartIn(plan, u)
      BY <1>4, <1>5, <1>6, <3>1
    <3> QED  BY <3>4, <3>5
  <2> QED  BY <2>1, <2>2
<1> QED  BY <1>1, <1>3, <1>4, <1>9, <1>11, <1>12, <1>13 DEF s, row, plan

(* A push only ever delays, and by the least that clears the room (clearRoom, *)
(* update).                                                                  *)
THEOREM PushesAreLeast == Spec => PushIsLeast
<1>1. ASSUME ScheduleInv, Next, NEW a \in Admins, Pushing(a) PROVE UpdatePush(a)
  <2>1. req[a].pc = "pushing" /\ req'[a].pc = "announcing" /\ req \in [Admins -> Requests]
    BY <1>1 DEF Pushing, ScheduleInv, TypeOK
  <2>2. req' # req
    BY <2>1
  <2>3. ASSUME NEW b \in Admins, NEW slot, ReqTo(b, slot) PROVE b = a
    BY <2>1, <2>3 DEF ReqTo
  <2>4. ~\E s \in Sessions, row \in [room : Rooms, start : Times, end : Times, status : Statuses] : Create(s, row)
    BY <2>2 DEF Create
  <2>5. PICK b \in Admins :
          \/ \E s \in Sessions, room \in Rooms \cup {None}, start, end \in Times \cup {None} :
               UpdateRead(b, s, room, start, end)
          \/ \E push \in BOOLEAN : UpdateClear(b, push)
          \/ UpdateSave(b) \/ UpdatePush(b)
          \/ \E status \in Statuses \cup {None} : UpdateAnnounce(b, status)
          \/ \E s \in Sessions, status \in Statuses : SetStatus(b, s, status)
          \/ SetStatusRead(b) \/ SetStatusSave(b)
          \/ \E s \in Sessions : RemoveRead(b, s)
          \/ RemoveRow(b)
    BY <1>1, <2>4 DEF Next
  <2>6. \E slot : ReqTo(b, slot)
    BY <2>5 DEF UpdateRead, Begin, UpdateClear, UpdateSave, UpdatePush, UpdateAnnounce, SetStatus,
                SetStatusRead, SetStatusSave, RemoveRead, RemoveRow
  <2>7. b = a
    BY <2>3, <2>6
  <2> QED  BY <2>1, <2>5, <2>7 DEF UpdateRead, Begin, UpdateClear, UpdateSave, UpdateAnnounce, SetStatus,
                SetStatusRead, SetStatusSave, RemoveRead, RemoveRow
<1>2. ASSUME ScheduleInv, [Next]_vars
      PROVE  [\A a \in Admins : OneDesk /\ Pushing(a) =>
                LET room == Others(req[a].row, None) \cup {req[a].session} IN
                \A t \in Sessions : Moved(t) =>
                  /\ req[a].push /\ programme[t] # None /\ programme[t].status # "completed"
                  /\ \E d \in 1..Latest : programme'[t] = [programme[t] EXCEPT !.start = @ + d, !.end = @ + d]
                  /\ \E u \in room \ {t} : programme'[u].end = programme'[t].start
                  /\ \A u \in room : programme[u].start > programme[t].start =>
                       programme'[u].start >= programme'[t].start]_vars
  BY <1>1, <1>2, PushStep
<1> QED  BY <1>2, ScheduleHolds, PTL DEF Spec, PushIsLeast
=============================================================================
