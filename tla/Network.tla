------------------------------ MODULE Network ------------------------------
(***************************************************************************)
(* Connections, blocks, direct messages and their reactions                *)
(* (delegates.service.ts 620-1055).                                        *)
(*                                                                         *)
(* Delegates are numbered in the order their ids sort in; a connection is   *)
(* named by the pair it was stored with, a message by its place in time.   *)
(* What is queued for a phone, and the profile rows that are read on the    *)
(* way, are left out.                                                      *)
(* Each "Slip:" is a plausible wrong version of what follows it.           *)
(***************************************************************************)
EXTENDS Naturals, FiniteSets, Sequences, Requests

CONSTANTS NPeople, Emoji, NetworkCalls,
          MaxMessages, \* a bound
          Page         \* of listThread: 100

People == 1..NPeople
Pairs == {p \in People \X People : p[1] # p[2]}
Messages == 1..MaxMessages
Reactions == [People -> Emoji \cup {None}]
NoReactions == [p \in People |-> None]

ASSUME NetworkBounds == NPeople \in Nat /\ MaxMessages \in Nat /\ Page \in Nat /\ None \notin Emoji

VARIABLES
  link,     \* delegate_connections: None, "added" or "mutual", by stored pair
  wants,    \* who added whom since the pair was last removed: history
  blocks,   \* delegate_blocks
  message,  \* direct_messages, in the order they were saved
  seen,     \* the messages with a readAt
  reaction, \* message_reactions
  shown,    \* the reactions the thread was last sent, per message
  told,     \* whether the last reaction to it got that far: history
  net       \* requests under way

threads == <<message, seen>>
reacting == <<reaction, shown, told>>
networkVars == <<link, wants, blocks, threads, reacting, net, regime>>

NetRecords ==
  [pc : {"finding", "closing", "adding", "sending", "marking"}, pair : Pairs, unread : SUBSET Messages]
  \cup [pc : {"looking", "clearing", "changing", "inserting", "reading", "telling"},
        m : Messages, who : People, emoji : Emoji \cup {None}, found : Reactions]

NetworkInit ==
  /\ link = [p \in Pairs |-> None] /\ wants = {}
  /\ blocks = {}
  /\ message = <<>> /\ seen = {}
  /\ reaction = [m \in Messages |-> NoReactions] /\ shown = reaction
  /\ told = [m \in Messages |-> TRUE]
  /\ net = [r \in NetworkCalls |-> None]
  /\ regime \in Regimes

Flip(p) == <<p[2], p[1]>>
PairKey(p) == IF p[1] < p[2] THEN p ELSE Flip(p)
BlockedEitherWay(p) == p \in blocks \/ Flip(p) \in blocks

NetTo(r, step) == net' = [net EXCEPT ![r] = step]
NetAt(r, pc) == net[r] # None /\ net[r].pc = pc
PairStep(pc, p, unread) == [pc |-> pc, pair |-> p, unread |-> unread]

-----------------------------------------------------------------------------
(* addConnection.                                                          *)
ConnectReads(r, p) ==
  /\ MayStart(net, r) /\ ~BlockedEitherWay(p)
  /\ NetTo(r, PairStep("finding", p, {}))
  /\ UNCHANGED <<link, wants, blocks, threads, reacting, regime>>

(* The row is looked for under the sorted pair only.                       *)
ConnectFinds(r) ==
  /\ NetAt(r, "finding")
  /\ NetTo(r, [net[r] EXCEPT !.pc = IF link[PairKey(net[r].pair)] = None THEN "adding" ELSE "closing"])
  /\ UNCHANGED <<link, wants, blocks, threads, reacting, regime>>

(* And a new one stored as the caller named it, which the unique pair may   *)
(* refuse.  A row found is saved as mutual, also where it went meanwhile.   *)
ConnectSaves(r) ==
  LET p == net[r].pair IN
  /\ NetAt(r, "adding") \/ NetAt(r, "closing")
  /\ link' = IF NetAt(r, "closing") THEN [link EXCEPT ![PairKey(p)] = "mutual"]
             ELSE IF link[p] = None THEN [link EXCEPT ![p] = "added"] ELSE link
  /\ wants' = wants \cup {p}
  /\ NetTo(r, None)
  /\ UNCHANGED <<blocks, threads, reacting, regime>>

RemoveConnection(p) ==
  /\ InTurn => Idle(net)
  /\ link[p] # None \/ link[Flip(p)] # None
  /\ link' = [link EXCEPT ![p] = None, ![Flip(p)] = None]
  /\ wants' = wants \ {p, Flip(p)}
  /\ UNCHANGED <<blocks, threads, reacting, net, regime>>

BlockDelegate(p) ==
  /\ InTurn => Idle(net)
  /\ blocks' = blocks \cup {p}
  /\ UNCHANGED <<link, wants, threads, reacting, net, regime>>

UnblockDelegate(p) ==
  /\ InTurn => Idle(net)
  /\ blocks' = blocks \ {p}
  /\ UNCHANGED <<link, wants, threads, reacting, net, regime>>

-----------------------------------------------------------------------------
SendReads(r, p) ==
  /\ MayStart(net, r) /\ ~BlockedEitherWay(p)
  /\ NetTo(r, PairStep("sending", p, {}))
  /\ UNCHANGED <<link, wants, blocks, threads, reacting, regime>>

SendSaves(r) ==
  /\ NetAt(r, "sending") /\ Len(message) < MaxMessages
  /\ message' = Append(message, net[r].pair)
  /\ NetTo(r, None)
  /\ UNCHANGED <<link, wants, blocks, seen, reacting, regime>>

(* listThread reads the first Page messages of the thread, oldest first,    *)
(* and marks those of them that are for its caller.                        *)
Thread(p) == {m \in DOMAIN message : message[m] \in {p, Flip(p)}}
FirstPage(p) == {m \in Thread(p) : Cardinality({n \in Thread(p) : n < m}) < Page}

ThreadReads(r, p) ==
  LET unread == {m \in FirstPage(p) \ seen : message[m] = Flip(p)} IN
  /\ MayStart(net, r) /\ unread # {}
  /\ NetTo(r, PairStep("marking", p, unread))
  /\ UNCHANGED <<link, wants, blocks, threads, reacting, regime>>

ThreadMarks(r) ==
  /\ NetAt(r, "marking")
  /\ seen' = seen \cup net[r].unread
  /\ NetTo(r, None)
  /\ UNCHANGED <<link, wants, blocks, message, reacting, regime>>

-----------------------------------------------------------------------------
(* reactToMessage: one of the two in the thread, blocked or not.            *)
ReactReads(r, m, d, emoji) ==
  /\ MayStart(net, r)
  /\ d \in {message[m][1], message[m][2]}
  /\ NetTo(r, [pc |-> IF emoji = None THEN "clearing" ELSE "looking", m |-> m,
               who |-> d, emoji |-> emoji, found |-> NoReactions])
  /\ told' = [told EXCEPT ![m] = FALSE]
  /\ UNCHANGED <<link, wants, blocks, threads, reaction, shown, regime>>

ReactFinds(r) ==
  LET c == net[r] IN
  /\ NetAt(r, "looking")
  /\ NetTo(r, [c EXCEPT !.pc = IF reaction[c.m][c.who] = None THEN "inserting" ELSE "changing"])
  /\ UNCHANGED <<link, wants, blocks, threads, reacting, regime>>

(* A row that went is not changed; a second one is refused, and the request *)
(* with it.                                                                *)
ReactWrites(r) ==
  LET c == net[r]
      stored == reaction[c.m][c.who]
      refused == c.pc = "inserting" /\ stored # None
  IN
  /\ \E pc \in {"clearing", "changing", "inserting"} : NetAt(r, pc)
  /\ reaction' = IF refused \/ (c.pc = "changing" /\ stored = None) THEN reaction
                 ELSE [reaction EXCEPT ![c.m][c.who] = c.emoji]
  /\ NetTo(r, IF refused THEN None ELSE [c EXCEPT !.pc = "reading"])
  /\ UNCHANGED <<link, wants, blocks, threads, shown, told, regime>>

(* Slip: what is sent is what the thread was last sent, and the change.     *)
ReactionsForDelta(r) ==
  LET c == net[r] IN
  /\ NetAt(r, "reading")
  /\ NetTo(r, [c EXCEPT !.pc = "telling", !.found = [shown[c.m] EXCEPT ![c.who] = c.emoji]])
  /\ UNCHANGED <<link, wants, blocks, threads, reacting, regime>>

ReactionsFor(r) ==
  LET c == net[r] IN
  /\ NetAt(r, "reading")
  /\ NetTo(r, [c EXCEPT !.pc = "telling", !.found = reaction[c.m]])
  /\ UNCHANGED <<link, wants, blocks, threads, reacting, regime>>

ReactTells(r) ==
  LET c == net[r] IN
  /\ NetAt(r, "telling")
  /\ shown' = [shown EXCEPT ![c.m] = c.found]
  /\ told' = [told EXCEPT ![c.m] = TRUE]
  /\ NetTo(r, None)
  /\ UNCHANGED <<link, wants, blocks, threads, reaction, regime>>

NetDies(r) ==
  /\ MayDie /\ net[r] # None
  /\ NetTo(r, None)
  /\ UNCHANGED <<link, wants, blocks, threads, reacting, regime>>

NetworkNext ==
  \/ \E r \in NetworkCalls :
       \/ ConnectFinds(r) \/ ConnectSaves(r) \/ SendSaves(r) \/ ThreadMarks(r)
       \/ ReactFinds(r) \/ ReactWrites(r) \/ ReactionsFor(r) \/ ReactTells(r) \/ NetDies(r)
       \/ \E p \in Pairs : ConnectReads(r, p) \/ SendReads(r, p) \/ ThreadReads(r, p)
       \/ \E m \in DOMAIN message, d \in People, emoji \in Emoji \cup {None} : ReactReads(r, m, d, emoji)
  \/ \E p \in Pairs : RemoveConnection(p) \/ BlockDelegate(p) \/ UnblockDelegate(p)

NetworkSpec == NetworkInit /\ [][NetworkNext]_networkVars

-----------------------------------------------------------------------------
NetworkTypeOK ==
  /\ link \in [Pairs -> {None, "added", "mutual"}] /\ wants \subseteq Pairs /\ blocks \subseteq Pairs
  /\ message \in Seq(Pairs) /\ seen \subseteq DOMAIN message
  /\ reaction \in [Messages -> Reactions] /\ shown \in [Messages -> Reactions]
  /\ told \in [Messages -> BOOLEAN]
  /\ net \in [NetworkCalls -> NetRecords \cup {None}] /\ regime \in Regimes

(* "A client that missed one event while backgrounded would stay wrong      *)
(* forever" (lines 893-895): whatever requests were lost before they told   *)
(* the thread, the next reaction that does shows the thread what is stored. *)
ReactionsHeal ==
  InTurn /\ Idle(net) => \A m \in Messages : told[m] => shown[m] = reaction[m]

(* "The other side had already added them; this closes the loop" (line 662): *)
(* one request at a time, a connection is mutual exactly when both added    *)
(* the other.  It is not: the row is looked for under one direction.        *)
MutualIsMutual ==
  regime = "single" /\ Idle(net) => \A p \in Pairs : link[p] # None =>
    (link[p] = "mutual" <=> {p, Flip(p)} \subseteq wants)
=============================================================================
