----------------------------- MODULE HallProofs -----------------------------
(***************************************************************************)
(* Logging in is safe for any number of players, connections, positions,   *)
(* messages, faults and restarts, and for pipes, queues and tables of any  *)
(* size: tcpsvr accounts for its positions, a client receives only its own *)
(* messages, and tcpsvr and the hall server agree on who is logged in.     *)
(***************************************************************************)
EXTENDS Hall, BasicFacts, TLAPS

-----------------------------------------------------------------------------
(* The inductive invariant.                                                *)

SockT == [conn : Conn \cup {None}, fd : {0, 1}, time : 0 .. MaxMs, index : Uid \cup {None},
          buf : Seq(Request) \cup {Torn}]
ConnT == [st : {"new", "open"} \cup Ended, pos : Nat, time : 0 .. MaxMs, wrong : Conn \cup {None}]
PlayersOf == [Conn -> Uid \cup {None}]

TcpTyped ==
    /\ \E n \in SlotNums : Slot = 1 .. n
    /\ cli \in [Conn -> ConnT]
    /\ sock \in [Slot -> SockT] /\ freeL \in Seq(Slot) /\ zero \in Conn \cup {Stdin, Closed}
Typed == TcpTyped /\ ms \in Nat /\ trouble \in BOOLEAN /\ told \in PlayersOf

\* Connections and positions.  A position in use has a connection that knows
\* it; one that is open has it and its descriptor; one whose descriptor is not
\* 0 cannot be closed by mistake.
Free == Range(freeL)
Old(c) == cli[c].st # "new"

ConnsKnown == \A c \in Conn :
    /\ cli[c].st = "new" => cli[c].pos = 0 /\ cli[c].wrong = None
    /\ Old(c) => cli[c].pos \in Slot /\ cli[c].time \in 1 .. MaxMs
FreeOnce == \A i, j \in 1 .. Len(freeL) : freeL[i] = freeL[j] => i = j
InUse(p) ==
    LET c == sock[p].conn
    IN /\ c \in Conn /\ cli[c].st \in {"open", "lost"} /\ cli[c].pos = p /\ cli[c].time = sock[p].time
       /\ sock[p].fd = 1 => cli[c].st = "open"
SlotsUsed == \A p \in Slot : IF p \in Free THEN sock[p] = FreeSock ELSE InUse(p)
OpenHolds == \A c \in Conn : cli[c].st = "open" => sock[cli[c].pos].conn = c /\ Denotes(cli[c].pos) = c
ZeroOpen == zero \in Conn => cli[zero].st = "open" /\ sock[cli[zero].pos].fd = 0

Slots == ConnsKnown /\ FreeOnce /\ SlotsUsed /\ OpenHolds /\ ZeroOpen

\* What messages, players, sessions and sockets say of connections is so.
HeadOk(h) == h \in HeadT /\ Old(h.to) /\ cli[h.to].pos = h.pos /\ cli[h.to].time = h.time
CsOk(m) == m \in CsMsg /\ HeadOk(m.head)
RequestOk(m) == CsOk(m) /\ m.kind # "discon"
ScOk(m) == m \in ScMsg /\ HeadOk(m.head)
PlayerOk(u) == players[u].head \in HeadT /\ HeadOk(players[u].head)

CsPipe == cs \in Seq(CsMsg) /\ Len(cs) <= CsCap /\ \A m \in Range(cs) : CsOk(m)
ScPipe == sc \in Seq(ScMsg) /\ Len(sc) <= ScCap /\ \A m \in Range(sc) : ScOk(m)
QueueOk == queue \in Seq(CsMsg) /\ Len(queue) <= MsgCap /\ \A m \in Range(queue) : RequestOk(m)
SessOk == sess \in Seq(HeadT \cup {Stuck}) /\ Len(sess) <= MaxSess /\ \A h \in Range(sess) : h = Stuck \/ HeadOk(h)
LoginOk ==
    login = <<>> \/ \E m \in CsMsg : /\ RequestOk(m)
                                    /\ \/ login = <<"index", m>> /\ m.uid \notin DOMAIN players /\ SessionLeft
                                       \/ login = <<"refuse", m>>
PlayersOk ==
    /\ players \in [DOMAIN players -> [head : HeadT, late : BOOLEAN]] /\ DOMAIN players \subseteq Uid
    /\ IsFiniteSet(DOMAIN players) /\ Cardinality(DOMAIN players) <= MaxPlayers
    /\ \A u \in DOMAIN players : PlayerOk(u)
NamedOk == named \in PlayersOf /\ \A c \in Conn : named[c] # None => Old(c)

HallOk == QueueOk /\ SessOk /\ LoginOk /\ PlayersOk /\ NamedOk
Says == CsPipe /\ ScPipe /\ HallOk

\* The properties, in terms of what the pipes hold.
WrongAt(c) == cli[c].wrong # None =>
    Old(cli[c].wrong) /\ \E d \in Conn : Alike(cli[c].wrong, d) /\ (d = c \/ cli[d].st = "lost")
WrongOk == \A c \in Conn : WrongAt(c)

\* What a pipe says of connection c's player, in the end: the last one it names,
\* or the one known before.
IndexFor(m, c) == m.kind = "index" /\ m.head.to = c
LastIs(q, c, u, known) ==
    LET coming == {k \in DOMAIN q : IndexFor(q[k], c)}
    IN \/ coming = {} /\ known = u
       \/ \E k \in coming : q[k].uid = u /\ \A l \in coming : l <= k
LastAt(c) == cli[c].st = "open" /\ ~HasTwin(c) => LastIs(sc, c, named[c], sock[cli[c].pos].index)
AllLast == \A c \in Conn : LastAt(c)

Notice(c, u) == \E m \in Range(cs) : m.kind = "discon" /\ m.uid = u /\ m.head.to = c
NoticeComing(c) == \E m \in Range(cs) : m.kind = "discon" /\ m.head.to = c
GoneAt(u) == told[players[u].head.to] = u => players[u].late \/ Notice(players[u].head.to, u)
AllGone == \A u \in DOMAIN players : GoneAt(u)
NoticesTrue == \A c \in Conn : NoticeComing(c) \/ told[c] # None => cli[c].st \in Ended

Coming(kind, c) == \E m \in Range(sc) : m.kind = kind /\ m.head.to = c
HasPlayer(c) == named[c] \in DOMAIN players /\ players[named[c]].head.to = c
Refusing(c) == login # <<>> /\ login[1] = "refuse" /\ login[2].head.to = c

\* The player a connection was given last is there, or the connection will be
\* closed.
AgreedAt(c) ==
    cli[c].st = "open" /\ ~HasTwin(c) /\ named[c] # None => HasPlayer(c) \/ Coming("bye", c) \/ Refusing(c)
Agreed == ~trouble => \A c \in Conn : AgreedAt(c)

IInv == Typed /\ Slots /\ Says /\ WrongOk /\ AllLast /\ AllGone /\ NoticesTrue /\ Agreed

-----------------------------------------------------------------------------
(* Pipes.                                                                  *)

\* A message offered to a pipe is in it afterwards, if there is room, and
\* nothing else changes.
LEMMA OfferFacts ==
    ASSUME NEW S, NEW q \in Seq(S), NEW m \in S, NEW cap \in Nat, Len(q) <= cap
    PROVE  /\ Offer(q, m, cap) \in Seq(S) /\ Len(Offer(q, m, cap)) <= cap
           /\ Range(q) \subseteq Range(Offer(q, m, cap)) /\ Range(Offer(q, m, cap)) \subseteq Range(q) \cup {m}
           /\ Room(q, cap) => m \in Range(Offer(q, m, cap))
<1>1. Len(q) \in Nat
    OBVIOUS
<1>2. CASE Room(q, cap)
    <2>1. Offer(q, m, cap) = Append(q, m)
        BY <1>2 DEF Offer
    <2>2. Len(Append(q, m)) = Len(q) + 1 /\ Len(q) < cap
        BY <1>2 DEF Room
    <2>3. Len(Append(q, m)) <= cap
        BY <1>1, <2>2
    <2> QED BY <2>1, <2>3, RangeAppend
<1>3. CASE ~Room(q, cap)
    BY <1>3 DEF Offer
<1> QED BY <1>2, <1>3

\* Filling a pipe puts a first part of the messages into it.
LEMMA FillFacts ==
    ASSUME NEW S, NEW q \in Seq(S), NEW msgs \in Seq(S), NEW cap \in Nat, Len(q) <= cap
    PROVE  /\ Fill(q, msgs, cap) \in Seq(S) /\ Len(Fill(q, msgs, cap)) <= cap
           /\ Len(Fill(q, msgs, cap)) - Len(q) \in 0 .. Len(msgs)
           /\ Range(q) \subseteq Range(Fill(q, msgs, cap))
           /\ Range(Fill(q, msgs, cap)) \subseteq Range(q) \cup Range(msgs)
<1> DEFINE k == IF Len(q) + Len(msgs) <= cap THEN Len(msgs) ELSE cap - Len(q)
           r == SubSeq(msgs, 1, k)
<1>1. Len(q) \in Nat /\ Len(msgs) \in Nat
    OBVIOUS
<1>2. k \in 0 .. Len(msgs) /\ Len(q) + k <= cap
    BY <1>1
<1> HIDE DEF k
<1>3. r \in Seq(S) /\ Range(r) \subseteq Range(msgs) /\ Len(r) = IF 1 <= k THEN (k - 1) + 1 ELSE 0
    <2>1. 1 \in Nat \ {0}
        OBVIOUS
    <2> QED BY <1>2, <2>1, RangeSub
<1>4. Len(r) = k
    BY <1>1, <1>2, <1>3
<1>5. Fill(q, msgs, cap) = q \o r
    BY DEF Fill, r, k
<1> HIDE DEF r
<1>6. /\ q \o r \in Seq(S) /\ Len(q \o r) = Len(q) + Len(r)
      /\ Range(q \o r) = Range(q) \cup Range(r)
    BY <1>3, RangeConcat
<1>7. Len(q \o r) <= cap /\ Len(q \o r) - Len(q) \in 0 .. Len(msgs)
    BY <1>1, <1>2, <1>4, <1>6
<1> QED BY <1>3, <1>5, <1>6, <1>7

\* A pipe's last word on a connection changes with a message that names its
\* player, and with no other.
LEMMA LastAppend ==
    ASSUME NEW S, NEW q \in Seq(S), NEW m \in S, NEW c, NEW u, NEW i, LastIs(q, c, u, i)
    PROVE  LastIs(Append(q, m), c, IF IndexFor(m, c) THEN m.uid ELSE u, i)
<1> DEFINE r == Append(q, m)
           old == {k \in DOMAIN q : IndexFor(q[k], c)}
           new == {k \in DOMAIN r : IndexFor(r[k], c)}
<1>1. /\ Len(q) \in Nat /\ DOMAIN q = 1 .. Len(q) /\ DOMAIN r = 1 .. Len(q) + 1
      /\ r[Len(q) + 1] = m /\ \A k \in 1 .. Len(q) : r[k] = q[k]
    OBVIOUS
<1> HIDE DEF r
<1>2. CASE IndexFor(m, c)
    <2>1. Len(q) + 1 \in new /\ r[Len(q) + 1].uid = m.uid /\ \A l \in new : l <= Len(q) + 1
        BY <1>1, <1>2
    <2> QED BY <1>2, <2>1 DEF LastIs, r
<1>3. CASE ~IndexFor(m, c)
    <2>1. \A k \in new : k \in old
        <3> SUFFICES ASSUME NEW k \in new PROVE k \in old
            OBVIOUS
        <3>1. k \in 1 .. Len(q) + 1 /\ IndexFor(r[k], c)
            BY <1>1
        <3>2. k # Len(q) + 1
            BY <1>1, <1>3, <3>1
        <3>3. k \in 1 .. Len(q)
            BY <1>1, <3>1, <3>2
        <3> QED BY <1>1, <3>1, <3>3
    <2>2. \A k \in old : k \in new /\ r[k] = q[k]
        BY <1>1
    <2>3. new = old
        BY <2>1, <2>2
    <2>4. \/ old = {} /\ i = u
          \/ \E k \in old : q[k].uid = u /\ \A l \in old : l <= k
        BY DEF LastIs
    <2>5. \/ new = {} /\ i = u
          \/ \E k \in new : r[k].uid = u /\ \A l \in new : l <= k
        <3> HIDE DEF new, old
        <3> QED BY <2>2, <2>3, <2>4
    <2> QED BY <1>3, <2>5 DEF LastIs, r
<1> QED BY <1>2, <1>3

\* Once the first message is read, what it says counts as known.
LEMMA LastTail ==
    ASSUME NEW S, NEW q \in Seq(S), q # <<>>, NEW c, NEW u, NEW i, LastIs(q, c, u, i)
    PROVE  LastIs(Tail(q), c, u, IF IndexFor(Head(q), c) THEN Head(q).uid ELSE i)
<1> DEFINE r == Tail(q)
           old == {k \in DOMAIN q : IndexFor(q[k], c)}
           new == {k \in DOMAIN r : IndexFor(r[k], c)}
<1>1. /\ Len(q) \in Nat /\ Len(q) > 0 /\ DOMAIN q = 1 .. Len(q) /\ DOMAIN r = 1 .. Len(q) - 1
      /\ Head(q) = q[1] /\ \A k \in 1 .. Len(q) - 1 : r[k] = q[k + 1]
    OBVIOUS
<1> HIDE DEF r
<1>2. \A k \in new : k + 1 \in old /\ r[k] = q[k + 1] /\ k \in Nat
    BY <1>1
<1>3. \A k \in old : k = 1 \/ (k - 1 \in new /\ q[k] = r[k - 1])
    <2> SUFFICES ASSUME NEW k \in old, k # 1 PROVE k - 1 \in new /\ q[k] = r[k - 1]
        OBVIOUS
    <2>1. k \in 1 .. Len(q) /\ IndexFor(q[k], c)
        BY <1>1
    <2>2. k - 1 \in 1 .. Len(q) - 1 /\ (k - 1) + 1 = k
        BY <1>1, <2>1
    <2>3. r[k - 1] = q[k]
        BY <1>1, <2>2
    <2> QED BY <1>1, <2>1, <2>2, <2>3
<1>4. 1 \in old <=> IndexFor(Head(q), c)
    BY <1>1
<1>5. \A k \in old : k \in Nat \ {0}
    BY <1>1
<1>6. \/ old = {} /\ i = u
      \/ \E k \in old : q[k].uid = u /\ \A l \in old : l <= k
    BY DEF LastIs
<1> DEFINE j == IF IndexFor(Head(q), c) THEN Head(q).uid ELSE i
<1>7. \/ new = {} /\ j = u
      \/ \E k \in new : r[k].uid = u /\ \A l \in new : l <= k
    <2> HIDE DEF new, old
    <2>1. CASE old = {} /\ i = u
        BY <1>2, <1>4, <2>1
    <2>2. ASSUME NEW k \in old, q[k].uid = u, \A l \in old : l <= k
          PROVE  \/ new = {} /\ j = u
                 \/ \E n \in new : r[n].uid = u /\ \A l \in new : l <= n
        <3>1. CASE k = 1
            <4>1. new = {}
                <5> SUFFICES ASSUME NEW l \in new PROVE FALSE
                    OBVIOUS
                <5>1. l + 1 \in old /\ l \in Nat
                    BY <1>2
                <5>2. l + 1 <= 1 /\ l + 1 # 0
                    BY <1>5, <2>2, <3>1, <5>1
                <5>3. l = 0
                    BY <5>1, <5>2
                <5> QED BY <1>1, <5>3 DEF new
            <4>2. j = u
                BY <1>1, <1>4, <2>2, <3>1
            <4> QED BY <4>1, <4>2
        <3>2. CASE k # 1
            <4>1. k - 1 \in new /\ q[k] = r[k - 1] /\ k \in Nat
                BY <1>3, <1>5, <2>2, <3>2
            <4>2. \A l \in new : l <= k - 1
                <5> SUFFICES ASSUME NEW l \in new PROVE l <= k - 1
                    OBVIOUS
                <5>1. l + 1 <= k /\ l \in Nat
                    BY <1>2, <2>2
                <5> QED BY <4>1, <5>1
            <4> QED BY <2>2, <4>1, <4>2
        <3> QED BY <3>1, <3>2
    <2> QED BY <1>6, <2>1, <2>2
<1> QED BY <1>7 DEF LastIs, r

-----------------------------------------------------------------------------
(* Connections and positions.                                              *)

\* The sizes.
LEMMA HallSizes ==
    /\ MaxConns \in Nat /\ MaxMs \in Nat /\ CsCap \in Nat /\ ScCap \in Nat /\ MsgCap \in Nat /\ MaxSess \in Nat
    /\ SlotNums \subseteq Nat /\ None \notin Uid
    /\ Conn \subseteq Nat /\ None \notin Conn /\ Closed \notin Conn /\ Stdin \notin Conn /\ Closed # Stdin
BY HallAssumption DEF Conn, None, Closed, Stdin

\* The size of the player table.
LEMMA PlayerRoom == ASSUME TcpTyped PROVE MaxPlayers \in Nat /\ MaxPlayers # 0
BY HallAssumption DEF TcpTyped, MaxPlayers

\* A free position is cleared, any other one has a connection.
LEMMA UsedOrFree ==
    ASSUME TcpTyped, Slots, NEW p \in Slot
    PROVE  /\ sock[p].conn # None <=> p \notin Free
           /\ sock[p].time # 0 <=> p \notin Free
           /\ sock[p].conn # None => InUse(p)
<1>1. p \in Free => sock[p] = FreeSock
    BY DEF Slots, SlotsUsed
<1>2. p \notin Free => InUse(p)
    BY DEF Slots, SlotsUsed
<1>3. FreeSock.conn = None /\ FreeSock.time = 0
    BY DEF FreeSock
<1>4. InUse(p) => sock[p].conn # None /\ sock[p].time # 0
    <2> SUFFICES ASSUME InUse(p) PROVE sock[p].conn # None /\ sock[p].time # 0
        OBVIOUS
    <2>1. sock[p].conn \in Conn /\ cli[sock[p].conn].st # "new" /\ cli[sock[p].conn].time = sock[p].time
        BY DEF InUse
    <2>2. cli[sock[p].conn].time \in 1 .. MaxMs
        BY <2>1 DEF Slots, ConnsKnown, Old
    <2> QED BY <2>1, <2>2, HallSizes
<1> QED BY <1>1, <1>2, <1>3, <1>4

\* What a descriptor stands for is an open connection that has a position with
\* that descriptor.
LEMMA DenotedOpen ==
    ASSUME TcpTyped, Slots, NEW p \in Slot, sock[p].conn # None, Denotes(p) \in Conn
    PROVE  /\ cli[Denotes(p)].st = "open"
           /\ sock[cli[Denotes(p)].pos].conn = Denotes(p) /\ sock[cli[Denotes(p)].pos].fd = sock[p].fd
           /\ Denotes(p) # sock[p].conn => sock[p].fd = 0 /\ cli[sock[p].conn].st = "lost"
<1>1. InUse(p)
    BY UsedOrFree
<1>2. sock[p].fd \in {0, 1}
    BY DEF TcpTyped, SockT
<1>3. CASE sock[p].fd = 1
    BY <1>1, <1>3 DEF InUse, Denotes
<1>4. CASE sock[p].fd = 0
    <2>1. Denotes(p) = zero
        BY <1>4 DEF Denotes
    <2>2. cli[zero].st = "open" /\ sock[cli[zero].pos].fd = 0
        BY <2>1 DEF Slots, ZeroOpen
    <2>3. sock[cli[zero].pos].conn = zero
        BY <2>1, <2>2 DEF Slots, OpenHolds
    <2>4. zero # sock[p].conn => cli[sock[p].conn].st = "lost"
        <3>1. cli[sock[p].conn].st = "open" => Denotes(p) = sock[p].conn
            BY <1>1 DEF Slots, OpenHolds, InUse
        <3> QED BY <1>1, <2>1, <3>1 DEF InUse
    <2> QED BY <1>4, <2>1, <2>2, <2>3, <2>4
<1> QED BY <1>2, <1>3, <1>4

\* What a step may do to the connections: what is known of one that was
\* accepted stays, and how it ended.
Forward ==
    /\ Slot' = Slot
    /\ \A c \in Conn : Old(c) =>
        /\ Old(c)' /\ cli'[c].pos = cli[c].pos /\ cli'[c].time = cli[c].time
        /\ cli[c].st \in Ended => cli'[c].st = cli[c].st

\* No step of the hall server touches them.
LEMMA SlotsUntouched ==
    ASSUME TcpTyped, Slots, cli' = cli, sock' = sock, freeL' = freeL, zero' = zero
    PROVE  TcpTyped' /\ Slots' /\ Forward
<1>1. \A p : InUse(p)' = InUse(p)
    BY DEF InUse
<1>2. SlotsUsed'
    BY <1>1 DEF Slots, SlotsUsed, Free, Slot
<1>3. ConnsKnown'
    BY DEF Slots, ConnsKnown, Slot, Old
<1>4. OpenHolds'
    BY DEF Slots, OpenHolds, Denotes
<1>5. FreeOnce' /\ ZeroOpen'
    BY DEF Slots, FreeOnce, ZeroOpen
<1>6. Forward
    BY DEF Forward, Old, Slot
<1>7. TcpTyped'
    BY DEF TcpTyped, Slot
<1> QED BY <1>2, <1>3, <1>4, <1>5, <1>6, <1>7 DEF Slots

\* One connection's state and history change, and nothing else of it.
LEMMA ConnChanges ==
    ASSUME cli \in [Conn -> ConnT], NEW c \in Conn, NEW how \in {"new", "open"} \cup Ended,
           NEW w \in Conn \cup {None},
           cli' = [cli EXCEPT ![c].st = how, ![c].wrong = w]
    PROVE  /\ cli' \in [Conn -> ConnT]
           /\ \A x \in Conn \ {c} : cli'[x] = cli[x]
           /\ cli'[c].st = how /\ cli'[c].wrong = w
           /\ \A x \in Conn : cli'[x].pos = cli[x].pos /\ cli'[x].time = cli[x].time
<1>1. cli[c] \in ConnT
    OBVIOUS
<1>2. cli' = [cli EXCEPT ![c] = [cli[c] EXCEPT !.st = how, !.wrong = w]]
    OBVIOUS
<1> DEFINE r == [cli[c] EXCEPT !.st = how, !.wrong = w]
<1>3. /\ r \in ConnT /\ r.st = how /\ r.wrong = w
      /\ r.pos = cli[c].pos /\ r.time = cli[c].time
    BY <1>1 DEF ConnT
<1> HIDE DEF r
<1>4. cli' = [cli EXCEPT ![c] = r]
    BY <1>2 DEF r
<1>5. cli' \in [Conn -> ConnT] /\ cli'[c] = r /\ \A x \in Conn \ {c} : cli'[x] = cli[x]
    BY <1>3, <1>4
<1> QED BY <1>3, <1>5

\* How the connection that position p's descriptor stands for ends.
Closes(p, how, w) ==
    /\ sock' = [sock EXCEPT ![p] = FreeSock] /\ freeL' = Append(freeL, p)
    /\ zero' = IF sock[p].fd = 0 THEN Closed ELSE zero
    /\ cli' = IF Denotes(p) \in Conn THEN [cli EXCEPT ![Denotes(p)].st = how, ![Denotes(p)].wrong = w] ELSE cli

\* A release frees one position, and ends at most one connection: the one that
\* the position's descriptor stands for.
LEMMA ReleaseSlots ==
    ASSUME TcpTyped, Slots, NEW p \in Slot, sock[p].conn # None,
           NEW how \in Ended, Denotes(p) # sock[p].conn => how = "lost",
           NEW w \in Conn \cup {None}, Closes(p, how, w)
    PROVE  /\ TcpTyped' /\ Slots' /\ Forward
           /\ \A c \in Conn \ {Denotes(p)} : cli'[c] = cli[c]
           /\ Denotes(p) \in Conn => cli'[Denotes(p)].st = how /\ cli'[Denotes(p)].wrong = w
<1> DEFINE c == Denotes(p)
<1>1. /\ sock' = [sock EXCEPT ![p] = FreeSock] /\ freeL' = Append(freeL, p)
      /\ zero' = IF sock[p].fd = 0 THEN Closed ELSE zero
      /\ c \in Conn => cli' = [cli EXCEPT ![c].st = how, ![c].wrong = w]
      /\ c \notin Conn => cli' = cli
    BY DEF Closes
<1>2. /\ cli \in [Conn -> ConnT] /\ sock \in [Slot -> SockT] /\ freeL \in Seq(Slot)
      /\ how \in {"new", "open"} \cup Ended /\ sock[p].fd \in {0, 1} /\ zero \in Conn \cup {Stdin, Closed}
    BY DEF TcpTyped, SockT
<1>3. p \notin Free /\ InUse(p)
    BY UsedOrFree
<1>4. c \in Conn => cli[c].st = "open" /\ sock[cli[c].pos].conn = c /\ sock[cli[c].pos].fd = sock[p].fd
    BY DenotedOpen
<1>5. c # sock[p].conn => sock[p].fd = 0 /\ cli[sock[p].conn].st = "lost" /\ how = "lost"
    <2> SUFFICES ASSUME c # sock[p].conn PROVE sock[p].fd = 0 /\ cli[sock[p].conn].st = "lost"
        OBVIOUS
    <2>1. sock[p].fd = 0
        BY <1>2 DEF Denotes
    <2>2. cli[sock[p].conn].st = "open" => Denotes(p) = sock[p].conn
        BY <1>3 DEF Slots, OpenHolds, InUse
    <2> QED BY <1>3, <2>1, <2>2 DEF InUse
<1> HIDE DEF c
<1>6. /\ cli' \in [Conn -> ConnT] /\ \A x \in Conn \ {c} : cli'[x] = cli[x]
      /\ c \in Conn => cli'[c].st = how /\ cli'[c].wrong = w
      /\ \A x \in Conn : cli'[x].pos = cli[x].pos /\ cli'[x].time = cli[x].time
    <2>1. CASE c \in Conn
        BY <1>1, <1>2, <2>1, ConnChanges
    <2>2. CASE c \notin Conn
        BY <1>1, <1>2, <2>2
    <2> QED BY <2>1, <2>2
<1>7. FreeSock \in SockT
    <2>1. <<>> \in Seq(Request)
        OBVIOUS
    <2>2. 0 \in 0 .. MaxMs
        BY HallSizes
    <2> QED BY <2>1, <2>2 DEF FreeSock, SockT
<1>8. /\ sock' \in [Slot -> SockT] /\ Slot' = Slot /\ sock'[p] = FreeSock
      /\ \A q \in Slot \ {p} : sock'[q] = sock[q]
    BY <1>1, <1>2, <1>7 DEF Slot
<1>9. freeL' \in Seq(Slot) /\ Free' = Free \cup {p}
    BY <1>1, <1>2, RangeAppend DEF Free
<1>10. \A x \in Conn : /\ Old(x) <=> Old(x)'
                       /\ cli[x].st \in Ended => cli'[x].st = cli[x].st
                       /\ cli'[x].st = "open" => cli[x].st = "open" /\ x # c
    BY <1>4, <1>6 DEF Old, Ended
<1>11. zero' \in Conn \cup {Stdin, Closed}
    BY <1>1, <1>2
<1>12. Forward
    BY <1>6, <1>8, <1>10 DEF Forward
<1>13. ConnsKnown'
    <2> SUFFICES ASSUME NEW x \in Conn
                 PROVE  /\ cli'[x].st = "new" => cli'[x].pos = 0 /\ cli'[x].wrong = None
                        /\ Old(x)' => cli'[x].pos \in Slot' /\ cli'[x].time \in 1 .. MaxMs
        BY DEF ConnsKnown
    <2>1. cli'[x].st = "new" => x # c /\ cli[x].st = "new"
        BY <1>6, <1>10 DEF Ended, Old
    <2> QED BY <1>6, <1>8, <1>10, <2>1 DEF Slots, ConnsKnown
<1>14. FreeOnce'
    <2>1. p \notin Range(freeL) /\ \A i, j \in 1 .. Len(freeL) : freeL[i] = freeL[j] => i = j
        BY <1>3 DEF Free, Slots, FreeOnce
    <2>2. \A i, j \in 1 .. Len(freeL') : freeL'[i] = freeL'[j] => i = j
        <3> HIDE DEF Slot
        <3> QED BY <1>1, <1>2, <2>1, OnceAppend
    <2> QED BY <2>2 DEF FreeOnce
<1>15. SlotsUsed'
    <2> SUFFICES ASSUME NEW q \in Slot
                 PROVE  IF q \in Free' THEN sock'[q] = FreeSock ELSE InUse(q)'
        BY <1>8 DEF SlotsUsed
    <2>1. CASE q = p
        BY <1>8, <1>9, <2>1
    <2>2. CASE q # p /\ q \in Free
        BY <1>8, <1>9, <2>2 DEF Slots, SlotsUsed
    <2>3. CASE q # p /\ q \notin Free
        <3>1. InUse(q) /\ q \notin Free' /\ sock'[q] = sock[q]
            BY <1>8, <1>9, <2>3 DEF Slots, SlotsUsed
        <3> DEFINE x == sock[q].conn
        <3>2. /\ x \in Conn /\ cli[x].st \in {"open", "lost"} /\ cli[x].pos = q /\ cli[x].time = sock[q].time
              /\ sock[q].fd = 1 => cli[x].st = "open"
            BY <3>1 DEF InUse
        <3> HIDE DEF x
        <3>3. x = c => c # sock[p].conn
            BY <1>3, <2>3, <3>2 DEF InUse
        <3>4. x = c => cli'[x].st = "lost" /\ sock[q].fd = 0
            BY <1>4, <1>5, <1>6, <3>2, <3>3
        <3>5. /\ cli'[x].st \in {"open", "lost"} /\ cli'[x].pos = q /\ cli'[x].time = sock[q].time
              /\ sock[q].fd = 1 => cli'[x].st = "open"
            BY <1>6, <3>2, <3>4
        <3> QED BY <3>1, <3>2, <3>5 DEF InUse, x
    <2> QED BY <2>1, <2>2, <2>3
<1>16. ASSUME NEW x \in Conn, cli'[x].st = "open"
       PROVE  /\ cli[x].st = "open" /\ cli'[x] = cli[x] /\ cli[x].pos \in Slot \ {p}
              /\ sock'[cli[x].pos] = sock[cli[x].pos] /\ sock[cli[x].pos].conn = x
              /\ sock[cli[x].pos].fd # 0 \/ (zero = x /\ zero' = zero)
    <2>1. cli[x].st = "open" /\ x # c /\ cli'[x] = cli[x]
        BY <1>6, <1>10, <1>16
    <2>2. cli[x].pos \in Slot /\ sock[cli[x].pos].conn = x /\ Denotes(cli[x].pos) = x
        BY <2>1 DEF Slots, ConnsKnown, OpenHolds, Old
    <2>3. cli[x].pos # p
        BY <1>5, <2>1, <2>2 DEF c
    <2>4. sock[cli[x].pos].fd = 0 => zero = x
        BY <2>2 DEF Denotes
    <2>5. zero = x => sock[p].fd # 0
        BY <2>1 DEF c, Denotes
    <2> QED BY <1>1, <1>8, <2>1, <2>2, <2>3, <2>4, <2>5
<1>17. OpenHolds'
    <2> SUFFICES ASSUME NEW x \in Conn, cli'[x].st = "open"
                 PROVE  sock'[cli'[x].pos].conn = x /\ Denotes(cli[x].pos)' = x
        BY DEF OpenHolds
    <2> QED BY <1>16 DEF Denotes
<1>18. ZeroOpen'
    <2> SUFFICES ASSUME zero' \in Conn PROVE cli'[zero'].st = "open" /\ sock'[cli'[zero'].pos].fd = 0
        BY DEF ZeroOpen
    <2>1. zero' = zero /\ sock[p].fd = 1
        BY <1>1, <1>2, HallSizes
    <2>2. cli[zero].st = "open" /\ sock[cli[zero].pos].fd = 0
        BY <2>1 DEF Slots, ZeroOpen
    <2>3. zero # c
        BY <1>4, <2>1, <2>2
    <2>4. cli'[zero] = cli[zero] /\ cli[zero].pos \in Slot /\ cli[zero].pos # p
        BY <1>6, <2>1, <2>2, <2>3 DEF Slots, ConnsKnown, Old
    <2> QED BY <1>8, <2>1, <2>2, <2>4
<1>19. TcpTyped'
    <2>1. \E n \in SlotNums : Slot' = 1 .. n
        BY <1>8 DEF TcpTyped
    <2> HIDE DEF Slot
    <2> QED BY <1>6, <1>8, <1>9, <1>11, <2>1 DEF TcpTyped
<1> QED BY <1>6, <1>12, <1>13, <1>14, <1>15, <1>17, <1>18, <1>19 DEF Slots, c

\* A change to a socket in use that leaves its connection, its descriptor and
\* its time alone.
LEMMA SockChanges ==
    ASSUME TcpTyped, Slots, NEW p \in Slot, sock[p].conn # None, NEW r \in SockT,
           r.conn = sock[p].conn, r.fd = sock[p].fd, r.time = sock[p].time,
           sock' = [sock EXCEPT ![p] = r], cli' = cli, freeL' = freeL, zero' = zero
    PROVE  TcpTyped' /\ Slots' /\ Forward
<1>1. sock \in [Slot -> SockT] /\ p \notin Free
    BY UsedOrFree DEF TcpTyped
<1>2. /\ sock' \in [Slot -> SockT] /\ Slot' = Slot /\ \A q \in Slot \ {p} : sock'[q] = sock[q]
      /\ \A q \in Slot : sock'[q].conn = sock[q].conn /\ sock'[q].fd = sock[q].fd /\ sock'[q].time = sock[q].time
    BY <1>1 DEF Slot
<1>3. Forward
    BY <1>2 DEF Forward, Old
<1>4. TcpTyped'
    <2>1. (\E n \in SlotNums : Slot' = 1 .. n) /\ freeL \in Seq(Slot) /\ zero \in Conn \cup {Stdin, Closed}
            /\ cli \in [Conn -> ConnT]
        BY <1>2 DEF TcpTyped
    <2> HIDE DEF Slot
    <2> QED BY <1>2, <2>1 DEF TcpTyped
<1>5. SlotsUsed'
    <2> SUFFICES ASSUME NEW q \in Slot
                 PROVE  IF q \in Free' THEN sock'[q] = FreeSock ELSE InUse(q)'
        BY <1>2 DEF SlotsUsed
    <2>1. Free' = Free
        BY DEF Free
    <2>2. IF q \in Free THEN sock[q] = FreeSock ELSE InUse(q)
        BY DEF Slots, SlotsUsed
    <2>3. InUse(q) => InUse(q)'
        BY <1>2 DEF InUse
    <2> QED BY <1>1, <1>2, <2>1, <2>2, <2>3
<1>6. ConnsKnown' /\ FreeOnce'
    BY <1>2 DEF Slots, ConnsKnown, FreeOnce, Old
<1>7. OpenHolds'
    <2> SUFFICES ASSUME NEW x \in Conn, cli[x].st = "open"
                 PROVE  sock'[cli[x].pos].conn = x /\ Denotes(cli[x].pos)' = x
        BY DEF OpenHolds
    <2>1. cli[x].pos \in Slot /\ sock[cli[x].pos].conn = x /\ Denotes(cli[x].pos) = x
        BY DEF Slots, ConnsKnown, OpenHolds, Old
    <2> QED BY <1>2, <2>1 DEF Denotes
<1>8. ZeroOpen'
    <2> SUFFICES ASSUME zero \in Conn PROVE cli[zero].st = "open" /\ sock'[cli[zero].pos].fd = 0
        BY DEF ZeroOpen
    <2>1. cli[zero].st = "open" /\ sock[cli[zero].pos].fd = 0 /\ cli[zero].pos \in Slot
        BY DEF Slots, ConnsKnown, ZeroOpen, Old
    <2> QED BY <1>2, <2>1
<1> QED BY <1>3, <1>4, <1>5, <1>6, <1>7, <1>8 DEF Slots

\* A message reaches a connection: only its history changes.
LEMMA WrongChanges ==
    ASSUME TcpTyped, Slots, NEW c \in Conn, Old(c), NEW w \in Conn \cup {None},
           cli' = [cli EXCEPT ![c].wrong = w], sock' = sock, freeL' = freeL, zero' = zero
    PROVE  /\ TcpTyped' /\ Slots' /\ Forward
           /\ cli'[c].wrong = w /\ \A x \in Conn \ {c} : cli'[x] = cli[x]
           /\ \A x \in Conn : cli'[x].st = cli[x].st
<1>1. cli \in [Conn -> ConnT] /\ cli[c] \in ConnT
    BY DEF TcpTyped
<1> DEFINE r == [cli[c] EXCEPT !.wrong = w]
<1>2. /\ r \in ConnT /\ r.st = cli[c].st /\ r.wrong = w
      /\ r.pos = cli[c].pos /\ r.time = cli[c].time
    BY <1>1 DEF ConnT
<1> HIDE DEF r
<1>3. cli' = [cli EXCEPT ![c] = r]
    BY DEF r
<1>4. /\ cli' \in [Conn -> ConnT] /\ cli'[c].wrong = w /\ \A x \in Conn \ {c} : cli'[x] = cli[x]
      /\ \A x \in Conn : cli'[x].st = cli[x].st /\ cli'[x].pos = cli[x].pos
                            /\ cli'[x].time = cli[x].time
    BY <1>1, <1>2, <1>3
<1>5. Slot' = Slot /\ Free' = Free /\ \A x \in Conn : Old(x)' = Old(x)
    BY <1>4 DEF Slot, Free, Old
<1>6. Forward
    BY <1>4, <1>5 DEF Forward
<1>7. TcpTyped'
    <2>1. (\E n \in SlotNums : Slot' = 1 .. n) /\ freeL' \in Seq(Slot') /\ zero' \in Conn \cup {Stdin, Closed}
            /\ sock' \in [Slot' -> SockT]
        BY <1>5 DEF TcpTyped
    <2> HIDE DEF Slot
    <2> QED BY <1>4, <2>1 DEF TcpTyped
<1>8. \A q \in Slot : InUse(q) => InUse(q)'
    BY <1>4 DEF InUse
<1>9. SlotsUsed'
    BY <1>5, <1>8 DEF Slots, SlotsUsed
<1>10. ConnsKnown'
    <2> SUFFICES ASSUME NEW x \in Conn
                 PROVE  /\ cli'[x].st = "new" => cli'[x].pos = 0 /\ cli'[x].wrong = None
                        /\ Old(x)' => cli'[x].pos \in Slot' /\ cli'[x].time \in 1 .. MaxMs
        BY DEF ConnsKnown
    <2>1. cli'[x].st = "new" => x # c
        BY <1>4 DEF Old
    <2> QED BY <1>4, <1>5, <2>1 DEF Slots, ConnsKnown
<1>11. OpenHolds' /\ FreeOnce'
    BY <1>4 DEF Slots, OpenHolds, FreeOnce, Denotes
<1>12. ZeroOpen'
    BY <1>4 DEF Slots, ZeroOpen
<1> QED BY <1>4, <1>6, <1>7, <1>9, <1>10, <1>11, <1>12 DEF Slots

\* A connection is accepted: it takes a free position.
LEMMA AcceptSlots ==
    ASSUME TcpTyped, Slots, NEW c \in Conn, NEW t \in 1 .. MaxMs, AcceptConnect(c, t)
    PROVE  /\ TcpTyped' /\ Slots' /\ Forward
           /\ cli[c].st = "new" /\ cli'[c].st = "open" /\ cli'[c].wrong = None /\ cli'[c].pos \in Slot
           /\ sock'[cli'[c].pos].index = None /\ sock'[cli'[c].pos].conn = c
           /\ \A x \in Conn \ {c} : cli'[x] = cli[x]
           /\ \A q \in Slot \ {cli'[c].pos} : sock'[q] = sock[q]
           /\ cli'[c].pos \in Free
<1> DEFINE p == Head(freeL)
           r == [cli[c] EXCEPT !.st = "open", !.pos = p, !.time = t]
           v == [FreeSock EXCEPT !.conn = c, !.fd = IF zero = Closed THEN 0 ELSE 1, !.time = t]
<1>1. /\ cli[c].st = "new" /\ freeL # <<>> /\ freeL' = Tail(freeL)
      /\ sock' = [sock EXCEPT ![p] = v] /\ zero' = IF zero = Closed THEN c ELSE zero
      /\ cli' = [cli EXCEPT ![c] = r]
    BY DEF AcceptConnect, NextConn
<1>2. /\ cli \in [Conn -> ConnT] /\ sock \in [Slot -> SockT] /\ freeL \in Seq(Slot)
      /\ zero \in Conn \cup {Stdin, Closed} /\ Slot \subseteq Nat
    <2>1. \A n \in SlotNums : 1 .. n \subseteq Nat
        OBVIOUS
    <2> QED BY <2>1 DEF TcpTyped
<1>3. /\ p \in Slot /\ p \in Free /\ freeL' \in Seq(Slot) /\ p \notin Free' /\ Free' \subseteq Free
      /\ \A q \in Free : q = p \/ q \in Free'
      /\ \A i, j \in 1 .. Len(freeL') : freeL'[i] = freeL'[j] => i = j
    <2>1. p \in Slot /\ p \in Range(freeL) /\ Tail(freeL) \in Seq(Slot) /\ Range(Tail(freeL)) \subseteq Range(freeL)
        BY <1>1, <1>2, RangeTail
    <2>2. \A q \in Range(freeL) : q = p \/ q \in Range(Tail(freeL))
        BY <1>1, <1>2, RangeSplit
    <2>3. \A i, j \in 1 .. Len(freeL) : freeL[i] = freeL[j] => i = j
        BY DEF Slots, FreeOnce
    <2>4. /\ \A i, j \in 1 .. Len(Tail(freeL)) : Tail(freeL)[i] = Tail(freeL)[j] => i = j
          /\ p \notin Range(Tail(freeL))
        BY <1>1, <1>2, <2>3, OnceTail
    <2> QED BY <1>1, <2>1, <2>2, <2>4 DEF Free
<1>4. sock[p] = FreeSock /\ cli[c].wrong = None
    BY <1>1, <1>3 DEF Slots, SlotsUsed, ConnsKnown
<1>5. /\ r \in ConnT /\ r.st = "open" /\ r.pos = p /\ r.time = t /\ r.wrong = None
    <2> HIDE DEF p
    <2>1. cli[c] \in ConnT /\ p \in Nat
        BY <1>2, <1>3
    <2>2. t \in 0 .. MaxMs
        BY HallSizes
    <2> QED BY <1>4, <2>1, <2>2 DEF ConnT
<1>6. /\ v \in SockT /\ v.conn = c /\ v.time = t /\ v.index = None
      /\ (zero = Closed => v.fd = 0) /\ (zero # Closed => v.fd = 1)
    <2>1. <<>> \in Seq(Request) /\ t \in 0 .. MaxMs
        OBVIOUS
    <2> QED BY <2>1 DEF FreeSock, SockT
<1> HIDE DEF p, r, v
<1>7. /\ cli' \in [Conn -> ConnT] /\ cli'[c] = r /\ \A x \in Conn \ {c} : cli'[x] = cli[x]
    BY <1>1, <1>2, <1>5
<1>8. /\ sock' \in [Slot -> SockT] /\ Slot' = Slot /\ sock'[p] = v /\ \A q \in Slot \ {p} : sock'[q] = sock[q]
    BY <1>1, <1>2, <1>3, <1>6 DEF Slot
<1>9. Forward
    <2>1. \A x \in Conn : Old(x) => x # c
        BY <1>1 DEF Old
    <2> QED BY <1>7, <1>8, <2>1 DEF Forward, Old
<1>10. TcpTyped'
    <2>1. (\E n \in SlotNums : Slot' = 1 .. n) /\ zero' \in Conn \cup {Stdin, Closed}
        BY <1>1, <1>2, <1>8 DEF TcpTyped
    <2> HIDE DEF Slot
    <2> QED BY <1>3, <1>7, <1>8, <2>1 DEF TcpTyped
<1>11. ConnsKnown'
    <2> SUFFICES ASSUME NEW x \in Conn
                 PROVE  /\ cli'[x].st = "new" => cli'[x].pos = 0 /\ cli'[x].wrong = None
                        /\ Old(x)' => cli'[x].pos \in Slot' /\ cli'[x].time \in 1 .. MaxMs
        BY DEF ConnsKnown
    <2>1. CASE x = c
        BY <1>3, <1>5, <1>7, <1>8, <2>1
    <2>2. CASE x # c
        BY <1>7, <1>8, <2>2 DEF Slots, ConnsKnown, Old
    <2> QED BY <2>1, <2>2
<1>12. FreeOnce'
    BY <1>3 DEF FreeOnce
<1>13. SlotsUsed'
    <2> SUFFICES ASSUME NEW q \in Slot
                 PROVE  IF q \in Free' THEN sock'[q] = FreeSock ELSE InUse(q)'
        BY <1>8 DEF SlotsUsed
    <2>1. CASE q = p
        <3>1. InUse(q)'
            BY <1>5, <1>6, <1>7, <1>8, <2>1 DEF InUse
        <3> QED BY <1>3, <2>1, <3>1
    <2>2. CASE q # p /\ q \in Free
        BY <1>3, <1>8, <2>2 DEF Slots, SlotsUsed
    <2>3. CASE q # p /\ q \notin Free
        <3>1. InUse(q) /\ q \notin Free' /\ sock'[q] = sock[q]
            BY <1>3, <1>8, <2>3 DEF Slots, SlotsUsed
        <3>2. sock[q].conn \in Conn /\ sock[q].conn # c
            BY <1>1, <3>1 DEF InUse
        <3>3. InUse(q)'
            BY <1>7, <3>1, <3>2 DEF InUse
        <3> QED BY <3>1, <3>3
    <2> QED BY <2>1, <2>2, <2>3
<1>14. ASSUME NEW x \in Conn \ {c}, cli[x].st = "open"
       PROVE  /\ cli[x].pos \in Slot \ {p} /\ sock[cli[x].pos].conn = x /\ Denotes(cli[x].pos) = x
              /\ sock[cli[x].pos].fd = 0 => zero = x
    <2>1. cli[x].pos \in Slot /\ sock[cli[x].pos].conn = x /\ Denotes(cli[x].pos) = x
        BY <1>14 DEF Slots, ConnsKnown, OpenHolds, Old
    <2>2. sock[p].conn = None
        BY <1>4 DEF FreeSock
    <2> QED BY <2>1, <2>2, HallSizes DEF Denotes
<1>15. OpenHolds'
    <2> SUFFICES ASSUME NEW x \in Conn, cli'[x].st = "open"
                 PROVE  sock'[cli'[x].pos].conn = x /\ Denotes(cli[x].pos)' = x
        BY DEF OpenHolds
    <2>1. CASE x = c
        BY <1>1, <1>5, <1>6, <1>7, <1>8, <2>1 DEF Denotes
    <2>2. CASE x # c
        <3>1. cli'[x] = cli[x] /\ x \in Conn \ {c}
            BY <1>7, <2>2
        <3>2. /\ cli[x].pos \in Slot \ {p} /\ sock[cli[x].pos].conn = x /\ Denotes(cli[x].pos) = x
              /\ sock[cli[x].pos].fd = 0 => zero = x
            BY <1>14, <3>1
        <3>3. sock'[cli[x].pos] = sock[cli[x].pos] /\ (zero = x => zero' = x)
            BY <1>1, <1>8, <3>2, HallSizes
        <3> QED BY <3>1, <3>2, <3>3 DEF Denotes
    <2> QED BY <2>1, <2>2
<1>16. ZeroOpen'
    <2> SUFFICES ASSUME zero' \in Conn PROVE cli'[zero'].st = "open" /\ sock'[cli'[zero'].pos].fd = 0
        BY DEF ZeroOpen
    <2>1. CASE zero = Closed
        BY <1>1, <1>5, <1>6, <1>7, <1>8, <2>1
    <2>2. CASE zero # Closed
        <3>1. zero' = zero /\ zero \in Conn
            BY <1>1, <2>2
        <3>2. cli[zero].st = "open" /\ sock[cli[zero].pos].fd = 0
            BY <3>1 DEF Slots, ZeroOpen
        <3>3. zero # c
            BY <1>1, <3>2
        <3>4. cli'[zero] = cli[zero] /\ sock'[cli[zero].pos] = sock[cli[zero].pos]
            BY <1>7, <1>8, <1>14, <3>1, <3>2, <3>3
        <3> QED BY <3>1, <3>2, <3>4
    <2> QED BY <2>1, <2>2
<1> QED BY <1>1, <1>3, <1>5, <1>6, <1>7, <1>8, <1>9, <1>10, <1>11, <1>12, <1>13, <1>15, <1>16 DEF Slots

\* An accept that fails puts the position back, and may end the connection that
\* has descriptor 0; this one keeps its position.
LEMMA AcceptFailsSlots ==
    ASSUME TcpTyped, Slots, AcceptFails
    PROVE  /\ TcpTyped' /\ Slots' /\ Forward /\ sock' = sock
           /\ \A x \in Conn : cli'[x] = cli[x] \/ (cli'[x].st = "lost" /\ cli'[x].wrong = cli[x].wrong)
<1>1. /\ freeL # <<>> /\ freeL' = Append(Tail(freeL), Head(freeL)) /\ sock' = sock
      /\ \/ zero' = Closed /\ zero \in Conn /\ cli' = [cli EXCEPT ![zero].st = "lost"]
         \/ zero' = Closed /\ zero \notin Conn /\ cli' = cli
         \/ zero' = zero /\ cli' = cli
    BY DEF AcceptFails
<1>2. /\ cli \in [Conn -> ConnT] /\ sock \in [Slot -> SockT] /\ freeL \in Seq(Slot)
      /\ zero \in Conn \cup {Stdin, Closed}
    BY DEF TcpTyped
<1>3. zero \in Conn => cli[zero] \in ConnT /\ cli[zero].st = "open" /\ sock[cli[zero].pos].fd = 0
    BY <1>2 DEF Slots, ZeroOpen
<1> DEFINE r == [cli[zero] EXCEPT !.st = "lost"]
<1>4. zero \in Conn => /\ r \in ConnT /\ r.st = "lost" /\ r.wrong = cli[zero].wrong
                       /\ r.pos = cli[zero].pos /\ r.time = cli[zero].time
    BY <1>3 DEF ConnT, Ended
<1> HIDE DEF r
<1>5. /\ cli' \in [Conn -> ConnT]
      /\ \A x \in Conn : /\ cli'[x].pos = cli[x].pos /\ cli'[x].time = cli[x].time
                         /\ cli'[x].wrong = cli[x].wrong
                         /\ cli'[x] = cli[x] \/ (x = zero /\ zero' = Closed /\ cli'[x].st = "lost")
    <2>1. CASE zero \in Conn /\ zero' = Closed /\ cli' = [cli EXCEPT ![zero].st = "lost"]
        <3>1. cli' = [cli EXCEPT ![zero] = r]
            BY <2>1 DEF r
        <3>2. cli' \in [Conn -> ConnT] /\ cli'[zero] = r /\ \A x \in Conn \ {zero} : cli'[x] = cli[x]
            BY <1>2, <1>4, <2>1, <3>1
        <3> QED BY <1>4, <2>1, <3>2
    <2>2. CASE cli' = cli
        BY <1>2, <2>2
    <2> QED BY <1>1, <2>1, <2>2
<1>6. ASSUME NEW x \in Conn, cli'[x].st = "open"
      PROVE  cli[x].st = "open" /\ (zero = x => zero' = zero)
    BY <1>1, <1>4, <1>5, <1>6 DEF r
<1>7. /\ freeL' \in Seq(Slot) /\ Free' = Free
      /\ \A i, j \in 1 .. Len(freeL') : freeL'[i] = freeL'[j] => i = j
    <2> DEFINE f == Tail(freeL)
               p == Head(freeL)
    <2>1. p \in Slot /\ p \in Range(freeL) /\ f \in Seq(Slot) /\ Range(f) \subseteq Range(freeL)
        BY <1>1, <1>2, RangeTail
    <2>2. \A q \in Range(freeL) : q = p \/ q \in Range(f)
        BY <1>1, <1>2, RangeSplit
    <2>3. \A i, j \in 1 .. Len(freeL) : freeL[i] = freeL[j] => i = j
        BY DEF Slots, FreeOnce
    <2>4. (\A i, j \in 1 .. Len(f) : f[i] = f[j] => i = j) /\ p \notin Range(f)
        BY <1>1, <1>2, <2>3, OnceTail
    <2>5. freeL' = Append(f, p)
        BY <1>1
    <2> HIDE DEF f, p
    <2>6. freeL' \in Seq(Slot) /\ Range(freeL') = Range(f) \cup {p}
        BY <2>1, <2>5, RangeAppend
    <2>7. \A i, j \in 1 .. Len(freeL') : freeL'[i] = freeL'[j] => i = j
        <3> HIDE DEF Slot
        <3> QED BY <2>1, <2>4, <2>5, OnceAppend
    <2> QED BY <2>1, <2>2, <2>6, <2>7 DEF Free
<1>8. Slot' = Slot
    BY <1>1 DEF Slot
<1>9. Forward
    <2>1. \A x \in Conn : Old(x) => Old(x)' /\ (cli[x].st \in Ended => cli'[x] = cli[x])
        BY <1>3, <1>5 DEF Old, Ended
    <2> QED BY <1>5, <1>8, <2>1 DEF Forward
<1>10. TcpTyped'
    <2>1. (\E n \in SlotNums : Slot' = 1 .. n) /\ zero' \in Conn \cup {Stdin, Closed}
        BY <1>1, <1>2, <1>8 DEF TcpTyped
    <2> HIDE DEF Slot
    <2> QED BY <1>1, <1>2, <1>5, <1>7, <1>8, <2>1 DEF TcpTyped
<1>11. ConnsKnown'
    <2> SUFFICES ASSUME NEW x \in Conn
                 PROVE  /\ cli'[x].st = "new" => cli'[x].pos = 0 /\ cli'[x].wrong = None
                        /\ Old(x)' => cli'[x].pos \in Slot' /\ cli'[x].time \in 1 .. MaxMs
        BY DEF ConnsKnown
    <2>1. cli'[x].st = "new" <=> cli[x].st = "new"
        BY <1>3, <1>5
    <2> QED BY <1>5, <1>8, <2>1 DEF Slots, ConnsKnown, Old
<1>12. FreeOnce'
    BY <1>7 DEF FreeOnce
<1>13. SlotsUsed'
    <2> SUFFICES ASSUME NEW q \in Slot, q \notin Free PROVE InUse(q)'
        BY <1>1, <1>7, <1>8 DEF Slots, SlotsUsed
    <2>1. InUse(q)
        BY DEF Slots, SlotsUsed
    <2>2. cli'[sock[q].conn] = cli[sock[q].conn]
            \/ (cli'[sock[q].conn].st = "lost" /\ sock[q].fd = 0)
        BY <1>3, <1>5, <2>1 DEF InUse
    <2> QED BY <1>1, <1>5, <2>1, <2>2 DEF InUse
<1>14. OpenHolds'
    <2> SUFFICES ASSUME NEW x \in Conn, cli'[x].st = "open"
                 PROVE  sock[cli[x].pos].conn = x /\ (IF sock[cli[x].pos].fd = 0 THEN zero' ELSE x) = x
        BY <1>1, <1>5 DEF OpenHolds, Denotes
    <2>1. cli[x].st = "open" /\ (zero = x => zero' = zero)
        BY <1>6
    <2>2. sock[cli[x].pos].conn = x /\ Denotes(cli[x].pos) = x
        BY <2>1 DEF Slots, OpenHolds
    <2> QED BY <2>1, <2>2 DEF Denotes
<1>15. ZeroOpen'
    <2> SUFFICES ASSUME zero' \in Conn PROVE cli'[zero'].st = "open" /\ sock'[cli'[zero'].pos].fd = 0
        BY DEF ZeroOpen
    <2>1. zero' = zero /\ cli' = cli
        BY <1>1, HallSizes
    <2> QED BY <1>1, <1>3, <2>1
<1> QED BY <1>1, <1>5, <1>9, <1>10, <1>11, <1>12, <1>13, <1>14, <1>15 DEF Slots

\* tcpsvr starts again: every connection that was open is lost.
LEMMA TcpRestartSlots ==
    ASSUME TcpTyped, Slots, TcpRestart
    PROVE  /\ TcpTyped' /\ Slots' /\ Forward
           /\ \A x \in Conn : cli'[x].st # "open" /\ cli'[x].wrong = cli[x].wrong
           /\ \A p \in Slot : sock'[p] = FreeSock
<1>1. /\ cli' = [c \in Conn |-> IF cli[c].st = "open" THEN [cli[c] EXCEPT !.st = "lost"] ELSE cli[c]]
      /\ sock' = [p \in Slot |-> FreeSock] /\ freeL' = [p \in Slot |-> p] /\ zero' = Stdin
    BY DEF TcpRestart
<1>2. cli \in [Conn -> ConnT]
    BY DEF TcpTyped
<1>3. PICK n \in SlotNums : Slot = 1 .. n
    BY DEF TcpTyped
<1>4. ASSUME NEW x \in Conn
      PROVE  /\ cli'[x] \in ConnT /\ cli'[x].wrong = cli[x].wrong
             /\ cli'[x].pos = cli[x].pos /\ cli'[x].time = cli[x].time
             /\ IF cli[x].st = "open" THEN cli'[x].st = "lost" ELSE cli'[x].st = cli[x].st
    <2>1. cli[x] \in ConnT
        BY <1>2
    <2> DEFINE r == [cli[x] EXCEPT !.st = "lost"]
    <2>2. /\ r \in ConnT /\ r.wrong = cli[x].wrong /\ r.st = "lost"
          /\ r.pos = cli[x].pos /\ r.time = cli[x].time
        BY <2>1 DEF ConnT, Ended
    <2>3. cli'[x] = IF cli[x].st = "open" THEN r ELSE cli[x]
        BY <1>1
    <2> HIDE DEF r
    <2> QED BY <2>1, <2>2, <2>3
<1>5. cli' \in [Conn -> ConnT]
    <2>1. cli' = [c \in Conn |-> cli'[c]]
        BY <1>1
    <2> QED BY <1>4, <2>1
<1>6. FreeSock \in SockT
    <2>1. <<>> \in Seq(Request)
        OBVIOUS
    <2>2. 0 \in 0 .. MaxMs
        BY HallSizes
    <2> QED BY <2>1, <2>2 DEF FreeSock, SockT
<1>7. /\ Slot' = Slot /\ sock' \in [Slot -> SockT] /\ \A p \in Slot : sock'[p] = FreeSock
    BY <1>1, <1>6 DEF Slot
<1>8. /\ freeL' \in Seq(Slot) /\ Free' = Slot /\ \A i, j \in 1 .. Len(freeL') : freeL'[i] = freeL'[j] => i = j
    <2>1. n \in Nat
        BY HallSizes
    <2>2. freeL' = [p \in 1 .. n |-> p] /\ freeL' \in [1 .. n -> Slot]
        BY <1>1, <1>3
    <2>3. freeL' \in Seq(Slot) /\ Len(freeL') = n
        BY <2>1, <2>2
    <2>4. \A p \in 1 .. n : freeL'[p] = p
        BY <2>2
    <2>5. Range(freeL') = 1 .. n
        <3> SUFFICES ASSUME NEW f \in Seq(Slot), Len(f) = n, \A p \in 1 .. n : f[p] = p
                     PROVE  Range(f) = 1 .. n
            BY <2>3, <2>4
        <3>1. /\ \A i \in 1 .. Len(f) : f[i] \in Range(f)
              /\ \A x \in Range(f) : \E i \in 1 .. Len(f) : f[i] = x
            <4> HIDE DEF Slot
            <4> QED BY RangeOf
        <3>2. \A i \in 1 .. n : i \in Range(f)
            BY <3>1
        <3>3. \A x \in Range(f) : x \in 1 .. n
            BY <3>1
        <3> QED BY <3>2, <3>3
    <2> QED BY <1>3, <2>3, <2>4, <2>5 DEF Free
<1>9. Forward
    BY <1>4, <1>7 DEF Forward, Old, Ended
<1>10. TcpTyped'
    <2>1. (\E k \in SlotNums : Slot' = 1 .. k) /\ zero' \in Conn \cup {Stdin, Closed}
        BY <1>1, <1>3, <1>7
    <2> HIDE DEF Slot
    <2> QED BY <1>5, <1>7, <1>8, <2>1 DEF TcpTyped
<1>11. ConnsKnown'
    <2> SUFFICES ASSUME NEW x \in Conn
                 PROVE  /\ cli'[x].st = "new" => cli'[x].pos = 0 /\ cli'[x].wrong = None
                        /\ Old(x)' => cli'[x].pos \in Slot' /\ cli'[x].time \in 1 .. MaxMs
        BY DEF ConnsKnown
    <2> QED BY <1>4, <1>7 DEF Slots, ConnsKnown, Old
<1>12. FreeOnce' /\ SlotsUsed'
    BY <1>7, <1>8 DEF FreeOnce, SlotsUsed
<1>13. OpenHolds' /\ ZeroOpen'
    BY <1>1, <1>4, HallSizes DEF OpenHolds, ZeroOpen
<1> QED BY <1>4, <1>7, <1>9, <1>10, <1>11, <1>12, <1>13 DEF Slots

-----------------------------------------------------------------------------
(* What is said of connections stays so.                                   *)

\* What a head says.
LEMMA HeadForward ==
    ASSUME Forward, NEW h, HeadOk(h)
    PROVE  HeadOk(h)'
<1>1. HeadT' = HeadT /\ h.to \in Conn
    BY DEF Forward, HeadT, HeadOk
<1> QED BY <1>1 DEF Forward, HeadOk

\* Connections that could be taken for one another.
LEMMA AlikeForward ==
    ASSUME TcpTyped, Slots, Forward, NEW c \in Conn, Old(c), NEW d \in Conn, Alike(c, d)
    PROVE  Alike(c, d)' /\ Old(d)
<1>1. Old(d)
    <2>1. cli[c].pos \in Slot /\ (~Old(d) => cli[d].pos = 0) /\ cli[c].pos = cli[d].pos
        BY DEF Slots, ConnsKnown, Old, Alike
    <2>2. 0 \notin Slot
        BY HallSizes DEF TcpTyped
    <2> QED BY <2>1, <2>2
<1> QED BY <1>1 DEF Forward, Alike

\* A twin stays one.
LEMMA TwinForward ==
    ASSUME TcpTyped, Slots, Forward, NEW c \in Conn, Old(c), HasTwin(c)
    PROVE  HasTwin(c)'
<1>1. PICK d \in Conn \ {c} : Alike(c, d)
    BY DEF HasTwin
<1>2. Alike(c, d)'
    BY <1>1, AlikeForward
<1> QED BY <1>2 DEF HasTwin

\* Messages.
LEMMA CsForward ==
    ASSUME Forward, NEW m, CsOk(m)
    PROVE  CsOk(m)'
<1>1. HeadOk(m.head) /\ m \in CsMsg
    BY DEF CsOk
<1>2. HeadOk(m.head)'
    BY <1>1, HeadForward
<1>3. CsMsg' = CsMsg
    BY DEF CsMsg, HeadT, Forward
<1> QED BY <1>1, <1>2, <1>3 DEF CsOk

\* Messages the other way.
LEMMA ScForward ==
    ASSUME Forward, NEW m, ScOk(m)
    PROVE  ScOk(m)'
<1>1. HeadOk(m.head) /\ m \in ScMsg
    BY DEF ScOk
<1>2. HeadOk(m.head)'
    BY <1>1, HeadForward
<1>3. ScMsg' = ScMsg
    BY DEF ScMsg, HeadT, Forward
<1> QED BY <1>1, <1>2, <1>3 DEF ScOk

\* A player's connection.
LEMMA PlayerForward ==
    ASSUME Forward, NEW u, PlayerOk(u), players'[u] = players[u]
    PROVE  PlayerOk(u)'
<1> DEFINE h == players[u].head
<1>1. HeadOk(h) /\ h \in HeadT /\ players'[u].head = h
    BY DEF PlayerOk
<1> HIDE DEF h
<1>2. ASSUME NEW g, g = h PROVE HeadOk(g)'
    BY <1>1, <1>2, HeadForward
<1>3. HeadT' = HeadT
    BY DEF Forward, HeadT
<1>4. HeadOk(players[u].head)'
    BY <1>1, <1>2 DEF HeadOk
<1> QED BY <1>1, <1>3, <1>4 DEF PlayerOk

\* What the hall server holds.
LEMMA HallForward ==
    ASSUME HallOk, Forward, UNCHANGED hallVars
    PROVE  HallOk'
<1>1. queue' = queue /\ login' = login /\ players' = players /\ sess' = sess /\ named' = named
    BY DEF hallVars
<1>2. HeadT' = HeadT /\ CsMsg' = CsMsg /\ MaxPlayers' = MaxPlayers
    BY DEF Forward, HeadT, CsMsg, MaxPlayers
<1>3. \A m : RequestOk(m) => RequestOk(m)'
    BY CsForward DEF RequestOk
<1>4. QueueOk'
    BY <1>1, <1>2, <1>3 DEF HallOk, QueueOk
<1>5. \A h : HeadOk(h) => HeadOk(h)'
    BY HeadForward
<1>6. SessOk'
    BY <1>1, <1>2, <1>5 DEF HallOk, SessOk
<1>7. LoginOk'
    BY <1>1, <1>2, <1>3 DEF HallOk, LoginOk, SessionLeft
<1>8. \A u \in DOMAIN players : PlayerOk(u)'
    BY <1>1, PlayerForward DEF HallOk, PlayersOk
<1>9. PlayersOk'
    BY <1>1, <1>2, <1>8 DEF HallOk, PlayersOk
<1>10. NamedOk'
    BY <1>1 DEF HallOk, NamedOk, Forward, PlayersOf
<1> QED BY <1>4, <1>6, <1>7, <1>9, <1>10 DEF HallOk

\* What a step of tcpsvr may do to the notices: one that is new is under way, and
\* of a connection that has ended.
Noticed(c) == Notice(c, told[c])
ToldStep ==
    told' \in PlayersOf /\ \A c \in Conn : told'[c] = told[c] \/ (Noticed(c)' /\ cli'[c].st \in Ended)

\* No other step sends one.
LEMMA ToldSame == ASSUME told \in PlayersOf, told' = told PROVE ToldStep
BY DEF ToldStep, PlayersOf

-----------------------------------------------------------------------------
(* The properties over a step of tcpsvr.                                   *)

\* What a client received by mistake stays explained.
LEMMA WrongKept ==
    ASSUME TcpTyped, Slots, Forward, NEW c \in Conn, WrongAt(c), cli'[c].wrong = cli[c].wrong
    PROVE  WrongAt(c)'
<1> SUFFICES ASSUME cli[c].wrong # None
             PROVE  /\ Old(cli[c].wrong)'
                    /\ \E d \in Conn : Alike(cli[c].wrong, d)' /\ (d = c \/ cli'[d].st = "lost")
    BY DEF WrongAt
<1> DEFINE w == cli[c].wrong
<1>1. w \in Conn
    BY DEF TcpTyped, ConnT
<1>2. PICK d \in Conn : Old(w) /\ Alike(w, d) /\ (d = c \/ cli[d].st = "lost")
    BY DEF WrongAt
<1>3. ASSUME NEW x, x = w
      PROVE  Old(x)' /\ Alike(x, d)' /\ (d = c \/ cli'[d].st = "lost")
    <2>1. x \in Conn /\ Old(x) /\ Alike(x, d)
        BY <1>1, <1>2, <1>3
    <2>2. Alike(x, d)' /\ Old(d)
        BY <2>1, AlikeForward
    <2>3. Old(x)' /\ (cli[d].st = "lost" => cli'[d].st = "lost")
        BY <2>1, <2>2 DEF Forward, Ended
    <2> QED BY <1>2, <2>2, <2>3
<1>4. Old(cli[c].wrong)' /\ Alike(cli[c].wrong, d)' /\ (d = c \/ cli'[d].st = "lost")
    BY <1>3 DEF Old, Alike
<1> QED BY <1>4

\* A player's connection that is open and has no twin was so before.
LEMMA StillOpen ==
    ASSUME TcpTyped, Slots, Forward, NEW c \in Conn, Old(c)
    PROVE  /\ cli'[c].st = "open" => cli[c].st = "open"
           /\ ~HasTwin(c)' => ~HasTwin(c)
<1>1. cli[c].st \in {"new", "open"} \cup Ended
    BY DEF TcpTyped, ConnT
<1>2. cli[c].st \in Ended => cli'[c].st = cli[c].st
    BY DEF Forward
<1> QED BY <1>1, <1>2, TwinForward DEF Old, Ended

\* What tcpsvr will know of open connections stays while it keeps their indices
\* and reads nothing from the sc pipe.
LEMMA LastKept ==
    ASSUME TcpTyped, Slots, ScPipe, NamedOk, Forward, AllLast, sc' = sc, named' = named,
           \A c \in Conn : Old(c) /\ cli'[c].st = "open" => sock'[cli[c].pos].index = sock[cli[c].pos].index,
           \A c \in Conn : ~Old(c) /\ cli'[c].st = "open" => sock'[cli'[c].pos].index = None
    PROVE  AllLast'
<1> SUFFICES ASSUME NEW c \in Conn, cli'[c].st = "open", ~HasTwin(c)' PROVE LastAt(c)'
    BY DEF AllLast, LastAt
<1>1. LastIs(sc, c, named[c], sock'[cli'[c].pos].index)
    <2>1. CASE Old(c)
        <3>1. cli[c].st = "open" /\ ~HasTwin(c)
            BY <2>1, StillOpen
        <3>2. LastIs(sc, c, named[c], sock[cli[c].pos].index)
            BY <3>1 DEF AllLast, LastAt
        <3>3. cli'[c].pos = cli[c].pos /\ sock'[cli[c].pos].index = sock[cli[c].pos].index
            BY <2>1 DEF Forward
        <3> QED BY <3>2, <3>3
    <2>2. CASE ~Old(c)
        <3>1. named[c] = None /\ sock'[cli'[c].pos].index = None
            BY <2>2 DEF NamedOk
        <3>2. \A k \in DOMAIN sc : sc[k].head.to # c
            <4> SUFFICES ASSUME NEW k \in DOMAIN sc PROVE sc[k].head.to # c
                OBVIOUS
            <4>1. PICK m : m = sc[k]
                OBVIOUS
            <4>2. m \in Range(sc)
                BY <4>1 DEF Range
            <4>3. HeadOk(m.head)
                BY <4>2 DEF ScPipe, ScOk
            <4> QED BY <2>2, <4>1, <4>3 DEF HeadOk
        <3> QED BY <3>1, <3>2 DEF LastIs, IndexFor
    <2> QED BY <2>1, <2>2
<1>2. PICK i : i = sock'[cli'[c].pos].index
    OBVIOUS
<1>3. PICK v : v = named[c]
    OBVIOUS
<1>4. LastIs(sc, c, v, i)
    BY <1>1, <1>2, <1>3
<1>5. LastIs(sc, c, v, i)'
    BY <1>4 DEF LastIs, IndexFor
<1> QED BY <1>2, <1>3, <1>5 DEF LastAt, LastIs, IndexFor

\* A notice is under way for every connection that has just ended with one.
NoticesStay == \A c \in Conn, v \in Uid : Notice(c, v) => Notice(c, v)'

\* So that what is said of the players told of stays so.
LEMMA GoneKept ==
    ASSUME NEW u \in Uid, PlayerOk(u), GoneAt(u), players'[u] = players[u], NoticesStay, ToldStep
    PROVE  GoneAt(u)'
<1>1. PICK c : c = players[u].head.to
    OBVIOUS
<1>2. c \in Conn /\ players'[u].head.to = c /\ players'[u].late = players[u].late
    BY <1>1 DEF PlayerOk, HeadT
<1>3. told[c] = u => players[u].late \/ Notice(c, u)
    BY <1>1 DEF GoneAt
<1>4. Notice(c, u) => Notice(c, u)'
    BY <1>2 DEF NoticesStay
<1>5. told'[c] = told[c] \/ Noticed(c)'
    BY <1>2 DEF ToldStep
<1>6. Noticed(c)' /\ told'[c] = u => Notice(c, u)'
    BY DEF Noticed, Notice
<1>7. told'[c] = u => players'[u].late \/ Notice(c, u)'
    BY <1>2, <1>3, <1>4, <1>5, <1>6
<1> QED BY <1>2, <1>7 DEF GoneAt, Notice

\* A notice under way is of a connection that has ended.
LEMMA NoticesKept ==
    ASSUME Forward, NoticesTrue, ToldStep, \A c \in Conn : NoticeComing(c)' => NoticeComing(c) \/ cli'[c].st \in Ended
    PROVE  NoticesTrue'
<1>1. \A c \in Conn : cli[c].st \in Ended => cli'[c].st = cli[c].st
    BY DEF Forward, Old, Ended
<1>2. \A c \in Conn : told'[c] = told[c] \/ cli'[c].st \in Ended
    BY DEF ToldStep
<1> QED BY <1>1, <1>2 DEF NoticesTrue

\* The two sides stay agreed on a connection while tcpsvr does not drop its
\* dismissal.
LEMMA AgreedKept ==
    ASSUME TcpTyped, Slots, Forward, NamedOk, UNCHANGED hallVars, NEW c \in Conn, AgreedAt(c),
           Old(c) /\ cli'[c].st = "open" /\ ~HasTwin(c)' /\ Coming("bye", c) => Coming("bye", c)'
    PROVE  AgreedAt(c)'
<1>1. named' = named /\ players' = players /\ login' = login
    BY DEF hallVars
<1>2. CASE Old(c)
    <2>1. /\ cli'[c].st = "open" => cli[c].st = "open"
          /\ ~HasTwin(c)' => ~HasTwin(c)
        BY <1>2, StillOpen
    <2>2. (HasPlayer(c) => HasPlayer(c)') /\ (Refusing(c) => Refusing(c)')
        BY <1>1 DEF HasPlayer, Refusing
    <2> QED BY <1>1, <1>2, <2>1, <2>2 DEF AgreedAt
<1>3. CASE ~Old(c)
    BY <1>1, <1>3 DEF AgreedAt, NamedOk
<1> QED BY <1>2, <1>3

\* A step of tcpsvr that takes nothing from the sc pipe.
LEMMA TcpStep ==
    ASSUME IInv, TcpTyped', Slots', Forward, UNCHANGED hallVars, sc' = sc, CsPipe', Range(cs) \subseteq Range(cs'),
           ms' \in Nat, trouble' \in BOOLEAN, trouble => trouble', ToldStep,
           \A c \in Conn : Old(c) /\ cli'[c].st = "open" => sock'[cli[c].pos].index = sock[cli[c].pos].index,
           \A c \in Conn : ~Old(c) /\ cli'[c].st = "open" => sock'[cli'[c].pos].index = None,
           \A c \in Conn : cli'[c].wrong = cli[c].wrong,
           \A c \in Conn : NoticeComing(c)' => NoticeComing(c) \/ cli'[c].st \in Ended
    PROVE  IInv'
<1>1. TcpTyped /\ Slots /\ CsPipe /\ ScPipe /\ HallOk /\ NamedOk /\ WrongOk /\ AllLast /\ AllGone /\ Agreed /\ NoticesTrue
    BY DEF IInv, Typed, Says, HallOk
<1>2. HallOk'
    BY <1>1, HallForward
<1>3. ScPipe'
    <2>1. ScMsg' = ScMsg
        BY DEF Forward, ScMsg, HeadT
    <2>2. \A m : ScOk(m) => ScOk(m)'
        BY ScForward
    <2> QED BY <1>1, <2>1, <2>2 DEF ScPipe
<1>4. WrongOk'
    BY <1>1, WrongKept DEF WrongOk
<1>5. named' = named /\ players' = players /\ \A u \in DOMAIN players : PlayerOk(u) /\ u \in Uid
    BY <1>1 DEF hallVars, HallOk, PlayersOk
<1>6. AllLast'
    BY <1>1, <1>5, LastKept
<1>7. NoticesStay
    BY DEF NoticesStay, Notice
<1>8. AllGone'
    BY <1>1, <1>5, <1>7, GoneKept DEF AllGone
<1>9. NoticesTrue'
    BY <1>1, NoticesKept
<1>10. Agreed'
    <2> SUFFICES ASSUME ~trouble, NEW c \in Conn PROVE AgreedAt(c)'
        BY DEF Agreed
    <2>1. AgreedAt(c)
        BY <1>1 DEF Agreed
    <2>2. Coming("bye", c)' = Coming("bye", c)
        BY DEF Coming
    <2> QED BY <1>1, <2>1, <2>2, AgreedKept
<1>11. told' \in PlayersOf
    BY DEF ToldStep
<1> QED BY <1>2, <1>3, <1>4, <1>6, <1>8, <1>9, <1>10, <1>11 DEF IInv, Typed, Says

-----------------------------------------------------------------------------
(* tcpsvr's steps.                                                         *)

\* What the cs pipe holds stays right.
LEMMA CsPipeForward ==
    ASSUME Forward, NEW pipe \in Seq(CsMsg), Len(pipe) <= CsCap,
           \A m \in Range(pipe) : CsOk(m), cs' = pipe
    PROVE  CsPipe'
<1>1. CsMsg' = CsMsg
    BY DEF Forward, CsMsg, HeadT
<1>2. \A m : CsOk(m) => CsOk(m)'
    BY CsForward
<1> QED BY <1>1, <1>2 DEF CsPipe

\* AcceptConnect.
LEMMA AcceptStep ==
    ASSUME IInv, NEW c \in Conn, NEW t \in 1 .. MaxMs, AcceptConnect(c, t)
    PROVE  IInv'
<1>1. TcpTyped /\ Slots /\ CsPipe
    BY DEF IInv, Typed, Says
<1>2. /\ TcpTyped' /\ Slots' /\ Forward
      /\ cli[c].st = "new" /\ cli'[c].st = "open" /\ cli'[c].wrong = None /\ cli'[c].pos \in Slot
      /\ sock'[cli'[c].pos].index = None /\ sock'[cli'[c].pos].conn = c
      /\ \A x \in Conn \ {c} : cli'[x] = cli[x]
      /\ \A q \in Slot \ {cli'[c].pos} : sock'[q] = sock[q]
      /\ cli'[c].pos \in Free
    BY <1>1, AcceptSlots
<1>3. UNCHANGED hallVars /\ sc' = sc /\ cs' = cs /\ ms' = t /\ trouble' = trouble /\ told' = told
    BY DEF AcceptConnect
<1>4. CsPipe'
    BY <1>1, <1>2, <1>3, CsPipeForward DEF CsPipe
<1>5. ms' \in Nat /\ trouble' \in BOOLEAN
    BY <1>3, HallSizes DEF IInv, Typed
<1>6. cli[c].wrong = None
    BY <1>1, <1>2 DEF Slots, ConnsKnown
<1>7. ASSUME NEW x \in Conn, Old(x), cli'[x].st = "open"
      PROVE  sock'[cli[x].pos].index = sock[cli[x].pos].index
    <2>1. x # c /\ cli[x].st = "open"
        BY <1>2, <1>7 DEF Old
    <2>2. cli[x].pos \in Slot /\ sock[cli[x].pos].conn # None
        BY <1>1, <2>1, HallSizes DEF Slots, ConnsKnown, OpenHolds, Old
    <2>3. cli[x].pos \notin Free
        BY <1>1, <2>2, UsedOrFree
    <2> QED BY <1>2, <2>2, <2>3
<1>8. \A x \in Conn : ~Old(x) /\ cli'[x].st = "open" => sock'[cli'[x].pos].index = None
    BY <1>2 DEF Old
<1>9. \A x \in Conn : cli'[x].wrong = cli[x].wrong
    BY <1>2, <1>6
<1>10. ToldStep
    BY <1>3, ToldSame DEF IInv, Typed
<1>11. \A x \in Conn : NoticeComing(x)' => NoticeComing(x)
    BY <1>3 DEF NoticeComing
<1> QED BY <1>2, <1>3, <1>4, <1>5, <1>7, <1>8, <1>9, <1>10, <1>11, TcpStep

\* AcceptFails.
LEMMA AcceptFailsStep ==
    ASSUME IInv, AcceptFails
    PROVE  IInv'
<1>1. TcpTyped /\ Slots /\ CsPipe
    BY DEF IInv, Typed, Says
<1>2. /\ TcpTyped' /\ Slots' /\ Forward /\ sock' = sock
      /\ \A x \in Conn : cli'[x] = cli[x] \/ (cli'[x].st = "lost" /\ cli'[x].wrong = cli[x].wrong)
    BY <1>1, AcceptFailsSlots
<1>3. UNCHANGED hallVars /\ sc' = sc /\ cs' = cs /\ ms' = ms /\ trouble' = trouble /\ told' = told
    BY DEF AcceptFails
<1>4. CsPipe'
    BY <1>1, <1>2, <1>3, CsPipeForward DEF CsPipe
<1>5. ms' \in Nat /\ trouble' \in BOOLEAN
    BY <1>3 DEF IInv, Typed
<1>6. \A x \in Conn : ~Old(x) /\ cli'[x].st = "open" => FALSE
    BY <1>2 DEF Old
<1>7. \A x \in Conn : NoticeComing(x)' => NoticeComing(x)
    BY <1>3 DEF NoticeComing
<1>8. ToldStep
    BY <1>3, ToldSame DEF IInv, Typed
<1> QED BY <1>2, <1>3, <1>4, <1>5, <1>6, <1>7, <1>8, TcpStep

\* TcpRestart.
LEMMA TcpRestartStep ==
    ASSUME IInv, TcpRestart
    PROVE  IInv'
<1>1. TcpTyped /\ Slots /\ CsPipe
    BY DEF IInv, Typed, Says
<1>2. /\ TcpTyped' /\ Slots' /\ Forward
      /\ \A x \in Conn : cli'[x].st # "open" /\ cli'[x].wrong = cli[x].wrong
    BY <1>1, TcpRestartSlots
<1>3. UNCHANGED hallVars /\ sc' = sc /\ cs' = cs /\ ms' = ms /\ trouble' = trouble /\ told' = told
    BY DEF TcpRestart
<1>4. CsPipe'
    BY <1>1, <1>2, <1>3, CsPipeForward DEF CsPipe
<1>5. ms' \in Nat /\ trouble' \in BOOLEAN
    BY <1>3 DEF IInv, Typed
<1>6. ToldStep
    BY <1>3, ToldSame DEF IInv, Typed
<1>7. \A x \in Conn : NoticeComing(x)' => NoticeComing(x)
    BY <1>3 DEF NoticeComing
<1> QED BY <1>2, <1>3, <1>4, <1>5, <1>6, <1>7, TcpStep

\* Position p's messages name its connection.
LEMMA HeadOfOk ==
    ASSUME TcpTyped, Slots, NEW p \in Slot, sock[p].conn # None
    PROVE  /\ HeadOk(HeadOf(p)) /\ HeadOf(p) \in HeadT /\ HeadOf(p).to = sock[p].conn
           /\ sock[p].conn \in Conn /\ Old(sock[p].conn)
<1>1. InUse(p)
    BY UsedOrFree
<1> DEFINE c == sock[p].conn
<1>2. c \in Conn /\ Old(c) /\ cli[c].pos = p /\ cli[c].time = sock[p].time
    BY <1>1 DEF InUse, Old
<1>3. cli[c].time \in 1 .. MaxMs
    BY <1>2 DEF Slots, ConnsKnown
<1> HIDE DEF c
<1>4. HeadOf(p) = [pos |-> p, time |-> sock[p].time, to |-> c]
    BY DEF HeadOf, c
<1>5. HeadOf(p) \in HeadT /\ HeadOf(p).to = c /\ HeadOf(p).pos = p /\ HeadOf(p).time = sock[p].time
    BY <1>2, <1>3, <1>4 DEF HeadT
<1> QED BY <1>2, <1>3, <1>5 DEF HeadOk, c

\* The frames read from position p.
LEMMA FramesOk ==
    ASSUME TcpTyped, Slots, NEW p \in Slot, sock[p].conn # None, sock[p].buf # Torn, NEW read \in Sent
    PROVE  /\ sock[p].buf \o read \in Seq(Request)
           /\ Frames(p, read) \in Seq(CsMsg) /\ \A m \in Range(Frames(p, read)) : RequestOk(m)
           /\ Len(Frames(p, read)) = Len(sock[p].buf \o read)
<1> DEFINE all == sock[p].buf \o read
           h == HeadOf(p)
           f == [i \in DOMAIN all |-> [kind |-> all[i].kind, uid |-> all[i].uid, head |-> h]]
<1>1. HeadOk(h) /\ h \in HeadT
    BY HeadOfOk
<1>2. sock[p].buf \in Seq(Request)
    BY DEF TcpTyped, SockT
<1>3. read \in Seq(Request)
    <2> HIDE DEF Request
    <2>1. CASE read = <<>>
        BY <2>1
    <2>2. CASE read \in {<<r>> : r \in Request}
        <3>1. PICK r \in Request : read = <<r>>
            BY <2>2
        <3>2. <<r>> \in Seq(Request)
            OBVIOUS
        <3> QED BY <3>1, <3>2
    <2> QED BY <2>1, <2>2 DEF Sent
<1>4. all \in Seq(Request)
    <2> HIDE DEF Request
    <2> QED BY <1>2, <1>3, RangeConcat
<1>5. Frames(p, read) = f
    BY DEF Frames
<1> HIDE DEF all, h
<1>6. DOMAIN all = 1 .. Len(all) /\ Len(all) \in Nat /\ \A i \in 1 .. Len(all) : all[i] \in Request
    <2> HIDE DEF Request
    <2> QED BY <1>4
<1>7. ASSUME NEW i \in 1 .. Len(all)
      PROVE  f[i] \in CsMsg /\ RequestOk(f[i])
    <2>1. PICK r \in Request : r = all[i]
        BY <1>6
    <2> DEFINE m == [kind |-> r.kind, uid |-> r.uid, head |-> h]
    <2>2. f[i] = m
        BY <1>6, <2>1
    <2>3. r.kind \in {"login", "other"} /\ r.uid \in Uid
        BY DEF Request
    <2>4. m \in CsMsg /\ m.head = h /\ m.kind # "discon"
        BY <1>1, <2>3 DEF CsMsg
    <2> HIDE DEF m
    <2>5. RequestOk(m)
        BY <1>1, <2>4 DEF CsOk, RequestOk
    <2> QED BY <2>2, <2>4, <2>5
<1>8. f \in [1 .. Len(all) -> CsMsg]
    <2>1. f = [i \in 1 .. Len(all) |-> f[i]]
        BY <1>6
    <2> HIDE DEF f
    <2> QED BY <1>7, <2>1
<1> HIDE DEF f
<1>9. f \in Seq(CsMsg) /\ Len(f) = Len(all)
    BY <1>6, <1>8
<1>10. \A m \in Range(f) : RequestOk(m)
    BY <1>7, <1>9, RangeOf
<1> QED BY <1>4, <1>5, <1>9, <1>10 DEF all

\* SocketRelease.  What it hands on fits or is lost; a notice is under way for
\* the connection it closes with one.
LEMMA ReleaseFacts ==
    ASSUME TcpTyped, Slots, CsPipe, told \in PlayersOf, trouble \in BOOLEAN, NEW p \in Slot, sock[p].conn # None,
           NEW notify \in BOOLEAN, NEW msgs \in Seq(CsMsg), \A m \in Range(msgs) : RequestOk(m),
           NEW d \in Conn \cup {None}, SocketRelease(p, notify, msgs, d)
    PROVE  /\ TcpTyped' /\ Slots' /\ Forward /\ CsPipe' /\ Range(cs) \subseteq Range(cs')
           /\ trouble' \in BOOLEAN /\ (trouble => trouble')
           /\ sock'[p] = FreeSock /\ \A q \in Slot \ {p} : sock'[q] = sock[q]
           /\ \A c \in Conn : cli'[c].st = "open" => cli[c].st = "open" /\ cli[c].pos # p
           /\ \A c \in Conn \ {Denotes(p)} : cli'[c] = cli[c]
           /\ Denotes(p) \in Conn => cli'[Denotes(p)].wrong = Hears(Denotes(p), d)
           /\ ToldStep
           /\ \A c \in Conn : NoticeComing(c)' => NoticeComing(c) \/ cli'[c].st \in Ended
<1> DEFINE c == Denotes(p)
           pipe == Fill(cs, msgs, CsCap)
           tell == notify /\ sock[p].index # None
           how == IF c # sock[p].conn THEN "lost"
                  ELSE IF tell /\ Room(pipe, CsCap) THEN "noticed" ELSE "silent"
           w == IF c \in Conn THEN Hears(c, d) ELSE None
           notice == [kind |-> "discon", uid |-> sock[p].index, head |-> HeadOf(p)]
<1>1. /\ sock' = [sock EXCEPT ![p] = FreeSock] /\ freeL' = Append(freeL, p)
      /\ zero' = IF sock[p].fd = 0 THEN Closed ELSE zero
      /\ cs' = IF ~tell THEN pipe ELSE Offer(pipe, notice, CsCap)
      /\ cli' = IF c \in Conn THEN [cli EXCEPT ![c].st = how, ![c].wrong = w] ELSE cli
      /\ told' = IF tell /\ Room(pipe, CsCap) THEN [told EXCEPT ![sock[p].conn] = sock[p].index] ELSE told
      /\ trouble' = (trouble \/ (tell /\ ~Room(pipe, CsCap)))
    BY DEF SocketRelease
<1>2. how \in Ended /\ (c # sock[p].conn => how = "lost")
    BY DEF Ended
<1>3. HeadOk(HeadOf(p)) /\ HeadOf(p) \in HeadT /\ HeadOf(p).to = sock[p].conn
    BY HeadOfOk
<1>4. tell => /\ notice \in CsMsg /\ CsOk(notice) /\ notice.kind = "discon" /\ notice.head.to = sock[p].conn
              /\ notice.uid = sock[p].index /\ sock[p].index \in Uid
    <2> SUFFICES ASSUME tell
                 PROVE  /\ notice \in CsMsg /\ CsOk(notice) /\ notice.kind = "discon" /\ notice.head.to = sock[p].conn
                        /\ notice.uid = sock[p].index /\ sock[p].index \in Uid
        OBVIOUS
    <2>1. sock[p].index \in Uid
        BY DEF TcpTyped, SockT
    <2> DEFINE i == sock[p].index
               h == HeadOf(p)
    <2> HIDE DEF i, h
    <2>2. notice = [kind |-> "discon", uid |-> i, head |-> h]
        BY DEF i, h
    <2>3. i \in Uid /\ h \in HeadT
        BY <1>3, <2>1 DEF i, h
    <2> HIDE DEF notice
    <2>4. notice \in CsMsg /\ notice.kind = "discon" /\ notice.uid = i /\ notice.head = h
        BY <2>2, <2>3 DEF CsMsg
    <2>5. notice.uid = sock[p].index /\ notice.head = HeadOf(p)
        BY <2>4 DEF i, h
    <2> QED BY <1>3, <2>1, <2>4, <2>5 DEF CsOk
<1>5. /\ pipe \in Seq(CsMsg) /\ Len(pipe) <= CsCap /\ Range(cs) \subseteq Range(pipe)
      /\ \A m \in Range(pipe) : CsOk(m) /\ (m.kind = "discon" => m \in Range(cs))
    <2>1. cs \in Seq(CsMsg) /\ Len(cs) <= CsCap /\ CsCap \in Nat /\ \A m \in Range(cs) : CsOk(m)
        BY HallSizes DEF CsPipe
    <2>2. pipe \in Seq(CsMsg) /\ Len(pipe) <= CsCap /\ Range(cs) \subseteq Range(pipe)
            /\ Range(pipe) \subseteq Range(cs) \cup Range(msgs)
        BY <2>1, FillFacts
    <2> QED BY <2>1, <2>2 DEF RequestOk
<1>6. w \in Conn \cup {None}
    BY DEF Hears, TcpTyped, ConnT
<1>7. Closes(p, how, w)
    BY <1>1 DEF Closes
<1> HIDE DEF pipe, tell, how, w, notice
<1>8. /\ TcpTyped' /\ Slots' /\ Forward
      /\ \A x \in Conn \ {c} : cli'[x] = cli[x]
      /\ c \in Conn => cli'[c].st = how /\ cli'[c].wrong = w
    BY <1>2, <1>6, <1>7, ReleaseSlots
<1>9. /\ cs' \in Seq(CsMsg) /\ Len(cs') <= CsCap /\ Range(cs) \subseteq Range(cs')
      /\ \A m \in Range(cs') : CsOk(m) /\ (m.kind = "discon" => m \in Range(cs) \/ (tell /\ m = notice))
      /\ tell /\ Room(pipe, CsCap) => notice \in Range(cs')
    <2>1. CASE ~tell
        BY <1>1, <1>5, <2>1
    <2>2. CASE tell
        <3>1. CsCap \in Nat /\ notice \in CsMsg /\ CsOk(notice) /\ cs' = Offer(pipe, notice, CsCap)
            BY <1>1, <1>4, <2>2, HallSizes
        <3>2. /\ Offer(pipe, notice, CsCap) \in Seq(CsMsg) /\ Len(Offer(pipe, notice, CsCap)) <= CsCap
              /\ Range(pipe) \subseteq Range(Offer(pipe, notice, CsCap))
              /\ Range(Offer(pipe, notice, CsCap)) \subseteq Range(pipe) \cup {notice}
              /\ Room(pipe, CsCap) => notice \in Range(Offer(pipe, notice, CsCap))
            BY <1>5, <3>1, OfferFacts
        <3>3. ASSUME NEW m \in Range(cs')
              PROVE  CsOk(m) /\ (m.kind = "discon" => m \in Range(cs) \/ (tell /\ m = notice))
            <4>1. m \in Range(pipe) \/ m = notice
                BY <3>1, <3>2
            <4> QED BY <1>5, <2>2, <3>1, <4>1
        <3>4. Range(cs) \subseteq Range(cs')
            BY <1>5, <3>1, <3>2
        <3> QED BY <3>1, <3>2, <3>3, <3>4
    <2> QED BY <2>1, <2>2
<1>10. CsPipe'
    <2>1. PICK q \in Seq(CsMsg) : q = cs'
        BY <1>9
    <2>2. Len(q) <= CsCap /\ (\A m \in Range(q) : CsOk(m)) /\ cs' = q
        BY <1>9, <2>1
    <2> QED BY <1>8, <2>2, CsPipeForward
<1>11. sock'[p] = FreeSock /\ \A q \in Slot \ {p} : sock'[q] = sock[q]
    BY <1>1 DEF TcpTyped
<1>12. ASSUME NEW x \in Conn, cli'[x].st = "open"
       PROVE  cli[x].st = "open" /\ cli[x].pos # p
    <2>1. x # c
        BY <1>2, <1>8, <1>12 DEF Ended
    <2>2. cli[x].st = "open"
        BY <1>8, <1>12, <2>1
    <2>3. Denotes(cli[x].pos) = x
        BY <2>2 DEF Slots, OpenHolds
    <2> QED BY <2>1, <2>2, <2>3
<1>14. trouble' \in BOOLEAN /\ (trouble => trouble')
    BY <1>1
<1>15. cli'[sock[p].conn].st \in Ended
    <2>1. InUse(p)
        BY UsedOrFree
    <2>2. c # sock[p].conn => cli[sock[p].conn].st = "lost"
        <3>1. cli[sock[p].conn].st = "open" => Denotes(p) = sock[p].conn
            BY <2>1 DEF Slots, OpenHolds, InUse
        <3> QED BY <2>1, <3>1 DEF InUse
    <2> QED BY <1>2, <1>8, <2>1, <2>2 DEF InUse, Ended
<1>16. ASSUME NEW x \in Conn, NoticeComing(x)', ~NoticeComing(x)
       PROVE  cli'[x].st \in Ended
    <2>1. PICK m \in Range(cs') : m.kind = "discon" /\ m.head.to = x
        BY <1>16 DEF NoticeComing
    <2>2. m \notin Range(cs)
        BY <1>16, <2>1 DEF NoticeComing
    <2>3. x = sock[p].conn
        BY <1>4, <1>9, <2>1, <2>2
    <2> QED BY <1>15, <2>3
<1>13. ToldStep
    <2>1. CASE tell /\ Room(pipe, CsCap)
        <3>1. PICK x : x = sock[p].conn
            OBVIOUS
        <3>2. PICK i : i = sock[p].index
            OBVIOUS
        <3>3. x \in Conn /\ i \in Uid /\ told' = [told EXCEPT ![x] = i]
            BY <1>1, <1>4, <2>1, <3>1, <3>2, HeadOfOk
        <3>4. told' \in PlayersOf /\ told'[x] = i /\ \A y \in Conn \ {x} : told'[y] = told[y]
            BY <3>3 DEF PlayersOf
        <3>5. notice \in Range(cs') /\ notice.kind = "discon" /\ notice.head.to = x /\ notice.uid = told'[x]
            BY <1>4, <1>9, <2>1, <3>1, <3>2, <3>4
        <3>6. Noticed(x)'
            <4>1. ASSUME NEW m, m = notice PROVE Noticed(x)'
                BY <3>5, <4>1 DEF Noticed, Notice
            <4> QED BY <4>1
        <3> QED BY <1>15, <3>1, <3>4, <3>6 DEF ToldStep
    <2>2. CASE ~(tell /\ Room(pipe, CsCap))
        BY <1>1, <2>2, ToldSame
    <2> QED BY <2>1, <2>2
<1> QED BY <1>8, <1>9, <1>10, <1>11, <1>12, <1>13, <1>14, <1>16 DEF w

\* A release while nothing is sent.
LEMMA ReleaseStep ==
    ASSUME IInv, NEW p \in Slot, sock[p].conn # None, NEW msgs \in Seq(CsMsg), \A m \in Range(msgs) : RequestOk(m),
           SocketRelease(p, TRUE, msgs, None), UNCHANGED <<ms, sc, hallVars>>
    PROVE  IInv'
<1>1. TcpTyped /\ Slots /\ CsPipe /\ told \in PlayersOf /\ trouble \in BOOLEAN /\ ms \in Nat
    BY DEF IInv, Typed, Says
<1>2. /\ TcpTyped' /\ Slots' /\ Forward /\ CsPipe' /\ Range(cs) \subseteq Range(cs')
      /\ trouble' \in BOOLEAN /\ (trouble => trouble')
      /\ sock'[p] = FreeSock /\ \A q \in Slot \ {p} : sock'[q] = sock[q]
      /\ \A c \in Conn : cli'[c].st = "open" => cli[c].st = "open" /\ cli[c].pos # p
      /\ \A c \in Conn \ {Denotes(p)} : cli'[c] = cli[c]
      /\ Denotes(p) \in Conn => cli'[Denotes(p)].wrong = Hears(Denotes(p), None)
      /\ ToldStep
      /\ \A c \in Conn : NoticeComing(c)' => NoticeComing(c) \/ cli'[c].st \in Ended
    <2>1. TRUE \in BOOLEAN /\ None \in Conn \cup {None}
        OBVIOUS
    <2> QED BY <1>1, <2>1, ReleaseFacts
<1>3. \A c \in Conn : cli'[c].wrong = cli[c].wrong
    BY <1>2 DEF Hears
<1>5. \A c \in Conn : cli'[c].st = "open" => Old(c) /\ sock'[cli[c].pos].index = sock[cli[c].pos].index
    BY <1>1, <1>2 DEF Slots, ConnsKnown, Old
<1>7. UNCHANGED hallVars /\ sc' = sc /\ ms' \in Nat
    BY <1>1 DEF hallVars
<1>8. \A c \in Conn : Old(c) /\ cli'[c].st = "open" => sock'[cli[c].pos].index = sock[cli[c].pos].index
    BY <1>5
<1>9. \A c \in Conn : ~Old(c) /\ cli'[c].st = "open" => sock'[cli'[c].pos].index = None
    BY <1>5
<1> QED BY <1>2, <1>3, <1>7, <1>8, <1>9, TcpStep

\* What was read is handed on as far as it fits, and the rest is kept.
LEMMA KeepStep ==
    ASSUME IInv, NEW p \in Slot, Readable(p), NEW read \in Sent,
           NEW b \in Seq(Request) \cup {Torn},
           cs' = Fill(cs, Frames(p, read), CsCap), sock' = [sock EXCEPT ![p].buf = b],
           UNCHANGED <<cli, ms, freeL, zero, told, sc, hallVars, trouble>>
    PROVE  IInv'
<1>1. TcpTyped /\ Slots /\ CsPipe /\ told \in PlayersOf /\ trouble \in BOOLEAN /\ ms \in Nat
    BY DEF IInv, Typed, Says
<1>2. sock[p].conn # None /\ sock[p].buf # Torn
    BY DEF Readable, Event
<1>3. sock \in [Slot -> SockT] /\ sock[p] \in SockT
    BY <1>1 DEF TcpTyped
<1> DEFINE r == [sock[p] EXCEPT !.buf = b]
<1>4. /\ r \in SockT /\ r.conn = sock[p].conn /\ r.fd = sock[p].fd /\ r.time = sock[p].time
      /\ r.index = sock[p].index
    BY <1>3 DEF SockT
<1> HIDE DEF r
<1>5. sock' = [sock EXCEPT ![p] = r]
    BY DEF r
<1>6. TcpTyped' /\ Slots' /\ Forward
    BY <1>1, <1>2, <1>4, <1>5, SockChanges
<1>7. \A q \in Slot : sock'[q].conn = sock[q].conn /\ sock'[q].index = sock[q].index
    BY <1>3, <1>4, <1>5
<1>8. CsPipe' /\ Range(cs) \subseteq Range(cs') /\ \A m \in Range(cs') : m.kind = "discon" => m \in Range(cs)
    <2>1. Frames(p, read) \in Seq(CsMsg) /\ \A m \in Range(Frames(p, read)) : CsOk(m) /\ m.kind # "discon"
        BY <1>1, <1>2, FramesOk DEF RequestOk
    <2>2. cs \in Seq(CsMsg) /\ Len(cs) <= CsCap /\ CsCap \in Nat /\ \A m \in Range(cs) : CsOk(m)
        BY <1>1, HallSizes DEF CsPipe
    <2>3. PICK q : q = Fill(cs, Frames(p, read), CsCap)
        OBVIOUS
    <2>4. q \in Seq(CsMsg) /\ Len(q) <= CsCap /\ Range(cs) \subseteq Range(q)
            /\ Range(q) \subseteq Range(cs) \cup Range(Frames(p, read))
        BY <2>1, <2>2, <2>3, FillFacts
    <2>5. cs' = q /\ \A m \in Range(q) : CsOk(m) /\ (m.kind = "discon" => m \in Range(cs))
        BY <2>1, <2>2, <2>3, <2>4
    <2> QED BY <1>1, <1>6, <2>4, <2>5, CsPipeForward
<1>9. \A c \in Conn : Old(c) => cli[c].pos \in Slot
    BY <1>1 DEF Slots, ConnsKnown
<1>10. UNCHANGED hallVars /\ sc' = sc /\ ms' \in Nat /\ trouble' = trouble /\ cli' = cli /\ told' = told
    BY <1>1 DEF hallVars
<1>11. \A c \in Conn : ~Old(c) => cli'[c].st # "open"
    BY <1>10 DEF Old
<1>12. \A c \in Conn : Old(c) => sock'[cli[c].pos].index = sock[cli[c].pos].index
    BY <1>7, <1>9
<1>13. \A c \in Conn : NoticeComing(c)' => NoticeComing(c)
    BY <1>8 DEF NoticeComing
<1>14. ToldStep
    BY <1>1, <1>10, ToldSame
<1> QED BY <1>1, <1>6, <1>7, <1>8, <1>10, <1>11, <1>12, <1>13, <1>14, TcpStep

\* RecvEnd.
LEMMA RecvEndStep ==
    ASSUME IInv, NEW p \in Slot, NEW read \in Sent, RecvEnd(p, read)
    PROVE  IInv'
<1>1. TcpTyped /\ Slots /\ sock[p].conn # None /\ sock[p].buf # Torn
    BY DEF IInv, Typed, RecvEnd, Readable, Event
<1>2. Frames(p, read) \in Seq(CsMsg) /\ \A m \in Range(Frames(p, read)) : RequestOk(m)
    BY <1>1, FramesOk
<1>3. SocketRelease(p, TRUE, Frames(p, read), None) /\ UNCHANGED <<ms, sc, hallVars>>
    BY DEF RecvEnd
<1> QED BY <1>1, <1>2, <1>3, ReleaseStep

\* RecvError.
LEMMA RecvErrorStep ==
    ASSUME IInv, NEW p \in Slot, RecvError(p)
    PROVE  IInv'
<1>1. sock[p].conn # None
    BY DEF RecvError, Event
<1>2. <<>> \in Seq(CsMsg) /\ \A m \in Range(<<>>) : RequestOk(m)
    <2>1. <<>> \in Seq(CsMsg) /\ Len(<<>>) = 0
        OBVIOUS
    <2>2. PICK e \in Seq(CsMsg) : e = <<>>
        BY <2>1
    <2>3. ASSUME NEW m \in Range(e) PROVE FALSE
        <3>1. PICK i \in 1 .. Len(e) : e[i] = m
            BY RangeOf
        <3> QED BY <2>1, <2>2, <3>1
    <2> QED BY <2>1, <2>2, <2>3
<1>3. SocketRelease(p, TRUE, <<>>, None) /\ UNCHANGED <<ms, sc, hallVars>>
    BY DEF RecvError
<1> QED BY <1>1, <1>2, <1>3, ReleaseStep

\* RecvReturns.
LEMMA RecvReturnsStep ==
    ASSUME IInv, NEW p \in Slot, NEW read \in Sent, RecvReturns(p, read)
    PROVE  IInv'
<1> DEFINE all == sock[p].buf \o read
           b == SubSeq(all, Len(cs') - Len(cs) + 1, Len(all))
<1>1. TcpTyped /\ Slots /\ CsPipe /\ Readable(p) /\ sock[p].conn # None /\ sock[p].buf # Torn
    BY DEF IInv, Typed, Says, RecvReturns, Readable, Event
<1>2. /\ all \in Seq(Request) /\ Frames(p, read) \in Seq(CsMsg) /\ Len(Frames(p, read)) = Len(all)
    BY <1>1, FramesOk
<1>3. /\ cs' = Fill(cs, Frames(p, read), CsCap) /\ sock' = [sock EXCEPT ![p].buf = b]
      /\ UNCHANGED <<cli, ms, freeL, zero, told, sc, hallVars, trouble>>
    BY DEF RecvReturns
<1> HIDE DEF all
<1>4. Len(cs') - Len(cs) \in Nat /\ Len(all) \in 0 .. Len(all)
    <2>1. cs \in Seq(CsMsg) /\ Len(cs) <= CsCap /\ CsCap \in Nat
        BY <1>1, HallSizes DEF CsPipe
    <2>2. Len(Fill(cs, Frames(p, read), CsCap)) - Len(cs) \in 0 .. Len(Frames(p, read))
        BY <1>2, <2>1, FillFacts
    <2>3. Len(all) \in Nat
        BY <1>2
    <2> QED BY <1>2, <1>3, <2>2, <2>3
<1>5. b \in Seq(Request)
    <2>1. PICK n : n = Len(cs') - Len(cs) + 1
        OBVIOUS
    <2>2. n \in Nat \ {0}
        BY <1>4, <2>1
    <2> HIDE DEF Request
    <2>3. SubSeq(all, n, Len(all)) \in Seq(Request)
        BY <1>2, <1>4, <2>2, RangeSub
    <2> QED BY <2>1, <2>3
<1> HIDE DEF b
<1>6. PICK a \in Seq(Request) \cup {Torn} : a = b
    BY <1>5
<1> QED BY <1>1, <1>3, <1>6, KeepStep

\* RecvAgain.
LEMMA RecvAgainStep ==
    ASSUME IInv, NEW p \in Slot, NEW read \in Sent, RecvAgain(p, read)
    PROVE  IInv'
<1> DEFINE f == Frames(p, read)
           twice == f \o f
<1>1. TcpTyped /\ Slots /\ Readable(p) /\ sock[p].conn # None /\ sock[p].buf # Torn
    BY DEF IInv, Typed, RecvAgain, Readable, Event
<1>2. f \in Seq(CsMsg) /\ \A m \in Range(f) : RequestOk(m)
    BY <1>1, FramesOk
<1>3. UNCHANGED <<ms, sc, hallVars>>
    BY DEF RecvAgain
<1>4. \/ SocketRelease(p, TRUE, twice, None)
      \/ /\ cs' = Fill(cs, f, CsCap) /\ sock' = [sock EXCEPT ![p].buf = Torn]
         /\ UNCHANGED <<cli, freeL, zero, told, trouble>>
    BY DEF RecvAgain
<1>5. twice \in Seq(CsMsg) /\ \A m \in Range(twice) : RequestOk(m)
    <2> HIDE DEF f
    <2>1. f \o f \in Seq(CsMsg) /\ Range(f \o f) = Range(f) \cup Range(f)
        BY <1>2, RangeConcat
    <2> QED BY <1>2, <2>1
<1>6. CASE SocketRelease(p, TRUE, twice, None)
    <2> HIDE DEF twice
    <2> QED BY <1>1, <1>3, <1>5, <1>6, ReleaseStep
<1>7. CASE /\ cs' = Fill(cs, f, CsCap) /\ sock' = [sock EXCEPT ![p].buf = Torn]
           /\ UNCHANGED <<cli, freeL, zero, told, trouble>>
    <2>1. PICK b \in Seq(Request) \cup {Torn} : b = Torn
        OBVIOUS
    <2>2. UNCHANGED <<cli, ms, freeL, zero, told, sc, hallVars, trouble>>
        BY <1>3, <1>7
    <2> QED BY <1>1, <1>7, <2>1, <2>2, KeepStep
<1> QED BY <1>4, <1>6, <1>7

-----------------------------------------------------------------------------
(* SendDataToClient.                                                       *)

\* What the head of the sc pipe says, and that no message is lost but it.
LEMMA ScHead ==
    ASSUME ScPipe, sc # <<>>
    PROVE  /\ ScOk(Head(sc)) /\ Head(sc) \in ScMsg /\ Tail(sc) \in Seq(ScMsg) /\ Len(Tail(sc)) <= ScCap
           /\ Range(Tail(sc)) \subseteq Range(sc) /\ Head(sc) \in Range(sc)
           /\ \A m \in Range(sc) : m = Head(sc) \/ m \in Range(Tail(sc))
<1>1. sc \in Seq(ScMsg) /\ Len(sc) <= ScCap /\ \A m \in Range(sc) : ScOk(m)
    BY DEF ScPipe
<1>2. /\ Head(sc) \in Range(sc) /\ Head(sc) \in ScMsg /\ Tail(sc) \in Seq(ScMsg) /\ Range(Tail(sc)) \subseteq Range(sc)
      /\ \A m \in Range(sc) : m = Head(sc) \/ m \in Range(Tail(sc))
    BY <1>1, RangeTail, RangeSplit
<1>3. Len(Tail(sc)) = Len(sc) - 1 /\ Len(sc) \in Nat
    BY <1>1, HeadTailProperties, EmptySeq
<1>4. Len(Tail(sc)) <= ScCap
    BY <1>1, <1>3, HallSizes
<1> QED BY <1>1, <1>2, <1>4

\* A message for an open connection is not taken for one to a reused position,
\* and of two connections without twins each has its own.
LEMMA Delivered ==
    ASSUME TcpTyped, Slots, NEW h, HeadOk(h), NEW c \in Conn, cli[c].st = "open"
    PROVE  /\ h.to = c => h.pos = cli[c].pos /\ h.time = sock[h.pos].time
           /\ ~HasTwin(c) /\ h.pos = cli[c].pos /\ h.time = sock[h.pos].time => h.to = c
           /\ ~HasTwin(c) /\ h.pos = cli[c].pos /\ h.time = cli[c].time => h.to = c
<1>1. cli[c].pos \in Slot /\ sock[cli[c].pos].conn = c /\ Old(c)
    BY DEF Slots, ConnsKnown, OpenHolds, Old
<1>2. sock[cli[c].pos].conn # None
    BY <1>1, HallSizes
<1>3. InUse(cli[c].pos)
    BY <1>1, <1>2, UsedOrFree
<1>4. sock[cli[c].pos].time = cli[c].time
    BY <1>1, <1>3 DEF InUse
<1>5. h.to \in Conn /\ cli[h.to].pos = h.pos /\ cli[h.to].time = h.time
    BY DEF HeadOk, HeadT
<1>6. ~HasTwin(c) /\ h.pos = cli[c].pos /\ h.time = cli[c].time => h.to = c
    BY <1>5 DEF HasTwin, Alike
<1> QED BY <1>4, <1>5, <1>6

\* A step of tcpsvr that takes a message from the sc pipe: an open connection
\* without a twin has its index from it, and is not told to go.
LEMMA PopStep ==
    ASSUME IInv, TcpTyped', Slots', Forward, UNCHANGED hallVars, sc # <<>>, sc' = Tail(sc),
           NEW m, m = Head(sc), CsPipe', Range(cs) \subseteq Range(cs'),
           ms' \in Nat, trouble' \in BOOLEAN, trouble => trouble', ToldStep, WrongOk',
           \A c \in Conn : cli'[c].st = "open" => Old(c),
           \A c \in Conn : cli'[c].st = "open" /\ ~HasTwin(c) =>
              /\ m.head.to = c => m.kind # "bye"
              /\ sock'[cli[c].pos].index = IF IndexFor(m, c) THEN m.uid ELSE sock[cli[c].pos].index,
           \A c \in Conn : NoticeComing(c)' => NoticeComing(c) \/ cli'[c].st \in Ended
    PROVE  IInv'
<1>1. TcpTyped /\ Slots /\ CsPipe /\ ScPipe /\ HallOk /\ NamedOk /\ WrongOk /\ AllLast /\ AllGone /\ Agreed /\ NoticesTrue
    BY DEF IInv, Typed, Says, HallOk
<1>2. HallOk'
    BY <1>1, HallForward
<1>3. /\ ScOk(m) /\ m \in ScMsg /\ sc' \in Seq(ScMsg) /\ Len(sc') <= ScCap /\ Range(sc') \subseteq Range(sc)
      /\ m \in Range(sc) /\ \A x \in Range(sc) : x = m \/ x \in Range(sc')
    BY <1>1, ScHead
<1>4. ScPipe'
    <2>1. ScMsg' = ScMsg
        BY DEF Forward, ScMsg, HeadT
    <2>2. \A x : ScOk(x) => ScOk(x)'
        BY ScForward
    <2> QED BY <1>1, <1>3, <2>1, <2>2 DEF ScPipe
<1>5. named' = named /\ players' = players /\ \A u \in DOMAIN players : PlayerOk(u) /\ u \in Uid
    BY <1>1 DEF hallVars, HallOk, PlayersOk
<1>6. ASSUME NEW c \in Conn, cli'[c].st = "open", ~HasTwin(c)' PROVE LastAt(c)'
    <2>1. Old(c) /\ cli[c].st = "open" /\ ~HasTwin(c) /\ cli'[c].pos = cli[c].pos
        BY <1>1, <1>6, StillOpen DEF Forward
    <2>2. PICK i : i = sock[cli[c].pos].index
        OBVIOUS
    <2>3. PICK v : v = named[c]
        OBVIOUS
    <2>4. PICK j : j = IF IndexFor(m, c) THEN m.uid ELSE i
        OBVIOUS
    <2>5. sock'[cli'[c].pos].index = j /\ named'[c] = v
        BY <1>5, <1>6, <2>1, <2>2, <2>3, <2>4
    <2>6. LastIs(sc, c, v, i) /\ sc \in Seq(ScMsg)
        BY <1>1, <2>1, <2>2, <2>3 DEF AllLast, LastAt, ScPipe
    <2>7. LastIs(Tail(sc), c, v, j)
        <3> HIDE DEF ScMsg
        <3> QED BY <2>4, <2>6, LastTail
    <2>8. PICK q : q = Tail(sc)
        OBVIOUS
    <2>9. LastIs(q, c, v, j) /\ sc' = q
        BY <2>7, <2>8
    <2>10. LastIs(sc, c, v, j)'
        BY <2>9 DEF LastIs, IndexFor
    <2> QED BY <2>5, <2>10 DEF LastAt, LastIs, IndexFor
<1>7. AllLast'
    BY <1>6 DEF AllLast, LastAt
<1>8. NoticesStay
    BY DEF NoticesStay, Notice
<1>9. AllGone'
    BY <1>1, <1>5, <1>8, GoneKept DEF AllGone
<1>10. NoticesTrue'
    BY <1>1, NoticesKept
<1>11. Agreed'
    <2> SUFFICES ASSUME ~trouble, NEW c \in Conn PROVE AgreedAt(c)'
        BY DEF Agreed
    <2>1. AgreedAt(c)
        BY <1>1 DEF Agreed
    <2>2. Old(c) /\ cli'[c].st = "open" /\ ~HasTwin(c)' /\ Coming("bye", c) => Coming("bye", c)'
        <3> SUFFICES ASSUME Old(c), cli'[c].st = "open", ~HasTwin(c)', Coming("bye", c) PROVE Coming("bye", c)'
            OBVIOUS
        <3>1. ~HasTwin(c)
            BY <1>1, StillOpen
        <3>2. m.head.to = c => m.kind # "bye"
            BY <3>1
        <3> QED BY <1>3, <3>2 DEF Coming
    <2> QED BY <1>1, <2>1, <2>2, AgreedKept
<1>12. told' \in PlayersOf
    BY DEF ToldStep
<1> QED BY <1>2, <1>4, <1>7, <1>9, <1>10, <1>11, <1>12 DEF IInv, Typed, Says

\* A position that a message names, and not in vain, is in use by a connection
\* that could be taken for the one meant.
LEMMA Named ==
    ASSUME TcpTyped, Slots, NEW h, HeadOk(h), h.time = sock[h.pos].time
    PROVE  /\ h.pos \in Slot /\ h.to \in Conn /\ Old(h.to) /\ sock[h.pos].conn # None
           /\ sock[h.pos].conn \in Conn /\ Alike(h.to, sock[h.pos].conn)
<1>1. h.pos \in Slot /\ h.to \in Conn /\ Old(h.to) /\ h.time \in 1 .. MaxMs
    BY DEF HeadOk, HeadT
<1>2. h.time # 0
    BY <1>1, HallSizes
<1>3. sock[h.pos].conn # None /\ InUse(h.pos)
    BY <1>1, <1>2, UsedOrFree
<1> QED BY <1>1, <1>3 DEF InUse, HeadOk, Alike

\* What a client receives is meant for its connection, or for one that tcpsvr
\* takes for it, or for the one that had its descriptor.
LEMMA WrongExplained ==
    ASSUME TcpTyped, Slots, Forward, NEW h, HeadOk(h), h.time = sock[h.pos].time,
           NEW c \in Conn, c = Denotes(h.pos), WrongAt(c), cli'[c].wrong = Hears(c, h.to)
    PROVE  WrongAt(c)'
<1>1. /\ h.pos \in Slot /\ h.to \in Conn /\ Old(h.to) /\ sock[h.pos].conn # None
      /\ sock[h.pos].conn \in Conn /\ Alike(h.to, sock[h.pos].conn)
    BY Named
<1>2. CASE h.to = c
    <2>1. cli'[c].wrong = cli[c].wrong
        BY <1>2 DEF Hears
    <2> QED BY <2>1, WrongKept
<1>3. CASE h.to # c
    <2>1. PICK w : w = h.to
        OBVIOUS
    <2>2. PICK d : d = sock[h.pos].conn
        OBVIOUS
    <2>3. w \in Conn /\ Old(w) /\ d \in Conn /\ Alike(w, d)
        BY <1>1, <2>1, <2>2
    <2>4. cli'[c].wrong = w
        BY <1>1, <1>3, <2>1, HallSizes DEF Hears
    <2>5. Alike(w, d)' /\ Old(d)
        BY <2>3, AlikeForward
    <2>6. d = c \/ cli[d].st = "lost"
        BY <1>1, <2>2, DenotedOpen
    <2>7. Old(w)' /\ (d = c \/ cli'[d].st = "lost")
        BY <2>3, <2>5, <2>6 DEF Forward, Ended
    <2> QED BY <2>3, <2>4, <2>5, <2>7 DEF WrongAt, Alike, Old
<1> QED BY <1>2, <1>3

\* The send fails or closes the connection.
LEMMA SendRelease ==
    ASSUME IInv, UNCHANGED <<ms, hallVars>>, sc # <<>>, sc' = Tail(sc), NEW m, m = Head(sc), ~Reused(m),
           NEW notify \in BOOLEAN, NEW d \in {None, m.head.to}, SocketRelease(m.head.pos, notify, <<>>, d)
    PROVE  IInv'
<1>1. TcpTyped /\ Slots /\ CsPipe /\ ScPipe /\ told \in PlayersOf /\ WrongOk /\ trouble \in BOOLEAN /\ ms \in Nat
    BY DEF IInv, Typed, Says
<1>2. HeadOk(m.head) /\ m.head.time = sock[m.head.pos].time
    BY <1>1, ScHead DEF ScOk, Reused
<1>3. PICK p : p = m.head.pos
    OBVIOUS
<1>4. p \in Slot /\ m.head.to \in Conn /\ sock[p].conn # None
    BY <1>1, <1>2, <1>3, Named
<1>5. <<>> \in Seq(CsMsg) /\ \A x \in Range(<<>>) : RequestOk(x)
    <2>1. <<>> \in Seq(CsMsg) /\ Len(<<>>) = 0
        OBVIOUS
    <2>2. PICK e \in Seq(CsMsg) : e = <<>>
        BY <2>1
    <2>3. ASSUME NEW x \in Range(e) PROVE FALSE
        <3>1. PICK i \in 1 .. Len(e) : e[i] = x
            BY RangeOf
        <3> QED BY <2>1, <2>2, <3>1
    <2> QED BY <2>2, <2>3
<1>6. /\ TcpTyped' /\ Slots' /\ Forward /\ CsPipe' /\ Range(cs) \subseteq Range(cs')
      /\ trouble' \in BOOLEAN /\ (trouble => trouble')
      /\ sock'[p] = FreeSock /\ \A q \in Slot \ {p} : sock'[q] = sock[q]
      /\ \A c \in Conn : cli'[c].st = "open" => cli[c].st = "open" /\ cli[c].pos # p
      /\ \A c \in Conn \ {Denotes(p)} : cli'[c] = cli[c]
      /\ Denotes(p) \in Conn => cli'[Denotes(p)].wrong = Hears(Denotes(p), d)
      /\ ToldStep
      /\ \A c \in Conn : NoticeComing(c)' => NoticeComing(c) \/ cli'[c].st \in Ended
    <2>1. d \in Conn \cup {None} /\ SocketRelease(p, notify, <<>>, d)
        BY <1>3, <1>4
    <2> QED BY <1>1, <1>4, <1>5, <2>1, ReleaseFacts
<1>8. ASSUME NEW c \in Conn PROVE WrongAt(c)'
    <2>1. WrongAt(c)
        BY <1>1 DEF WrongOk
    <2>2. CASE c # Denotes(p) \/ d = None
        <3>1. cli'[c].wrong = cli[c].wrong
            BY <1>6, <2>2 DEF Hears
        <3> QED BY <1>1, <1>6, <2>1, <3>1, WrongKept
    <2>3. CASE c = Denotes(p) /\ d = m.head.to
        <3>1. PICK h : h = m.head
            OBVIOUS
        <3>2. HeadOk(h) /\ h.time = sock[h.pos].time /\ c = Denotes(h.pos) /\ cli'[c].wrong = Hears(c, h.to)
            BY <1>2, <1>3, <1>6, <2>3, <3>1
        <3> QED BY <1>1, <1>6, <2>1, <3>2, WrongExplained
    <2> QED BY <2>2, <2>3
<1>9. WrongOk'
    BY <1>8 DEF WrongOk
<1>10. \A c \in Conn : cli'[c].st = "open" => Old(c)
    BY <1>6 DEF Old
<1>11. \A c \in Conn : cli'[c].st = "open" =>
         m.head.to # c /\ sock'[cli[c].pos].index = sock[cli[c].pos].index
    <2> SUFFICES ASSUME NEW c \in Conn, cli'[c].st = "open"
                 PROVE  m.head.to # c /\ sock'[cli[c].pos].index = sock[cli[c].pos].index
        OBVIOUS
    <2>1. cli[c].pos \in Slot \ {p}
        BY <1>1, <1>6, <1>10 DEF Slots, ConnsKnown
    <2>2. m.head.to = c => cli[c].pos = p
        BY <1>2, <1>3 DEF HeadOk
    <2> QED BY <1>6, <2>1, <2>2
<1>12. UNCHANGED hallVars /\ ms' \in Nat
    BY <1>1 DEF hallVars
<1>13. \A c \in Conn : cli'[c].st = "open" /\ ~HasTwin(c) =>
              /\ m.head.to = c => m.kind # "bye"
              /\ sock'[cli[c].pos].index = IF IndexFor(m, c) THEN m.uid ELSE sock[cli[c].pos].index
    BY <1>11 DEF IndexFor
<1> QED BY <1>6, <1>9, <1>10, <1>12, <1>13, PopStep

\* The position has another connection by now, or none.
LEMMA SendReused ==
    ASSUME IInv, UNCHANGED <<ms, hallVars, cli, tcpVars, cs, trouble>>, sc # <<>>, sc' = Tail(sc),
           NEW m, m = Head(sc), Reused(m)
    PROVE  IInv'
<1>1. TcpTyped /\ Slots /\ CsPipe /\ ScPipe /\ told \in PlayersOf /\ WrongOk /\ trouble \in BOOLEAN /\ ms \in Nat
    BY DEF IInv, Typed, Says
<1>2. cli' = cli /\ sock' = sock /\ freeL' = freeL /\ zero' = zero /\ UNCHANGED hallVars
      /\ ms' = ms /\ cs' = cs /\ trouble' = trouble /\ told' = told
    BY DEF tcpVars, hallVars
<1>3. TcpTyped' /\ Slots' /\ Forward
    BY <1>1, <1>2, SlotsUntouched
<1>4. CsPipe' /\ ToldStep /\ WrongOk'
    <2>1. CsPipe'
        BY <1>1, <1>2, <1>3, CsPipeForward DEF CsPipe
    <2>2. ToldStep
        BY <1>1, <1>2, ToldSame
    <2>3. WrongOk'
        BY <1>1, <1>2, <1>3, WrongKept DEF WrongOk
    <2> QED BY <2>1, <2>2, <2>3
<1>5. HeadOk(m.head) /\ m.head.time # sock[m.head.pos].time
    BY <1>1, ScHead DEF ScOk, Reused
<1>6. \A c \in Conn : cli[c].st = "open" => m.head.to # c
    BY <1>1, <1>5, Delivered
<1>7. \A c \in Conn : cli'[c].st = "open" => Old(c)
    BY <1>2 DEF Old
<1>8. \A c \in Conn : cli'[c].st = "open" /\ ~HasTwin(c) =>
              /\ m.head.to = c => m.kind # "bye"
              /\ sock'[cli[c].pos].index = IF IndexFor(m, c) THEN m.uid ELSE sock[cli[c].pos].index
    BY <1>2, <1>6 DEF IndexFor
<1>9. \A c \in Conn : NoticeComing(c)' => NoticeComing(c)
    BY <1>2 DEF NoticeComing
<1> QED BY <1>1, <1>2, <1>3, <1>4, <1>7, <1>8, <1>9, PopStep

\* tcpsvr is told a player.
LEMMA SendIndex ==
    ASSUME IInv, UNCHANGED <<ms, hallVars, cli, freeL, zero, told, cs, trouble>>, sc # <<>>, sc' = Tail(sc),
           NEW m, m = Head(sc), ~Reused(m), m.kind = "index",
           sock' = [sock EXCEPT ![m.head.pos].index = m.uid]
    PROVE  IInv'
<1>1. TcpTyped /\ Slots /\ CsPipe /\ ScPipe /\ told \in PlayersOf /\ WrongOk /\ trouble \in BOOLEAN /\ ms \in Nat
    BY DEF IInv, Typed, Says
<1>2. cli' = cli /\ freeL' = freeL /\ zero' = zero /\ UNCHANGED hallVars
      /\ ms' = ms /\ cs' = cs /\ trouble' = trouble /\ told' = told
    BY DEF hallVars
<1>3. HeadOk(m.head) /\ m.head.time = sock[m.head.pos].time /\ m \in ScMsg
    BY <1>1, ScHead DEF ScOk, Reused
<1>4. PICK p : p = m.head.pos
    OBVIOUS
<1>5. p \in Slot /\ m.head.to \in Conn /\ sock[p].conn # None /\ sock[p].conn \in Conn /\ Alike(m.head.to, sock[p].conn)
    BY <1>1, <1>3, <1>4, Named
<1>6. sock \in [Slot -> SockT] /\ sock[p] \in SockT /\ m.uid \in Uid \cup {None}
    BY <1>1, <1>3, <1>5 DEF TcpTyped, ScMsg
<1> DEFINE r == [sock[p] EXCEPT !.index = m.uid]
<1>7. /\ r \in SockT /\ r.conn = sock[p].conn /\ r.fd = sock[p].fd /\ r.time = sock[p].time /\ r.index = m.uid
    BY <1>6 DEF SockT
<1> HIDE DEF r
<1>8. sock' = [sock EXCEPT ![p] = r]
    BY <1>4 DEF r
<1>9. TcpTyped' /\ Slots' /\ Forward
    BY <1>1, <1>2, <1>5, <1>7, <1>8, SockChanges
<1>10. /\ sock'[p].conn = sock[p].conn /\ sock'[p].index = m.uid
       /\ \A q \in Slot \ {p} : sock'[q] = sock[q]
    BY <1>5, <1>6, <1>7, <1>8
<1>12. ToldStep
    BY <1>1, <1>2, ToldSame
<1>13. CsPipe' /\ WrongOk'
    <2>1. CsPipe'
        BY <1>1, <1>2, <1>9, CsPipeForward DEF CsPipe
    <2>2. WrongOk'
        BY <1>1, <1>2, <1>9, WrongKept DEF WrongOk
    <2> QED BY <2>1, <2>2
<1>14. \A c \in Conn : cli'[c].st = "open" => Old(c)
    BY <1>2 DEF Old
<1>15. \A c \in Conn : cli'[c].st = "open" /\ ~HasTwin(c) =>
              /\ m.head.to = c => m.kind # "bye"
              /\ sock'[cli[c].pos].index = IF IndexFor(m, c) THEN m.uid ELSE sock[cli[c].pos].index
    <2> SUFFICES ASSUME NEW c \in Conn, cli[c].st = "open", ~HasTwin(c)
                 PROVE  sock'[cli[c].pos].index = IF m.head.to = c THEN m.uid ELSE sock[cli[c].pos].index
        BY <1>2 DEF IndexFor
    <2>1. m.head.to = c <=> p = cli[c].pos
        BY <1>1, <1>3, <1>4, Delivered
    <2>2. cli[c].pos \in Slot
        BY <1>1 DEF Slots, ConnsKnown, Old
    <2>3. PICK q \in Slot : q = cli[c].pos
        BY <2>2
    <2>4. CASE q = p
        BY <1>10, <2>1, <2>3, <2>4
    <2>5. CASE q # p
        <3>1. sock'[q] = sock[q]
            BY <1>10, <2>5
        <3>2. m.head.to # c
            BY <2>1, <2>3, <2>5
        <3>3. sock'[cli[c].pos].index = sock[cli[c].pos].index
            BY <2>3, <3>1
        <3> QED BY <3>2, <3>3
    <2> QED BY <2>4, <2>5
<1>16. \A c \in Conn : NoticeComing(c)' => NoticeComing(c)
    BY <1>2 DEF NoticeComing
<1> QED BY <1>1, <1>2, <1>9, <1>12, <1>13, <1>14, <1>15, <1>16, PopStep

\* A message reaches a client.
LEMMA SendAnswer ==
    ASSUME IInv, UNCHANGED <<ms, hallVars, tcpVars, cs, trouble>>, sc # <<>>, sc' = Tail(sc),
           NEW m, m = Head(sc), ~Reused(m), m.kind # "index", m.kind # "bye",
           NEW c \in Conn, c = Denotes(m.head.pos), cli' = [cli EXCEPT ![c].wrong = Hears(c, m.head.to)]
    PROVE  IInv'
<1>1. TcpTyped /\ Slots /\ CsPipe /\ ScPipe /\ told \in PlayersOf /\ WrongOk /\ trouble \in BOOLEAN /\ ms \in Nat
    BY DEF IInv, Typed, Says
<1>2. sock' = sock /\ freeL' = freeL /\ zero' = zero /\ UNCHANGED hallVars
      /\ ms' = ms /\ cs' = cs /\ trouble' = trouble /\ told' = told
    BY DEF tcpVars, hallVars
<1>3. HeadOk(m.head) /\ m.head.time = sock[m.head.pos].time
    BY <1>1, ScHead DEF ScOk, Reused
<1>4. m.head.pos \in Slot /\ m.head.to \in Conn /\ sock[m.head.pos].conn # None
    BY <1>1, <1>3, Named
<1>5. Old(c)
    BY <1>1, <1>4, DenotedOpen DEF Old
<1>6. Hears(c, m.head.to) \in Conn \cup {None}
    BY <1>1, <1>4 DEF Hears, TcpTyped, ConnT
<1>7. /\ TcpTyped' /\ Slots' /\ Forward
      /\ cli'[c].wrong = Hears(c, m.head.to) /\ \A x \in Conn \ {c} : cli'[x] = cli[x]
      /\ \A x \in Conn : cli'[x].st = cli[x].st
    <2>1. PICK w : w = Hears(c, m.head.to)
        OBVIOUS
    <2>2. w \in Conn \cup {None} /\ cli' = [cli EXCEPT ![c].wrong = w]
        BY <1>6, <2>1
    <2> QED BY <1>1, <1>2, <1>5, <2>1, <2>2, WrongChanges
<1>8. CsPipe' /\ ToldStep
    <2>1. CsPipe'
        BY <1>1, <1>2, <1>7, CsPipeForward DEF CsPipe
    <2>2. ToldStep
        BY <1>1, <1>2, ToldSame
    <2> QED BY <2>1, <2>2
<1>9. ASSUME NEW x \in Conn PROVE WrongAt(x)'
    <2>1. WrongAt(x)
        BY <1>1 DEF WrongOk
    <2>2. CASE x # c
        BY <1>1, <1>7, <2>1, <2>2, WrongKept
    <2>3. CASE x = c
        <3>1. PICK h : h = m.head
            OBVIOUS
        <3>2. HeadOk(h) /\ h.time = sock[h.pos].time /\ x = Denotes(h.pos) /\ cli'[x].wrong = Hears(x, h.to)
            BY <1>3, <1>7, <2>3, <3>1
        <3> QED BY <1>1, <1>7, <2>1, <3>2, WrongExplained
    <2> QED BY <2>2, <2>3
<1>10. WrongOk'
    BY <1>9 DEF WrongOk
<1>11. \A x \in Conn : cli'[x].st = "open" => Old(x)
    BY <1>7 DEF Old
<1>12. \A x \in Conn : cli'[x].st = "open" /\ ~HasTwin(x) =>
              /\ m.head.to = x => m.kind # "bye"
              /\ sock'[cli[x].pos].index = IF IndexFor(m, x) THEN m.uid ELSE sock[cli[x].pos].index
    BY <1>2 DEF IndexFor
<1>14. \A x \in Conn : NoticeComing(x)' => NoticeComing(x)
    BY <1>2 DEF NoticeComing
<1>15. /\ TcpTyped' /\ Slots' /\ Forward /\ UNCHANGED hallVars /\ CsPipe' /\ Range(cs) \subseteq Range(cs')
       /\ ms' \in Nat /\ trouble' \in BOOLEAN /\ (trouble => trouble') /\ ToldStep
    BY <1>1, <1>2, <1>7, <1>8
<1> QED BY <1>10, <1>11, <1>12, <1>14, <1>15, PopStep

\* SendDataToClient.
LEMMA SendStep ==
    ASSUME IInv, SendDataToClient
    PROVE  IInv'
<1>1. sc # <<>> /\ sc' = Tail(sc) /\ UNCHANGED <<ms, hallVars>>
    BY DEF SendDataToClient
<1>2. PICK m : m = Head(sc)
    OBVIOUS
<1>3. \/ Reused(m) /\ UNCHANGED <<cli, tcpVars, cs, trouble>>
      \/ /\ ~Reused(m) /\ m.kind = "index"
         /\ sock' = [sock EXCEPT ![m.head.pos].index = m.uid]
         /\ UNCHANGED <<cli, freeL, zero, told, cs, trouble>>
      \/ /\ ~Reused(m) /\ m.kind # "index" /\ m.kind # "bye" /\ Denotes(m.head.pos) \in Conn
         /\ cli' = [cli EXCEPT ![Denotes(m.head.pos)].wrong = Hears(Denotes(m.head.pos), m.head.to)]
         /\ UNCHANGED <<tcpVars, cs, trouble>>
      \/ ~Reused(m) /\ SocketRelease(m.head.pos, FALSE, <<>>, m.head.to)
      \/ ~Reused(m) /\ SocketRelease(m.head.pos, TRUE, <<>>, None)
    BY <1>2 DEF SendDataToClient, NeedClose
<1>4. CASE Reused(m) /\ UNCHANGED <<cli, tcpVars, cs, trouble>>
    <2>1. UNCHANGED <<ms, hallVars, cli, tcpVars, cs, trouble>>
        BY <1>1, <1>4
    <2> QED BY <1>1, <1>2, <1>4, <2>1, SendReused
<1>5. CASE /\ ~Reused(m) /\ m.kind = "index"
           /\ sock' = [sock EXCEPT ![m.head.pos].index = m.uid]
           /\ UNCHANGED <<cli, freeL, zero, told, cs, trouble>>
    <2>1. UNCHANGED <<ms, hallVars, cli, freeL, zero, told, cs, trouble>>
        BY <1>1, <1>5
    <2> QED BY <1>1, <1>2, <1>5, <2>1, SendIndex
<1>6. CASE /\ ~Reused(m) /\ m.kind # "index" /\ m.kind # "bye" /\ Denotes(m.head.pos) \in Conn
           /\ cli' = [cli EXCEPT ![Denotes(m.head.pos)].wrong = Hears(Denotes(m.head.pos), m.head.to)]
           /\ UNCHANGED <<tcpVars, cs, trouble>>
    <2>1. UNCHANGED <<ms, hallVars, tcpVars, cs, trouble>>
        BY <1>1, <1>6
    <2>2. PICK c : c = Denotes(m.head.pos)
        OBVIOUS
    <2>3. c \in Conn /\ cli' = [cli EXCEPT ![c].wrong = Hears(c, m.head.to)]
        BY <1>6, <2>2
    <2> QED BY <1>1, <1>2, <1>6, <2>1, <2>2, <2>3, SendAnswer
<1>7. CASE ~Reused(m) /\ SocketRelease(m.head.pos, FALSE, <<>>, m.head.to)
    <2>1. FALSE \in BOOLEAN /\ m.head.to \in {None, m.head.to}
        OBVIOUS
    <2> QED BY <1>1, <1>2, <1>7, <2>1, SendRelease
<1>8. CASE ~Reused(m) /\ SocketRelease(m.head.pos, TRUE, <<>>, None)
    <2>1. TRUE \in BOOLEAN /\ None \in {None, m.head.to}
        OBVIOUS
    <2> QED BY <1>1, <1>2, <1>8, <2>1, SendRelease
<1> QED BY <1>3, <1>4, <1>5, <1>6, <1>7, <1>8

-----------------------------------------------------------------------------
(* The hall server's steps.  It touches neither connections nor positions. *)

\* What a step of the hall server leaves alone.
LEMMA HallLeaves ==
    ASSUME IInv, UnchangedTcp
    PROVE  /\ TcpTyped' /\ Slots' /\ Forward /\ ToldStep /\ WrongOk' /\ ms' \in Nat
           /\ cli' = cli /\ sock' = sock /\ told' = told /\ MaxPlayers' = MaxPlayers /\ HeadT' = HeadT /\ CsMsg' = CsMsg /\ ScMsg' = ScMsg
           /\ \A h : HeadOk(h) => HeadOk(h)'
           /\ \A m : CsOk(m) => CsOk(m)'
           /\ \A m : RequestOk(m) => RequestOk(m)'
           /\ \A m : ScOk(m) => ScOk(m)'
<1>1. TcpTyped /\ Slots /\ told \in PlayersOf /\ WrongOk /\ ms \in Nat
    BY DEF IInv, Typed, Says
<1>2. cli' = cli /\ sock' = sock /\ freeL' = freeL /\ zero' = zero /\ ms' = ms /\ told' = told
    BY DEF UnchangedTcp, tcpVars
<1>3. TcpTyped' /\ Slots' /\ Forward
    BY <1>1, <1>2, SlotsUntouched
<1>4. ToldStep /\ WrongOk'
    <2>1. ToldStep
        BY <1>1, <1>2, ToldSame
    <2>2. WrongOk'
        BY <1>1, <1>2, <1>3, WrongKept DEF WrongOk
    <2> QED BY <2>1, <2>2
<1>5. HeadT' = HeadT /\ CsMsg' = CsMsg /\ ScMsg' = ScMsg /\ MaxPlayers' = MaxPlayers
    BY <1>3 DEF HeadT, CsMsg, ScMsg, MaxPlayers, Forward
<1>6. \A h : HeadOk(h) => HeadOk(h)'
    BY <1>3, HeadForward
<1>7. \A m : CsOk(m) => CsOk(m)'
    BY <1>1, <1>3, CsForward
<1>8. \A m : ScOk(m) => ScOk(m)'
    BY <1>3, ScForward
<1>9. \A m : RequestOk(m) => RequestOk(m)'
    BY <1>7 DEF RequestOk
<1> QED BY <1>1, <1>2, <1>3, <1>4, <1>5, <1>6, <1>7, <1>8, <1>9

\* What it does not touch of its own stays right.
LEMMA Untouched ==
    ASSUME IInv, UnchangedTcp
    PROVE  /\ cs' = cs => CsPipe'
           /\ sc' = sc => ScPipe'
           /\ queue' = queue => QueueOk'
           /\ sess' = sess => SessOk'
           /\ login' = <<>> => LoginOk'
           /\ players' = players => PlayersOk'
           /\ named' = named => NamedOk' /\ (sc' = sc => AllLast')
<1>1. TcpTyped /\ Slots /\ CsPipe /\ ScPipe /\ QueueOk /\ SessOk /\ PlayersOk /\ NamedOk /\ AllLast
    BY DEF IInv, Typed, Says, HallOk
<1>2. /\ HeadT' = HeadT /\ CsMsg' = CsMsg /\ ScMsg' = ScMsg /\ MaxPlayers' = MaxPlayers /\ Forward /\ cli' = cli /\ sock' = sock
      /\ \A h : HeadOk(h) => HeadOk(h)'
      /\ \A m : CsOk(m) => CsOk(m)'
      /\ \A m : RequestOk(m) => RequestOk(m)'
      /\ \A m : ScOk(m) => ScOk(m)'
    BY HallLeaves
<1>3. cs' = cs => CsPipe'
    BY <1>1, <1>2 DEF CsPipe
<1>4. sc' = sc => ScPipe'
    BY <1>1, <1>2 DEF ScPipe
<1>5. queue' = queue => QueueOk'
    BY <1>1, <1>2 DEF QueueOk
<1>6. sess' = sess => SessOk'
    BY <1>1, <1>2 DEF SessOk
<1>7. login' = <<>> => LoginOk'
    BY DEF LoginOk
<1>8. players' = players => PlayersOk'
    <2> SUFFICES ASSUME players' = players PROVE PlayersOk'
        OBVIOUS
    <2>1. \A u \in DOMAIN players : PlayerOk(u)'
        BY <1>1, <1>2, PlayerForward DEF PlayersOk
    <2> QED BY <1>1, <1>2, <2>1 DEF PlayersOk
<1>9. named' = named => NamedOk'
    BY <1>1, <1>2 DEF NamedOk, Old, PlayersOf
<1>10. ASSUME named' = named, sc' = sc PROVE AllLast'
    <2>1. \A c \in Conn : ~Old(c) => cli'[c].st # "open"
        BY <1>2 DEF Old
    <2>2. \A c \in Conn : Old(c) /\ cli'[c].st = "open" => sock'[cli[c].pos].index = sock[cli[c].pos].index
        BY <1>2
    <2> QED BY <1>1, <1>2, <1>10, <2>1, <2>2, LastKept
<1> QED BY <1>3, <1>4, <1>5, <1>6, <1>7, <1>8, <1>9, <1>10

\* The message at the head of the cs pipe, and what is behind it.
LEMMA CsPops ==
    ASSUME IInv, UnchangedTcp, cs # <<>>, cs' = Tail(cs)
    PROVE  /\ CsPipe' /\ CsOk(Head(cs)) /\ Range(cs') \subseteq Range(cs)
           /\ \A m \in Range(cs) : m = Head(cs) \/ m \in Range(cs')
<1>1. cs \in Seq(CsMsg) /\ Len(cs) <= CsCap /\ \A m \in Range(cs) : CsOk(m)
    BY DEF IInv, Says, CsPipe
<1>2. /\ Head(cs) \in Range(cs) /\ Tail(cs) \in Seq(CsMsg) /\ Range(Tail(cs)) \subseteq Range(cs)
      /\ \A m \in Range(cs) : m = Head(cs) \/ m \in Range(Tail(cs))
    BY <1>1, RangeTail, RangeSplit
<1>3. Len(Tail(cs)) = Len(cs) - 1 /\ Len(cs) \in Nat
    BY <1>1, HeadTailProperties, EmptySeq
<1>4. Len(Tail(cs)) <= CsCap
    BY <1>1, <1>3, HallSizes
<1>5. CsMsg' = CsMsg /\ \A m : CsOk(m) => CsOk(m)'
    BY HallLeaves
<1> QED BY <1>1, <1>2, <1>4, <1>5 DEF CsPipe

\* The message the server deals with.
LEMMA QueuePops ==
    ASSUME IInv, Dispatched
    PROVE  /\ QueueOk' /\ RequestOk(Message) /\ Message \in CsMsg
           /\ login = <<>> /\ UnchangedTcp /\ cs' = cs
<1>1. queue \in Seq(CsMsg) /\ Len(queue) <= MsgCap /\ \A m \in Range(queue) : RequestOk(m)
    BY DEF IInv, Says, HallOk, QueueOk
<1>2. queue # <<>> /\ queue' = Tail(queue) /\ login = <<>> /\ UnchangedTcp /\ cs' = cs
    BY DEF Dispatched
<1>3. /\ Head(queue) \in Range(queue) /\ Head(queue) \in CsMsg /\ Tail(queue) \in Seq(CsMsg)
      /\ Range(Tail(queue)) \subseteq Range(queue)
    BY <1>1, <1>2, RangeTail
<1>4. Len(Tail(queue)) = Len(queue) - 1 /\ Len(queue) \in Nat
    BY <1>1, <1>2, HeadTailProperties, EmptySeq
<1>5. Len(Tail(queue)) <= MsgCap
    BY <1>1, <1>4, HallSizes
<1>6. CsMsg' = CsMsg /\ \A m : RequestOk(m) => RequestOk(m)'
    BY <1>2, HallLeaves
<1> QED BY <1>1, <1>2, <1>3, <1>5, <1>6 DEF QueueOk, Message

\* A message to tcpsvr is under way unless there was no room.
LEMMA TellFacts ==
    ASSUME IInv, UnchangedTcp, NEW kind \in {"index", "answer", "bye"}, NEW u \in Uid \cup {None}, NEW h, HeadOk(h),
           Tell(kind, u, h)
    PROVE  /\ ScPipe' /\ trouble' \in BOOLEAN /\ (trouble => trouble')
           /\ Range(sc) \subseteq Range(sc')
           /\ \A m \in Range(sc') : m \in Range(sc) \/ (m.kind = kind /\ m.head.to = h.to)
           /\ Room(sc, ScCap) => \E m \in Range(sc') : m.kind = kind /\ m.uid = u /\ m.head = h
           /\ ~trouble' => Room(sc, ScCap)
<1> DEFINE m == [kind |-> kind, uid |-> u, head |-> h]
<1>1. sc \in Seq(ScMsg) /\ Len(sc) <= ScCap /\ ScCap \in Nat /\ \A x \in Range(sc) : ScOk(x)
    BY HallSizes DEF IInv, Says, ScPipe
<1>2. sc' = Offer(sc, m, ScCap) /\ trouble' = (trouble \/ ~Room(sc, ScCap))
    BY DEF Tell
<1>3. h \in HeadT
    BY DEF HeadOk
<1>4. m \in ScMsg /\ m.kind = kind /\ m.uid = u /\ m.head = h
    BY <1>3 DEF ScMsg
<1> HIDE DEF m
<1>5. ScOk(m)
    BY <1>4 DEF ScOk
<1>6. /\ sc' \in Seq(ScMsg) /\ Len(sc') <= ScCap /\ Range(sc) \subseteq Range(sc')
      /\ Range(sc') \subseteq Range(sc) \cup {m} /\ (Room(sc, ScCap) => m \in Range(sc'))
    <2>1. PICK q : q = Offer(sc, m, ScCap)
        OBVIOUS
    <2>2. /\ q \in Seq(ScMsg) /\ Len(q) <= ScCap /\ Range(sc) \subseteq Range(q)
          /\ Range(q) \subseteq Range(sc) \cup {m} /\ (Room(sc, ScCap) => m \in Range(q))
        BY <1>1, <1>4, <2>1, OfferFacts
    <2> QED BY <1>2, <2>1, <2>2
<1>7. ScMsg' = ScMsg /\ \A x : ScOk(x) => ScOk(x)'
    BY HallLeaves
<1>8. ScPipe'
    BY <1>1, <1>5, <1>6, <1>7 DEF ScPipe
<1>9. trouble \in BOOLEAN
    BY DEF IInv, Typed
<1>10. trouble' \in BOOLEAN /\ (trouble => trouble') /\ (~trouble' => Room(sc, ScCap))
    BY <1>2, <1>9 DEF Room
<1>11. \A x \in Range(sc') : x \in Range(sc) \/ (x.kind = kind /\ x.head.to = h.to)
    BY <1>4, <1>6
<1>12. Room(sc, ScCap) => \E x \in Range(sc') : x.kind = kind /\ x.uid = u /\ x.head = h
    BY <1>4, <1>6
<1> QED BY <1>6, <1>8, <1>10, <1>11, <1>12

\* What tcpsvr will know changes with a message that announces a player.
LEMMA TellLast ==
    ASSUME IInv, UnchangedTcp, NEW kind \in {"index", "answer", "bye"}, NEW u \in Uid \cup {None}, NEW h, HeadOk(h),
           Tell(kind, u, h),
           \A c \in Conn : named'[c] = IF kind = "index" /\ h.to = c /\ Room(sc, ScCap) THEN u ELSE named[c]
    PROVE  AllLast'
<1> SUFFICES ASSUME NEW c \in Conn, cli'[c].st = "open", ~HasTwin(c)' PROVE LastAt(c)'
    BY DEF AllLast, LastAt
<1>1. cli' = cli /\ sock' = sock
    BY HallLeaves
<1>2. cli[c].st = "open" /\ ~HasTwin(c)
    BY <1>1 DEF HasTwin, Alike
<1>3. PICK i : i = sock[cli[c].pos].index
    OBVIOUS
<1>4. LastIs(sc, c, named[c], i) /\ sc \in Seq(ScMsg)
    BY <1>2, <1>3 DEF IInv, Says, ScPipe, AllLast, LastAt
<1> DEFINE m == [kind |-> kind, uid |-> u, head |-> h]
<1>5. sc' = Offer(sc, m, ScCap)
    BY DEF Tell
<1>6. h \in HeadT
    BY DEF HeadOk
<1>7. m \in ScMsg /\ m.uid = u /\ (IndexFor(m, c) <=> kind = "index" /\ h.to = c)
    BY <1>6 DEF ScMsg, IndexFor
<1> HIDE DEF m
<1>8. PICK v : v = named'[c]
    OBVIOUS
<1>9. PICK q : q = sc'
    OBVIOUS
<1>10. LastIs(q, c, v, i)
    <2>1. CASE Room(sc, ScCap)
        <3>1. q = Append(sc, m) /\ v = IF IndexFor(m, c) THEN m.uid ELSE named[c]
            BY <1>5, <1>7, <1>8, <1>9, <2>1 DEF Offer
        <3>2. PICK w : w = named[c]
            OBVIOUS
        <3>3. LastIs(sc, c, w, i)
            BY <1>4, <3>2
        <3>4. LastIs(Append(sc, m), c, IF IndexFor(m, c) THEN m.uid ELSE w, i)
            <4> HIDE DEF ScMsg
            <4> QED BY <1>4, <1>7, <3>3, LastAppend
        <3> QED BY <3>1, <3>2, <3>4
    <2>2. CASE ~Room(sc, ScCap)
        BY <1>4, <1>5, <1>8, <1>9, <2>2 DEF Offer
    <2> QED BY <2>1, <2>2
<1>11. LastIs(sc, c, v, i)'
    BY <1>9, <1>10 DEF LastIs, IndexFor
<1>12. sock'[cli'[c].pos].index = i
    BY <1>1, <1>3
<1> QED BY <1>8, <1>11, <1>12 DEF LastAt, LastIs, IndexFor

\* A step of the hall server is right when what it changes is.
LEMMA HallSteps ==
    ASSUME IInv, UnchangedTcp, CsPipe', ScPipe', QueueOk', SessOk', LoginOk', PlayersOk', NamedOk',
           trouble' \in BOOLEAN, AllLast', AllGone', Agreed',
           \A c \in Conn : NoticeComing(c)' => NoticeComing(c)
    PROVE  IInv'
<1>1. TcpTyped' /\ Slots' /\ Forward /\ ToldStep /\ WrongOk' /\ ms' \in Nat
    BY HallLeaves
<1>2. NoticesTrue'
    BY <1>1, NoticesKept DEF IInv
<1>3. told' \in PlayersOf
    BY <1>1 DEF ToldStep
<1> QED BY <1>1, <1>2, <1>3 DEF IInv, Typed, Says, HallOk

\* Players whose entries stay are told of as before while no notice is taken.
LEMMA PlayersKept ==
    ASSUME IInv, UnchangedTcp, NoticesStay, NEW u \in DOMAIN players, players'[u] = players[u]
    PROVE  PlayerOk(u)' /\ GoneAt(u)'
<1>1. PlayerOk(u) /\ GoneAt(u) /\ u \in Uid
    BY DEF IInv, Says, HallOk, PlayersOk, AllGone
<1>2. Forward /\ ToldStep
    BY HallLeaves
<1> QED BY <1>1, <1>2, PlayerForward, GoneKept

\* The two sides stay agreed on a connection whose player stays, or that is
\* told to go or about to be.
LEMMA HallAgreed ==
    ASSUME IInv, UnchangedTcp, ~trouble, NEW c \in Conn,
           named'[c] = named[c] \/ HasPlayer(c)' \/ Refusing(c)',
           HasPlayer(c) \/ Coming("bye", c) \/ Refusing(c) => HasPlayer(c)' \/ Coming("bye", c)' \/ Refusing(c)'
    PROVE  AgreedAt(c)'
<1>1. AgreedAt(c)
    BY DEF IInv, Agreed
<1>2. cli' = cli
    BY HallLeaves
<1>3. HasTwin(c)' = HasTwin(c)
    BY <1>2 DEF HasTwin, Alike
<1> QED BY <1>1, <1>2, <1>3 DEF AgreedAt

\* A player is forgotten; the others stay.
LEMMA LogOutFacts ==
    ASSUME IInv, UnchangedTcp, NEW u, LogOut(u)
    PROVE  /\ DOMAIN players' = DOMAIN players \ {u}
           /\ \A v \in DOMAIN players \ {u} : players'[v] = players[v]
           /\ PlayersOk'
<1>1. /\ players \in [DOMAIN players -> [head : HeadT, late : BOOLEAN]] /\ DOMAIN players \subseteq Uid
      /\ IsFiniteSet(DOMAIN players) /\ Cardinality(DOMAIN players) <= MaxPlayers
      /\ \A v \in DOMAIN players : PlayerOk(v)
    BY DEF IInv, Says, HallOk, PlayersOk
<1>2. players' = [v \in DOMAIN players \ {u} |-> players[v]]
    BY DEF LogOut, Restrict
<1>3. DOMAIN players' = DOMAIN players \ {u} /\ \A v \in DOMAIN players \ {u} : players'[v] = players[v]
    BY <1>2
<1>4. HeadT' = HeadT /\ MaxPlayers' = MaxPlayers /\ Forward
    BY HallLeaves
<1>5. players' \in [DOMAIN players' -> [head : HeadT, late : BOOLEAN]]
    BY <1>1, <1>2, <1>3
<1>6. IsFiniteSet(DOMAIN players') /\ Cardinality(DOMAIN players') <= MaxPlayers
    <2> DEFINE S == DOMAIN players
               T == DOMAIN players'
    <2>1. IsFiniteSet(S) /\ T \in SUBSET S /\ Cardinality(S) <= MaxPlayers
        BY <1>1, <1>3
    <2> HIDE DEF S, T
    <2>2. IsFiniteSet(T) /\ Cardinality(T) <= Cardinality(S)
        BY <2>1, FS_Subset
    <2>3. Cardinality(S) \in Nat /\ Cardinality(T) \in Nat
        BY <2>1, <2>2, FS_CardinalityType
    <2>4. MaxPlayers \in Nat
        BY PlayerRoom DEF IInv, Typed
    <2>5. Cardinality(T) <= MaxPlayers
        BY <2>1, <2>2, <2>3, <2>4
    <2> QED BY <2>2, <2>5 DEF T
<1>7. \A v \in DOMAIN players' : PlayerOk(v)'
    BY <1>1, <1>3, <1>4, PlayerForward
<1>8. PlayersOk'
    BY <1>1, <1>3, <1>4, <1>5, <1>6, <1>7 DEF PlayersOk
<1> QED BY <1>3, <1>8

\* A session is begun.
LEMMA SessionBegun ==
    ASSUME IInv, UnchangedTcp, SessionLeft, NEW h, h = Stuck \/ HeadOk(h), NewSession(h)
    PROVE  SessOk'
<1>1. sess \in Seq(HeadT \cup {Stuck}) /\ Len(sess) < MaxSess /\ \A g \in Range(sess) : g = Stuck \/ HeadOk(g)
    BY DEF IInv, Says, HallOk, SessOk, SessionLeft
<1>2. h \in HeadT \cup {Stuck} /\ sess' = Append(sess, h)
    BY DEF HeadOk, NewSession
<1>3. HeadT' = HeadT /\ \A g : HeadOk(g) => HeadOk(g)'
    BY HallLeaves
<1> DEFINE S == HeadT \cup {Stuck}
<1>4. sess \in Seq(S) /\ h \in S
    BY <1>1, <1>2
<1>5. S' = S
    BY <1>3 DEF Stuck
<1> HIDE DEF S
<1>6. Append(sess, h) \in Seq(S) /\ Range(Append(sess, h)) = Range(sess) \cup {h}
    BY <1>4, RangeAppend
<1>7. Len(Append(sess, h)) = Len(sess) + 1 /\ Len(sess) \in Nat
    BY <1>4
<1>8. Len(sess') <= MaxSess
    BY <1>1, <1>2, <1>7, HallSizes
<1>9. \A g \in Range(sess') : g = Stuck \/ HeadOk(g)'
    BY <1>1, <1>2, <1>3, <1>6
<1>10. sess' \in Seq(HeadT' \cup {Stuck})
    BY <1>2, <1>3, <1>6 DEF S
<1> QED BY <1>8, <1>9, <1>10 DEF SessOk, Stuck

\* A session is done.
LEMMA SessionEnded ==
    ASSUME IInv, UnchangedTcp, NEW k \in DOMAIN sess, EndSession(k)
    PROVE  SessOk' /\ (sess[k] = Stuck \/ HeadOk(sess[k]))
<1> DEFINE S == HeadT \cup {Stuck}
<1>1. sess \in Seq(S) /\ Len(sess) <= MaxSess /\ \A g \in Range(sess) : g = Stuck \/ HeadOk(g)
    BY DEF IInv, Says, HallOk, SessOk
<1>2. HeadT' = HeadT /\ \A g : HeadOk(g) => HeadOk(g)'
    BY HallLeaves
<1> DEFINE a == SubSeq(sess, 1, k - 1)
           b == SubSeq(sess, k + 1, Len(sess))
<1>3. sess' = a \o b
    BY DEF EndSession
<1> HIDE DEF S
<1>4. Len(sess) \in Nat /\ k \in 1 .. Len(sess)
    BY <1>1
<1>5. k - 1 \in 0 .. Len(sess) /\ Len(sess) \in 0 .. Len(sess) /\ 1 \in Nat \ {0} /\ k + 1 \in Nat \ {0}
    BY <1>4
<1>6. a \in Seq(S) /\ Range(a) \subseteq Range(sess) /\ Len(a) = IF 1 <= k - 1 THEN ((k - 1) - 1) + 1 ELSE 0
    <2>1. PICK n \in 0 .. Len(sess) : n = k - 1
        BY <1>5
    <2>2. PICK j \in Nat \ {0} : j = 1
        BY <1>5
    <2>3. /\ SubSeq(sess, j, n) \in Seq(S) /\ Range(SubSeq(sess, j, n)) \subseteq Range(sess)
          /\ Len(SubSeq(sess, j, n)) = IF j <= n THEN (n - j) + 1 ELSE 0
        BY <1>1, RangeSub
    <2> QED BY <2>1, <2>2, <2>3
<1>7. b \in Seq(S) /\ Range(b) \subseteq Range(sess) /\ Len(b) = IF k + 1 <= Len(sess) THEN (Len(sess) - (k + 1)) + 1 ELSE 0
    <2>1. PICK j \in Nat \ {0} : j = k + 1
        BY <1>5
    <2>2. /\ SubSeq(sess, j, Len(sess)) \in Seq(S) /\ Range(SubSeq(sess, j, Len(sess))) \subseteq Range(sess)
          /\ Len(SubSeq(sess, j, Len(sess))) = IF j <= Len(sess) THEN (Len(sess) - j) + 1 ELSE 0
        BY <1>1, <1>5, RangeSub
    <2> QED BY <2>1, <2>2
<1> HIDE DEF a, b
<1>8. a \o b \in Seq(S) /\ Len(a \o b) = Len(a) + Len(b) /\ Range(a \o b) = Range(a) \cup Range(b)
    BY <1>6, <1>7, RangeConcat
<1>9. Len(a) + Len(b) <= Len(sess) /\ Len(a) \in Nat /\ Len(b) \in Nat
    BY <1>4, <1>6, <1>7
<1>10. Len(sess') <= MaxSess
    BY <1>1, <1>3, <1>4, <1>8, <1>9, HallSizes
<1>11. \A g \in Range(sess') : g = Stuck \/ HeadOk(g)'
    BY <1>1, <1>2, <1>3, <1>6, <1>7, <1>8
<1>12. sess' \in Seq(HeadT' \cup {Stuck})
    BY <1>2, <1>3, <1>8 DEF S
<1>13. sess[k] \in Range(sess)
    BY <1>1, <1>4, RangeOf
<1> QED BY <1>1, <1>10, <1>11, <1>12, <1>13 DEF SessOk, Stuck

\* A step that leaves the players as they are, takes nothing from the cs pipe
\* but requests, and tells tcpsvr no player.
LEMMA SamePlayers ==
    ASSUME IInv, UnchangedTcp, CsPipe', ScPipe', QueueOk', SessOk', LoginOk', players' = players, named' = named,
           AllLast', trouble' \in BOOLEAN, trouble => trouble', Range(sc) \subseteq Range(sc'), NoticesStay,
           \A c \in Conn : NoticeComing(c)' => NoticeComing(c),
           ~trouble' => \A c \in Conn : Refusing(c) => Coming("bye", c)' \/ Refusing(c)'
    PROVE  IInv'
<1>1. PlayersOk' /\ NamedOk'
    BY Untouched
<1>2. AllGone'
    BY PlayersKept DEF AllGone
<1>3. Agreed'
    <2> SUFFICES ASSUME ~trouble', NEW c \in Conn PROVE AgreedAt(c)'
        BY DEF Agreed
    <2>1. ~trouble
        OBVIOUS
    <2>2. HasPlayer(c) => HasPlayer(c)'
        BY DEF HasPlayer
    <2>3. Coming("bye", c) => Coming("bye", c)'
        BY DEF Coming
    <2> QED BY <2>1, <2>2, <2>3, HallAgreed
<1> QED BY <1>1, <1>2, <1>3, HallSteps

\* What is in neither pipe's way.
LEMMA SamePipes ==
    ASSUME TRUE
    PROVE  /\ cs' = cs => NoticesStay /\ \A c \in Conn : NoticeComing(c)' => NoticeComing(c)
           /\ sc' = sc => Range(sc) \subseteq Range(sc')
           /\ login' = login => \A c \in Conn : Refusing(c)' <=> Refusing(c)
           /\ login = <<>> => \A c \in Conn : ~Refusing(c)
BY DEF NoticesStay, Notice, NoticeComing, Refusing

\* GetClientNotice.  A notice is of a connection that has ended, so that the
\* player it removes is not one of an open connection, unless another
\* connection had it by then.
LEMMA NoticeStep ==
    ASSUME IInv, GetClientNotice
    PROVE  IInv'
<1>1. PICK m : m = Head(cs)
    OBVIOUS
<1>2. /\ login = <<>> /\ cs # <<>> /\ m.kind = "discon" /\ cs' = Tail(cs) /\ LogOut(m.uid)
      /\ trouble' = (trouble \/ \E u \in DOMAIN players \ DOMAIN players' : players[u].head.to # m.head.to)
      /\ UnchangedTcp /\ sc' = sc /\ queue' = queue /\ login' = login /\ sess' = sess /\ named' = named
    BY <1>1 DEF GetClientNotice, OnClientOffline
<1>3. /\ CsPipe' /\ CsOk(m) /\ Range(cs') \subseteq Range(cs)
      /\ \A x \in Range(cs) : x = m \/ x \in Range(cs')
    BY <1>1, <1>2, CsPops
<1>4. /\ DOMAIN players' = DOMAIN players \ {m.uid}
      /\ \A v \in DOMAIN players \ {m.uid} : players'[v] = players[v]
      /\ PlayersOk'
    BY <1>2, LogOutFacts
<1>5. ScPipe' /\ QueueOk' /\ SessOk' /\ LoginOk' /\ NamedOk' /\ AllLast'
    BY <1>2, Untouched
<1>6. cli' = cli /\ told' = told
    BY <1>2, HallLeaves
<1>7. \A v \in DOMAIN players : PlayerOk(v) /\ GoneAt(v)
    BY DEF IInv, Says, HallOk, PlayersOk, AllGone
<1>8. AllGone'
    <2> SUFFICES ASSUME NEW v \in DOMAIN players \ {m.uid} PROVE GoneAt(v)'
        BY <1>4 DEF AllGone
    <2>1. players'[v] = players[v] /\ GoneAt(v)
        BY <1>4, <1>7
    <2>2. PICK c : c = players[v].head.to
        OBVIOUS
    <2>3. told[c] = v => players[v].late \/ Notice(c, v)
        BY <2>1, <2>2 DEF GoneAt
    <2>4. Notice(c, v) => Notice(c, v)'
        <3> SUFFICES ASSUME NEW x \in Range(cs), x.kind = "discon", x.uid = v, x.head.to = c PROVE Notice(c, v)'
            BY DEF Notice
        <3>1. x # m
            OBVIOUS
        <3> QED BY <1>3, <3>1 DEF Notice
    <2>5. told'[c] = v => players'[v].late \/ Notice(c, v)'
        BY <1>6, <2>1, <2>3, <2>4
    <2>6. players'[v].head.to = c
        BY <2>1, <2>2
    <2> QED BY <2>5, <2>6 DEF GoneAt, Notice
<1>9. ASSUME ~trouble', NEW c \in Conn, cli[c].st = "open", HasPlayer(c)
       PROVE  HasPlayer(c)'
    <2>1. named[c] \in DOMAIN players /\ players[named[c]].head.to = c
        BY <1>9 DEF HasPlayer
    <2>2. CASE named[c] = m.uid
        <3>1. m.uid \in DOMAIN players \ DOMAIN players'
            BY <1>4, <2>1, <2>2
        <3>2. players[m.uid].head.to = m.head.to
            BY <1>2, <1>9, <3>1
        <3>3. m.head.to = c /\ m \in Range(cs)
            <4>1. cs \in Seq(CsMsg)
                BY DEF IInv, Says, CsPipe
            <4> QED BY <1>1, <1>2, <2>1, <2>2, <3>2, <4>1, RangeTail
        <3>4. NoticeComing(c)
            BY <1>2, <3>3 DEF NoticeComing
        <3>5. cli[c].st \in Ended
            BY <3>4 DEF IInv, NoticesTrue
        <3> QED BY <1>9, <3>5 DEF Ended
    <2>3. CASE named[c] # m.uid
        <3>1. named[c] \in DOMAIN players' /\ players'[named[c]] = players[named[c]]
            BY <1>4, <2>1, <2>3
        <3> QED BY <1>2, <2>1, <3>1 DEF HasPlayer
    <2> QED BY <2>2, <2>3
<1>10. Agreed'
    <2> SUFFICES ASSUME ~trouble', NEW c \in Conn, cli'[c].st = "open" PROVE AgreedAt(c)'
        BY DEF Agreed, AgreedAt
    <2>1. ~trouble
        BY <1>2
    <2>2. HasPlayer(c) => HasPlayer(c)'
        BY <1>6, <1>9
    <2>3. (Coming("bye", c)' <=> Coming("bye", c)) /\ ~Refusing(c)
        BY <1>2 DEF Coming, Refusing
    <2>4. named'[c] = named[c]
        BY <1>2
    <2> QED BY <1>2, <2>1, <2>2, <2>3, <2>4, HallAgreed
<1>11. trouble' \in BOOLEAN
    <2>1. trouble \in BOOLEAN
        BY DEF IInv, Typed
    <2> QED BY <1>2, <2>1, Zenon
<1>12. \A c \in Conn : NoticeComing(c)' => NoticeComing(c)
    BY <1>3 DEF NoticeComing
<1> QED BY <1>2, <1>3, <1>4, <1>5, <1>8, <1>10, <1>11, <1>12, HallSteps

\* GetClientMessage.
LEMMA MessageStep ==
    ASSUME IInv, GetClientMessage
    PROVE  IInv'
<1>1. PICK m : m = Head(cs)
    OBVIOUS
<1>2. /\ login = <<>> /\ cs # <<>> /\ m.kind # "discon" /\ cs' = Tail(cs) /\ queue' = Offer(queue, m, MsgCap)
      /\ trouble' = (trouble \/ ~Room(queue, MsgCap))
      /\ UnchangedTcp /\ sc' = sc /\ login' = login /\ players' = players /\ sess' = sess /\ named' = named
    BY <1>1 DEF GetClientMessage, PostMessage
<1>3. /\ CsPipe' /\ CsOk(m) /\ Range(cs') \subseteq Range(cs)
      /\ \A x \in Range(cs) : x = m \/ x \in Range(cs')
    BY <1>1, <1>2, CsPops
<1>4. ScPipe' /\ SessOk' /\ LoginOk' /\ AllLast'
    BY <1>2, Untouched
<1>5. QueueOk'
    <2>1. queue \in Seq(CsMsg) /\ Len(queue) <= MsgCap /\ MsgCap \in Nat /\ \A x \in Range(queue) : RequestOk(x)
        BY HallSizes DEF IInv, Says, HallOk, QueueOk
    <2>2. m \in CsMsg /\ RequestOk(m)
        BY <1>2, <1>3 DEF CsOk, RequestOk
    <2>3. PICK q : q = Offer(queue, m, MsgCap)
        OBVIOUS
    <2>4. q \in Seq(CsMsg) /\ Len(q) <= MsgCap /\ Range(q) \subseteq Range(queue) \cup {m}
        BY <2>1, <2>2, <2>3, OfferFacts
    <2>5. CsMsg' = CsMsg /\ \A x : RequestOk(x) => RequestOk(x)'
        BY <1>2, HallLeaves
    <2> QED BY <1>2, <2>1, <2>2, <2>3, <2>4, <2>5 DEF QueueOk
<1>6. NoticesStay /\ \A c \in Conn : NoticeComing(c)' => NoticeComing(c)
    BY <1>2, <1>3 DEF NoticesStay, Notice, NoticeComing
<1>7. trouble' \in BOOLEAN /\ (trouble => trouble')
    <2>1. trouble \in BOOLEAN
        BY DEF IInv, Typed
    <2> QED BY <1>2, <2>1 DEF Room
<1> QED BY <1>2, <1>3, <1>4, <1>5, <1>6, <1>7, SamePipes, SamePlayers

\* OnClientMessageDropped, OnClientMessageOther and LoginAgain.
LEMMA QuietSteps ==
    ASSUME IInv, OnClientMessageDropped \/ OnClientMessageOther \/ LoginAgain
    PROVE  IInv'
<1>1. /\ Dispatched /\ sc' = sc /\ login' = login /\ players' = players /\ named' = named /\ trouble' = trouble
    BY DEF OnClientMessageDropped, OnClientMessageOther, LoginAgain, Login
<1>2. /\ QueueOk' /\ RequestOk(Message) /\ login = <<>> /\ UnchangedTcp /\ cs' = cs
    BY <1>1, QueuePops
<1>3. SessOk'
    <2>1. CASE OnClientMessageDropped
        BY <1>2, <2>1, Untouched DEF OnClientMessageDropped
    <2>2. CASE OnClientMessageOther
        <3>1. SessionLeft /\ NewSession(Stuck)
            BY <2>2 DEF OnClientMessageOther
        <3> QED BY <1>2, <3>1, SessionBegun
    <2>3. CASE LoginAgain
        <3>1. SessionLeft /\ NewSession(Message.head) /\ HeadOk(Message.head)
            BY <1>2, <2>3 DEF LoginAgain, Login, RequestOk, CsOk
        <3> QED BY <1>2, <3>1, SessionBegun
    <2> QED BY <2>1, <2>2, <2>3
<1>4. CsPipe' /\ ScPipe' /\ LoginOk' /\ AllLast'
    BY <1>1, <1>2, Untouched
<1>5. trouble' \in BOOLEAN
    BY <1>1 DEF IInv, Typed
<1> QED BY <1>1, <1>2, <1>3, <1>4, <1>5, SamePipes, SamePlayers

\* A message that is no index goes to tcpsvr, and perhaps ends a session or a
\* login.
LEMMA TellStep ==
    ASSUME IInv, UnchangedTcp, cs' = cs, QueueOk', SessOk', login' = <<>>, players' = players, named' = named,
           NEW kind \in {"answer", "bye"}, NEW h, HeadOk(h), Tell(kind, None, h),
           \A c \in Conn : Refusing(c) => kind = "bye" /\ c = h.to
    PROVE  IInv'
<1>1. /\ ScPipe' /\ trouble' \in BOOLEAN /\ (trouble => trouble')
      /\ Range(sc) \subseteq Range(sc')
      /\ \A m \in Range(sc') : m \in Range(sc) \/ (m.kind = kind /\ m.head.to = h.to)
      /\ Room(sc, ScCap) => \E m \in Range(sc') : m.kind = kind /\ m.uid = None /\ m.head = h
      /\ ~trouble' => Room(sc, ScCap)
    <2>1. kind \in {"index", "answer", "bye"} /\ None \in Uid \cup {None}
        OBVIOUS
    <2> QED BY <2>1, TellFacts
<1>2. AllLast'
    <2>1. kind \in {"index", "answer", "bye"} /\ None \in Uid \cup {None}
        OBVIOUS
    <2>2. \A c \in Conn : named'[c] = IF kind = "index" /\ h.to = c /\ Room(sc, ScCap) THEN None ELSE named[c]
        OBVIOUS
    <2> QED BY <2>1, <2>2, TellLast
<1>3. ~trouble' => \A c \in Conn : Refusing(c) => Coming("bye", c)'
    BY <1>1 DEF Coming
<1>4. CsPipe' /\ LoginOk'
    BY Untouched
<1> QED BY <1>1, <1>2, <1>3, <1>4, SamePipes, SamePlayers

\* LoginExpired.
LEMMA ExpiredStep ==
    ASSUME IInv, LoginExpired
    PROVE  IInv'
<1>1. Dispatched /\ Tell("bye", None, Message.head) /\ login' = login /\ players' = players /\ sess' = sess /\ named' = named
    BY DEF LoginExpired, Login
<1>2. QueueOk' /\ RequestOk(Message) /\ login = <<>> /\ UnchangedTcp /\ cs' = cs
    BY <1>1, QueuePops
<1>3. PICK h : h = Message.head
    OBVIOUS
<1>4. HeadOk(h) /\ Tell("bye", None, h)
    BY <1>1, <1>2, <1>3 DEF RequestOk, CsOk
<1>5. SessOk' /\ \A c \in Conn : ~Refusing(c)
    BY <1>1, <1>2, Untouched, SamePipes
<1> QED BY <1>1, <1>2, <1>4, <1>5, TellStep

\* LoginRefused.
LEMMA RefusedStep ==
    ASSUME IInv, LoginRefused
    PROVE  IInv'
<1>1. /\ login # <<>> /\ login[1] = "refuse" /\ login' = <<>> /\ Tell("bye", None, login[2].head)
      /\ UnchangedTcp /\ cs' = cs /\ queue' = queue /\ players' = players /\ sess' = sess /\ named' = named
    BY DEF LoginRefused
<1>2. PICK m \in CsMsg : RequestOk(m) /\ (login = <<"index", m>> \/ login = <<"refuse", m>>)
    BY <1>1 DEF IInv, Says, HallOk, LoginOk
<1>3. login[2] = m
    BY <1>2
<1>4. PICK h : h = m.head
    OBVIOUS
<1>5. HeadOk(h) /\ Tell("bye", None, h)
    BY <1>1, <1>2, <1>3, <1>4 DEF RequestOk, CsOk
<1>6. SessOk' /\ QueueOk'
    BY <1>1, Untouched
<1>7. \A c \in Conn : Refusing(c) => c = h.to
    BY <1>3, <1>4 DEF Refusing
<1> QED BY <1>1, <1>5, <1>6, <1>7, TellStep

\* OnServerMessage.
LEMMA AnswerStep ==
    ASSUME IInv, NEW k \in DOMAIN sess, OnServerMessage(k)
    PROVE  IInv'
<1>1. /\ login = <<>> /\ sess[k] # Stuck /\ EndSession(k)
      /\ Tell("answer", None, sess[k]) \/ (sc' = sc /\ trouble' = trouble)
      /\ UnchangedTcp /\ cs' = cs /\ queue' = queue /\ login' = login /\ players' = players /\ named' = named
    BY DEF OnServerMessage
<1>2. SessOk' /\ HeadOk(sess[k])
    BY <1>1, SessionEnded
<1>3. CsPipe' /\ QueueOk' /\ LoginOk'
    BY <1>1, Untouched
<1>4. CASE Tell("answer", None, sess[k])
    <2>1. PICK h : h = sess[k]
        OBVIOUS
    <2>2. HeadOk(h) /\ Tell("answer", None, h)
        BY <1>2, <1>4, <2>1
    <2>3. \A c \in Conn : ~Refusing(c)
        BY <1>1, SamePipes
    <2> QED BY <1>1, <1>2, <1>3, <2>2, <2>3, TellStep
<1>5. CASE sc' = sc /\ trouble' = trouble
    <2>1. ScPipe' /\ AllLast' /\ trouble' \in BOOLEAN
        BY <1>1, <1>5, Untouched DEF IInv, Typed
    <2> QED BY <1>1, <1>2, <1>3, <1>5, <2>1, SamePipes, SamePlayers
<1> QED BY <1>1, <1>4, <1>5

\* CheckTimeOut.
LEMMA TimeOutStep ==
    ASSUME IInv, NEW k \in DOMAIN sess, CheckTimeOut(k)
    PROVE  IInv'
<1>1. /\ EndSession(k) /\ login = <<>> /\ UnchangedTcp /\ cs' = cs /\ sc' = sc /\ queue' = queue /\ login' = login
      /\ players' = players /\ named' = named /\ trouble' = trouble
    BY DEF CheckTimeOut
<1>2. SessOk'
    BY <1>1, SessionEnded
<1>3. CsPipe' /\ ScPipe' /\ QueueOk' /\ LoginOk' /\ AllLast'
    BY <1>1, Untouched
<1>4. trouble' \in BOOLEAN
    BY <1>1 DEF IInv, Typed
<1> QED BY <1>1, <1>2, <1>3, <1>4, SamePipes, SamePlayers

\* LoginKick.  The connection that loses its player is told to go.
LEMMA KickStep ==
    ASSUME IInv, LoginKick
    PROVE  IInv'
<1>1. PICK m : m = Message
    OBVIOUS
<1>2. /\ Dispatched /\ SessionLeft /\ m.uid \in DOMAIN players /\ Tell("bye", None, players[m.uid].head)
      /\ LogOut(m.uid) /\ login' = <<"index", m>> /\ sess' = sess /\ named' = named
    BY <1>1 DEF LoginKick, Login, IsPlayer
<1>3. QueueOk' /\ RequestOk(m) /\ m \in CsMsg /\ login = <<>> /\ UnchangedTcp /\ cs' = cs
    BY <1>1, <1>2, QueuePops
<1>4. PICK h : h = players[m.uid].head
    OBVIOUS
<1>5. PlayerOk(m.uid) /\ HeadOk(h)
    BY <1>2, <1>4 DEF IInv, Says, HallOk, PlayersOk, PlayerOk
<1>6. /\ ScPipe' /\ trouble' \in BOOLEAN /\ (trouble => trouble')
      /\ Range(sc) \subseteq Range(sc')
      /\ \A x \in Range(sc') : x \in Range(sc) \/ (x.kind = "bye" /\ x.head.to = h.to)
      /\ Room(sc, ScCap) => \E x \in Range(sc') : x.kind = "bye" /\ x.uid = None /\ x.head = h
      /\ ~trouble' => Room(sc, ScCap)
    <2>1. "bye" \in {"index", "answer", "bye"} /\ None \in Uid \cup {None} /\ Tell("bye", None, h)
        BY <1>2, <1>4
    <2> QED BY <1>3, <1>5, <2>1, TellFacts
<1>7. /\ DOMAIN players' = DOMAIN players \ {m.uid}
      /\ \A v \in DOMAIN players \ {m.uid} : players'[v] = players[v]
      /\ PlayersOk'
    BY <1>2, <1>3, LogOutFacts
<1>8. CsPipe' /\ SessOk' /\ NamedOk' /\ NoticesStay /\ \A c \in Conn : NoticeComing(c)' => NoticeComing(c)
    BY <1>2, <1>3, Untouched, SamePipes
<1>9. LoginOk'
    <2>1. CsMsg' = CsMsg /\ RequestOk(m)'
        BY <1>3, HallLeaves
    <2>2. SessionLeft'
        BY <1>2 DEF SessionLeft
    <2> QED BY <1>2, <1>3, <1>7, <2>1, <2>2 DEF LoginOk
<1>10. AllGone'
    BY <1>3, <1>7, <1>8, PlayersKept DEF AllGone
<1>12. AllLast'
    <2>1. "bye" \in {"index", "answer", "bye"} /\ None \in Uid \cup {None} /\ Tell("bye", None, h)
        BY <1>2, <1>4
    <2>2. \A c \in Conn : named'[c] = IF "bye" = "index" /\ h.to = c /\ Room(sc, ScCap) THEN None ELSE named[c]
        BY <1>2
    <2> QED BY <1>3, <1>5, <2>1, <2>2, TellLast
<1>11. Agreed'
    <2> SUFFICES ASSUME ~trouble', NEW c \in Conn PROVE AgreedAt(c)'
        BY DEF Agreed
    <2>1. ~trouble /\ ~Refusing(c)
        BY <1>3, <1>6 DEF Refusing
    <2>2. named'[c] = named[c]
        BY <1>2
    <2>3. Coming("bye", c) => Coming("bye", c)'
        BY <1>6 DEF Coming
    <2>4. HasPlayer(c) => HasPlayer(c)' \/ Coming("bye", c)'
        <3>1. CASE named[c] = m.uid
            <4>1. HasPlayer(c) => c = h.to
                BY <1>4, <3>1 DEF HasPlayer
            <4>2. Coming("bye", h.to)'
                BY <1>6 DEF Coming
            <4> QED BY <4>1, <4>2 DEF Coming
        <3>2. CASE named[c] # m.uid
            BY <1>2, <1>7, <3>2 DEF HasPlayer
        <3> QED BY <3>1, <3>2
    <2> QED BY <1>3, <2>1, <2>2, <2>3, <2>4, HallAgreed
<1> QED BY <1>3, <1>6, <1>7, <1>8, <1>9, <1>10, <1>11, <1>12, HallSteps

\* LogIn.  tcpsvr is told first, so that the new player is indexed.
LEMMA LogInStep ==
    ASSUME IInv, UnchangedTcp, cs' = cs, QueueOk', SessionLeft, NEW m \in CsMsg, RequestOk(m),
           m.uid \notin DOMAIN players, \A c \in Conn : ~Refusing(c), LogIn(m)
    PROVE  IInv'
<1>1. HeadOk(m.head) /\ m.uid \in Uid /\ m.head \in HeadT /\ m.head.to \in Conn /\ Old(m.head.to)
    BY DEF RequestOk, CsOk, CsMsg, HeadT, HeadOk
<1>2. /\ ScPipe' /\ trouble' \in BOOLEAN /\ (trouble => trouble')
      /\ Range(sc) \subseteq Range(sc')
      /\ \A x \in Range(sc') : x \in Range(sc) \/ (x.kind = "index" /\ x.head.to = m.head.to)
      /\ Room(sc, ScCap) => \E x \in Range(sc') : x.kind = "index" /\ x.uid = m.uid /\ x.head = m.head
      /\ ~trouble' => Room(sc, ScCap)
    <2>1. "index" \in {"index", "answer", "bye"} /\ m.uid \in Uid \cup {None} /\ Tell("index", m.uid, m.head)
        BY <1>1 DEF LogIn
    <2> QED BY <1>1, <2>1, TellFacts
<1>3. CsPipe' /\ NoticesStay /\ \A c \in Conn : NoticeComing(c)' => NoticeComing(c)
    BY Untouched, SamePipes
<1>4. cli' = cli /\ told' = told /\ MaxPlayers' = MaxPlayers /\ HeadT' = HeadT /\ CsMsg' = CsMsg /\ HeadOk(m.head)' /\ RequestOk(m)'
    <2>1. ASSUME NEW h, h = m.head PROVE HeadOk(h)'
        BY <1>1, <2>1, HallLeaves
    <2>2. HeadOk(m.head)'
        BY <2>1 DEF HeadOk
    <2> QED BY <2>2, HallLeaves
<1>5. ASSUME NEW u \in DOMAIN players, players'[u] = players[u]
      PROVE  PlayerOk(u)' /\ GoneAt(u)'
    BY <1>3, <1>5, PlayersKept
<1>8. /\ named' \in PlayersOf /\ \A c \in Conn \ {m.head.to} : named'[c] = named[c]
      /\ Room(sc, ScCap) => named'[m.head.to] = m.uid
      /\ ~Room(sc, ScCap) => named' = named
    <2>1. PICK d : d = m.head.to
        OBVIOUS
    <2>2. PICK u : u = m.uid
        OBVIOUS
    <2>3. named' = IF Room(sc, ScCap) THEN [named EXCEPT ![d] = u] ELSE named
        BY <2>1, <2>2 DEF LogIn, Indexed
    <2>4. named \in PlayersOf /\ d \in Conn /\ u \in Uid
        BY <1>1, <2>1, <2>2 DEF IInv, Says, HallOk, NamedOk
    <2>5. /\ named' \in PlayersOf /\ \A c \in Conn \ {d} : named'[c] = named[c]
          /\ Room(sc, ScCap) => named'[d] = u
          /\ ~Room(sc, ScCap) => named' = named
        <3>1. CASE Room(sc, ScCap)
            BY <2>3, <2>4, <3>1 DEF PlayersOf
        <3>2. CASE ~Room(sc, ScCap)
            BY <2>3, <2>4, <3>2
        <3> QED BY <3>1, <3>2
    <2> QED BY <2>1, <2>2, <2>5
<1>9. NamedOk'
    BY <1>1, <1>4, <1>8 DEF IInv, Says, HallOk, NamedOk, Old
<1>10. AllLast'
    <2>1. "index" \in {"index", "answer", "bye"} /\ m.uid \in Uid \cup {None} /\ Tell("index", m.uid, m.head)
        BY <1>1 DEF LogIn
    <2>2. PICK h : h = m.head
        OBVIOUS
    <2>3. PICK u : u = m.uid
        OBVIOUS
    <2>4. \A c \in Conn : named'[c] = IF "index" = "index" /\ h.to = c /\ Room(sc, ScCap) THEN u ELSE named[c]
        BY <1>1, <1>8, <2>2, <2>3
    <2>5. u \in Uid \cup {None} /\ HeadOk(h) /\ Tell("index", u, h)
        BY <1>1, <2>1, <2>2, <2>3
    <2> QED BY <2>1, <2>4, <2>5, TellLast
<1>6. CASE Indexed /\ Cardinality(DOMAIN players) < MaxPlayers
    <2> DEFINE p == NewPlayer(m)
    <2>1. /\ players' = [u \in DOMAIN players \cup {m.uid} |-> IF u = m.uid THEN p ELSE players[u]]
          /\ login' = <<>> /\ NewSession(m.head) /\ Room(sc, ScCap)
        BY <1>6 DEF LogIn, Indexed
    <2>2. p \in [head : HeadT, late : BOOLEAN] /\ p.head = m.head /\ p.late = (cli[m.head.to].st \in Ended)
        BY <1>1 DEF NewPlayer
    <2> HIDE DEF p
    <2>3. /\ DOMAIN players' = DOMAIN players \cup {m.uid} /\ players'[m.uid] = p
          /\ \A u \in DOMAIN players : players'[u] = players[u]
        BY <2>1
    <2>4. SessOk' /\ LoginOk'
        <3>1. PICK h : h = m.head
            OBVIOUS
        <3>2. HeadOk(h) /\ NewSession(h)
            BY <1>1, <2>1, <3>1
        <3> QED BY <2>1, <3>2, SessionBegun, Untouched
    <2>5. PlayerOk(m.uid)'
        BY <1>1, <1>4, <2>2, <2>3 DEF PlayerOk, HeadOk
    <2>7. GoneAt(m.uid)'
        <3>1. told[m.head.to] = m.uid => cli[m.head.to].st \in Ended
            BY <1>1, HallSizes DEF IInv, NoticesTrue
        <3>2. players'[m.uid].head.to = m.head.to /\ players'[m.uid].late = (cli[m.head.to].st \in Ended)
            BY <2>2, <2>3
        <3>3. told'[m.head.to] = m.uid => players'[m.uid].late
            BY <1>4, <3>1, <3>2
        <3> QED BY <3>2, <3>3 DEF GoneAt
    <2>8. AllGone'
        BY <1>5, <2>3, <2>7 DEF AllGone
    <2>9. PlayersOk'
        <3>1. /\ players \in [DOMAIN players -> [head : HeadT, late : BOOLEAN]] /\ DOMAIN players \subseteq Uid
              /\ IsFiniteSet(DOMAIN players)
            BY DEF IInv, Says, HallOk, PlayersOk
        <3>2. players' \in [DOMAIN players' -> [head : HeadT, late : BOOLEAN]]
            BY <2>1, <2>2, <2>3, <3>1
        <3>3. IsFiniteSet(DOMAIN players') /\ Cardinality(DOMAIN players') <= MaxPlayers
            <4> DEFINE S == DOMAIN players
            <4>1. IsFiniteSet(S) /\ m.uid \notin S /\ Cardinality(S) < MaxPlayers
                BY <1>6, <3>1
            <4> HIDE DEF S
            <4>2. IsFiniteSet(S \cup {m.uid}) /\ Cardinality(S \cup {m.uid}) = Cardinality(S) + 1
                BY <4>1, FS_AddElement
            <4>3. Cardinality(S) \in Nat
                BY <4>1, FS_CardinalityType
            <4>4. MaxPlayers \in Nat
                BY PlayerRoom DEF IInv, Typed
            <4>5. Cardinality(S \cup {m.uid}) <= MaxPlayers
                BY <4>1, <4>2, <4>3, <4>4
            <4> QED BY <1>4, <2>3, <4>2, <4>5 DEF S
        <3>4. \A u \in DOMAIN players' : PlayerOk(u)'
            BY <1>5, <2>3, <2>5
        <3> QED BY <1>1, <1>4, <2>3, <3>1, <3>2, <3>3, <3>4 DEF PlayersOk
    <2>10. Agreed'
        <3> SUFFICES ASSUME ~trouble', NEW c \in Conn PROVE AgreedAt(c)'
            BY DEF Agreed
        <3>1. c # m.head.to => named'[c] = named[c]
            BY <1>8
        <3>2. c = m.head.to => HasPlayer(c)'
            BY <1>8, <2>1, <2>2, <2>3 DEF HasPlayer
        <3>3. c # m.head.to /\ HasPlayer(c) => HasPlayer(c)'
            BY <2>3, <3>1 DEF HasPlayer
        <3>4. Coming("bye", c) => Coming("bye", c)'
            BY <1>2 DEF Coming
        <3>5. ~trouble /\ ~Refusing(c)
            BY <1>2
        <3> QED BY <3>1, <3>2, <3>3, <3>4, <3>5, HallAgreed
    <2> QED BY <1>2, <1>3, <1>9, <1>10, <2>4, <2>8, <2>9, <2>10, HallSteps
<1>7. CASE ~(Indexed /\ Cardinality(DOMAIN players) < MaxPlayers)
    <2>1. login' = <<"refuse", m>> /\ players' = players /\ sess' = sess
        BY <1>7 DEF LogIn
    <2>2. PlayersOk' /\ SessOk'
        BY <2>1, Untouched
    <2>3. LoginOk'
        BY <1>4, <2>1 DEF LoginOk
    <2>4. AllGone'
        BY <1>5, <2>1 DEF AllGone
    <2>5. Agreed'
        <3> SUFFICES ASSUME ~trouble', NEW c \in Conn PROVE AgreedAt(c)'
            BY DEF Agreed
        <3>1. c # m.head.to => named'[c] = named[c]
            BY <1>8
        <3>2. c = m.head.to => Refusing(c)'
            BY <2>1 DEF Refusing
        <3>3. c # m.head.to /\ HasPlayer(c) => HasPlayer(c)'
            BY <2>1, <3>1 DEF HasPlayer
        <3>4. Coming("bye", c) => Coming("bye", c)'
            BY <1>2 DEF Coming
        <3>5. ~trouble /\ ~Refusing(c)
            BY <1>2
        <3> QED BY <3>1, <3>2, <3>3, <3>4, <3>5, HallAgreed
    <2> QED BY <1>2, <1>3, <1>9, <1>10, <2>2, <2>3, <2>4, <2>5, HallSteps
<1> QED BY <1>6, <1>7

\* LoginFresh.
LEMMA FreshStep ==
    ASSUME IInv, LoginFresh
    PROVE  IInv'
<1>1. PICK m : m = Message
    OBVIOUS
<1>2. Dispatched /\ SessionLeft /\ m.uid \notin DOMAIN players /\ LogIn(m)
    BY <1>1 DEF LoginFresh, Login, IsPlayer
<1>3. QueueOk' /\ RequestOk(m) /\ m \in CsMsg /\ login = <<>> /\ UnchangedTcp /\ cs' = cs
    BY <1>1, <1>2, QueuePops
<1> QED BY <1>2, <1>3, SamePipes, LogInStep

\* LoginKicked.
LEMMA KickedStep ==
    ASSUME IInv, LoginKicked
    PROVE  IInv'
<1>1. login # <<>> /\ login[1] = "index" /\ LogIn(login[2]) /\ UnchangedTcp /\ cs' = cs /\ queue' = queue
    BY DEF LoginKicked
<1>2. PICK m \in CsMsg : /\ RequestOk(m)
                         /\ \/ login = <<"index", m>> /\ m.uid \notin DOMAIN players /\ SessionLeft
                            \/ login = <<"refuse", m>>
    BY <1>1 DEF IInv, Says, HallOk, LoginOk
<1>3. login = <<"index", m>> /\ login[2] = m /\ m.uid \notin DOMAIN players /\ SessionLeft
    BY <1>1, <1>2
<1>4. \A c \in Conn : ~Refusing(c)
    BY <1>1 DEF Refusing
<1>5. QueueOk' /\ LogIn(m)
    BY <1>1, <1>3, Untouched
<1> QED BY <1>1, <1>2, <1>3, <1>4, <1>5, LogInStep

\* Empty queues and tables are right.
LEMMA Empty ==
    /\ \A S : <<>> \in Seq(S)
    /\ Len(<<>>) = 0 /\ Range(<<>>) = {} /\ DOMAIN <<>> = {}
<1>1. \A S : <<>> \in Seq(S)
    OBVIOUS
<1>2. Len(<<>>) = 0 /\ DOMAIN <<>> = {}
    OBVIOUS
<1>3. Range(<<>>) = {}
    BY <1>2 DEF Range
<1> QED BY <1>1, <1>2, <1>3

\* HallCrash.
LEMMA CrashStep ==
    ASSUME IInv, HallCrash
    PROVE  IInv'
<1>1. /\ players' = <<>> /\ sess' = <<>> /\ login' = <<>> /\ trouble' = TRUE
      /\ UnchangedTcp /\ cs' = cs /\ sc' = sc /\ queue' = queue /\ named' = named
    BY DEF HallCrash
<1>2. CsPipe' /\ ScPipe' /\ QueueOk' /\ LoginOk' /\ NamedOk' /\ AllLast'
    BY <1>1, Untouched
<1>3. SessOk'
    BY <1>1, Empty, HallSizes DEF SessOk
<1>4. DOMAIN players' = {} /\ players' \in [{} -> [head : HeadT', late : BOOLEAN]]
    BY <1>1, Empty
<1>5. PlayersOk'
    <2>1. IsFiniteSet({}) /\ Cardinality({}) = 0
        BY FS_EmptySet
    <2>2. MaxPlayers \in Nat /\ MaxPlayers' = MaxPlayers
        BY <1>1, PlayerRoom, HallLeaves DEF IInv, Typed
    <2> QED BY <1>4, <2>1, <2>2 DEF PlayersOk
<1>6. AllGone' /\ Agreed'
    BY <1>1, <1>4 DEF AllGone, Agreed
<1> QED BY <1>1, <1>2, <1>3, <1>5, <1>6, SamePipes, HallSteps

-----------------------------------------------------------------------------
(* The invariant.                                                          *)

\* It holds at first: every position is free and nobody has come.
LEMMA InitInv == ASSUME Init PROVE IInv
<1>1. /\ cli = [c \in Conn |-> NewConn] /\ ms = 0 /\ zero = Stdin
      /\ told = [c \in Conn |-> None] /\ named = [c \in Conn |-> None]
      /\ cs = <<>> /\ sc = <<>> /\ queue = <<>> /\ login = <<>> /\ players = <<>> /\ sess = <<>> /\ trouble = FALSE
    BY DEF Init
<1>2. PICK n \in SlotNums : sock = [p \in 1 .. n |-> FreeSock] /\ freeL = [p \in 1 .. n |-> p]
    BY DEF Init
<1>3. n \in Nat /\ Slot = 1 .. n
    BY <1>2, HallSizes DEF Slot
<1>4. \A c \in Conn : cli[c] = NewConn
    BY <1>1
<1>5. NewConn \in ConnT /\ NewConn.st = "new" /\ NewConn.pos = 0 /\ NewConn.wrong = None
    <2>1. 0 \in 0 .. MaxMs
        BY HallSizes
    <2> QED BY <2>1 DEF NewConn, ConnT, Ended
<1>6. FreeSock \in SockT /\ FreeSock.conn = None
    <2>1. <<>> \in Seq(Request)
        OBVIOUS
    <2>2. 0 \in 0 .. MaxMs
        BY HallSizes
    <2> QED BY <2>1, <2>2 DEF FreeSock, SockT
<1>7. /\ freeL \in Seq(Slot) /\ Free = Slot /\ \A i, j \in 1 .. Len(freeL) : freeL[i] = freeL[j] => i = j
    <2>1. freeL \in [1 .. n -> Slot]
        BY <1>2, <1>3
    <2>2. freeL \in Seq(Slot) /\ Len(freeL) = n
        BY <1>3, <2>1
    <2>3. \A p \in 1 .. n : freeL[p] = p
        BY <1>2
    <2>4. Range(freeL) = 1 .. n
        <3> SUFFICES ASSUME NEW f \in Seq(Slot), Len(f) = n, \A p \in 1 .. n : f[p] = p
                     PROVE  Range(f) = 1 .. n
            BY <2>2, <2>3
        <3>1. /\ \A i \in 1 .. Len(f) : f[i] \in Range(f)
              /\ \A x \in Range(f) : \E i \in 1 .. Len(f) : f[i] = x
            <4> HIDE DEF Slot
            <4> QED BY RangeOf
        <3>2. \A i \in 1 .. n : i \in Range(f)
            BY <3>1
        <3>3. \A x \in Range(f) : x \in 1 .. n
            BY <3>1
        <3> QED BY <3>2, <3>3
    <2> QED BY <1>3, <2>2, <2>3, <2>4 DEF Free
<1>8. TcpTyped
    <2>1. sock \in [Slot -> SockT] /\ cli \in [Conn -> ConnT] /\ zero \in Conn \cup {Stdin, Closed}
        BY <1>1, <1>2, <1>3, <1>5, <1>6
    <2>2. \E k \in SlotNums : Slot = 1 .. k
        BY <1>3
    <2> HIDE DEF Slot
    <2> QED BY <1>7, <2>1, <2>2 DEF TcpTyped
<1>9. \A p \in Slot : sock[p] = FreeSock /\ sock[p].conn = None
    BY <1>2, <1>3, <1>6
<1>10. Slots
    <2>1. ConnsKnown /\ OpenHolds
        BY <1>4, <1>5 DEF ConnsKnown, OpenHolds, Old
    <2>2. SlotsUsed /\ FreeOnce
        BY <1>7, <1>9 DEF SlotsUsed, FreeOnce
    <2>3. ZeroOpen
        BY <1>1, HallSizes DEF ZeroOpen
    <2> QED BY <2>1, <2>2, <2>3 DEF Slots
<1>11. CsPipe /\ ScPipe /\ QueueOk
    <2>1. 0 <= CsCap /\ 0 <= ScCap /\ 0 <= MsgCap
        BY HallSizes
    <2> QED BY <1>1, <2>1, Empty DEF CsPipe, ScPipe, QueueOk
<1>12. SessOk /\ LoginOk
    BY <1>1, Empty, HallSizes DEF SessOk, LoginOk
<1>13. PlayersOk
    <2>1. IsFiniteSet({}) /\ Cardinality({}) = 0 /\ MaxPlayers \in Nat
        BY <1>8, FS_EmptySet, PlayerRoom
    <2>2. DOMAIN players = {} /\ players \in [{} -> [head : HeadT, late : BOOLEAN]]
        BY <1>1, Empty
    <2> QED BY <2>1, <2>2 DEF PlayersOk
<1>14. WrongOk /\ AllLast
    BY <1>4, <1>5 DEF WrongOk, WrongAt, AllLast, LastAt
<1>15. told \in PlayersOf /\ named \in PlayersOf /\ \A c \in Conn : told[c] = None /\ named[c] = None
    BY <1>1 DEF PlayersOf
<1>16. AllGone /\ NoticesTrue /\ NamedOk
    BY <1>1, <1>15, Empty DEF AllGone, NoticesTrue, NoticeComing, NamedOk
<1>17. Agreed
    BY <1>4, <1>5 DEF Agreed, AgreedAt
<1>18. Typed
    BY <1>1, <1>8, <1>15 DEF Typed
<1> QED BY <1>10, <1>11, <1>12, <1>13, <1>14, <1>16, <1>17, <1>18 DEF IInv, Says, HallOk

\* A step that changes nothing that it speaks of: SendSpins, or none.
LEMMA StutterStep ==
    ASSUME IInv, UNCHANGED <<cli, ms, tcpVars, cs, sc, hallVars, trouble>>
    PROVE  IInv'
<1>1. /\ cli' = cli /\ ms' = ms /\ sock' = sock /\ freeL' = freeL /\ zero' = zero /\ cs' = cs /\ sc' = sc
      /\ told' = told /\ trouble' = trouble /\ UNCHANGED hallVars
    BY DEF tcpVars, hallVars
<1>2. TcpTyped /\ Slots /\ CsPipe /\ trouble \in BOOLEAN /\ ms \in Nat /\ told \in PlayersOf
    BY DEF IInv, Typed, Says
<1>3. TcpTyped' /\ Slots' /\ Forward
    BY <1>1, <1>2, SlotsUntouched
<1>4. CsPipe'
    BY <1>1, <1>2, <1>3, CsPipeForward DEF CsPipe
<1>5. \A c \in Conn : (NoticeComing(c)' <=> NoticeComing(c)) /\ (~Old(c) => cli'[c].st # "open")
    BY <1>1 DEF NoticeComing, Old
<1>6. ToldStep
    BY <1>1, <1>2, ToldSame
<1> QED BY <1>1, <1>2, <1>3, <1>4, <1>5, <1>6, TcpStep

\* Every step keeps it.
LEMMA NextInv == ASSUME IInv, [Next]_vars PROVE IInv'
<1>1. ASSUME NEW c \in Conn, NEW t \in 1 .. MaxMs, AcceptConnect(c, t)
      PROVE  IInv'
    BY <1>1, AcceptStep
<1>2. CASE AcceptFails
    BY <1>2, AcceptFailsStep
<1>3. CASE SendDataToClient
    BY <1>3, SendStep
<1>4. CASE TcpRestart
    BY <1>4, TcpRestartStep
<1>5. ASSUME NEW p \in Slot, RecvError(p) PROVE IInv'
    BY <1>5, RecvErrorStep
<1>6. ASSUME NEW p \in Slot, NEW read \in Sent, RecvEnd(p, read) \/ RecvReturns(p, read) \/ RecvAgain(p, read)
      PROVE  IInv'
    BY <1>6, RecvEndStep, RecvReturnsStep, RecvAgainStep
<1>7. CASE HallStep
    BY <1>7, NoticeStep, MessageStep, QuietSteps, ExpiredStep, KickStep, FreshStep, KickedStep, RefusedStep DEF HallStep
<1>8. CASE HallCrash
    BY <1>8, CrashStep
<1>9. ASSUME NEW k \in DOMAIN sess, OnServerMessage(k) \/ CheckTimeOut(k) PROVE IInv'
    BY <1>9, AnswerStep, TimeOutStep
<1>10. CASE SendSpins \/ UNCHANGED vars
    <2>1. UNCHANGED <<cli, ms, tcpVars, cs, sc, hallVars, trouble>>
        BY <1>10 DEF SendSpins, vars, tcpVars, hallVars
    <2> QED BY <2>1, StutterStep
<1>11. CASE DealNetwork
    BY <1>1, <1>2, <1>5, <1>6, <1>11 DEF DealNetwork
<1> QED BY <1>3, <1>4, <1>7, <1>8, <1>9, <1>10, <1>11 DEF Next

\* Everything that is said above of a state holds in every state reached.
THEOREM HallInvariant == Spec => []IInv
BY InitInv, NextInv, PTL DEF Spec

-----------------------------------------------------------------------------
(* What follows.                                                           *)

\* The state has its type, and neither pipe nor queue nor table outgrows its
\* room, whatever the sizes (TypeOK).
THEOREM HallTypes == Spec => []TypeOK
<1>1. IInv /\ spins \in BOOLEAN => TypeOK
    <2> SUFFICES ASSUME IInv, spins \in BOOLEAN PROVE TypeOK
        OBVIOUS
    <2>1. TcpTyped /\ trouble \in BOOLEAN /\ CsPipe /\ ScPipe /\ QueueOk /\ SessOk /\ PlayersOk
        BY DEF IInv, Typed, Says, HallOk
    <2>10. told \in [Conn -> Uid \cup {None}] /\ named \in [Conn -> Uid \cup {None}]
        BY DEF IInv, Typed, Says, HallOk, NamedOk, PlayersOf
    <2>2. \A c \in Conn : cli[c].st \in {"new", "open"} \cup Ended
        BY <2>1 DEF TcpTyped, ConnT
    <2>3. \A p \in Slot :
            sock[p].conn \in Conn \cup {None} /\ sock[p].time \in 0 .. MaxMs /\ sock[p].index \in Uid \cup {None}
        BY <2>1 DEF TcpTyped, SockT
    <2>4. zero \in Conn \cup {Stdin, Closed}
        BY <2>1 DEF TcpTyped
    <2>5. Len(cs) <= CsCap /\ \A k \in DOMAIN cs : cs[k] \in CsMsg
        <3> HIDE DEF CsMsg
        <3> QED BY <2>1 DEF CsPipe
    <2>6. Len(sc) <= ScCap /\ \A k \in DOMAIN sc : sc[k] \in ScMsg
        BY <2>1 DEF ScPipe
    <2>7. Len(queue) <= MsgCap /\ \A k \in DOMAIN queue : queue[k] \in CsMsg
        BY <2>1 DEF QueueOk
    <2>8. Len(sess) <= MaxSess /\ \A k \in DOMAIN sess : sess[k] \in HeadT \cup {Stuck}
        BY <2>1 DEF SessOk
    <2>9. /\ DOMAIN players \subseteq Uid /\ Cardinality(DOMAIN players) <= MaxPlayers
          /\ \A u \in DOMAIN players : players[u] \in [head : HeadT, late : BOOLEAN]
        BY <2>1 DEF PlayersOk
    <2> QED BY <2>1, <2>2, <2>3, <2>4, <2>5, <2>6, <2>7, <2>8, <2>9, <2>10 DEF TypeOK
<1>2. Init => spins \in BOOLEAN
    BY DEF Init
<1>3. spins \in BOOLEAN /\ [Next]_vars => (spins \in BOOLEAN)'
    <2> SUFFICES ASSUME spins \in BOOLEAN, [Next]_vars PROVE spins' \in BOOLEAN
        OBVIOUS
    <2>1. CASE DealNetwork
        BY <2>1 DEF DealNetwork
    <2>2. CASE SendDataToClient \/ SendSpins \/ TcpRestart
        BY <2>2 DEF SendDataToClient, SendSpins, TcpRestart
    <2>3. UnchangedTcp => spins' = spins
        BY DEF UnchangedTcp
    <2>4. CASE HallStep
        BY <2>3, <2>4 DEF HallStep, GetClientNotice, GetClientMessage, OnClientMessageDropped, OnClientMessageOther,
            LoginExpired, LoginAgain, LoginKick, LoginFresh, LoginKicked, LoginRefused, Login, Dispatched
    <2>5. CASE HallCrash
        BY <2>3, <2>5 DEF HallCrash
    <2>6. ASSUME NEW k \in DOMAIN sess, OnServerMessage(k) \/ CheckTimeOut(k) PROVE spins' \in BOOLEAN
        BY <2>3, <2>6 DEF OnServerMessage, CheckTimeOut
    <2>7. CASE UNCHANGED vars
        BY <2>7 DEF vars
    <2> QED BY <2>1, <2>2, <2>4, <2>5, <2>6, <2>7 DEF Next
<1> QED BY <1>1, <1>2, <1>3, HallInvariant, PTL DEF Spec

\* tcpsvr accounts for its positions, whichever way connections end and however
\* often accept fails: each is free, once, or has one connection, and every
\* accepted connection has its own (SlotsAccounted).
THEOREM PositionsAccounted == Spec => []SlotsAccounted
<1>1. IInv => SlotsAccounted
    <2> SUFFICES ASSUME IInv PROVE SlotsAccounted
        OBVIOUS
    <2>1. TcpTyped /\ Slots
        BY DEF IInv, Typed
    <2> DEFINE free == {freeL[k] : k \in DOMAIN freeL}
    <2>2. freeL \in Seq(Slot)
        BY <2>1 DEF TcpTyped
    <2>3. Cardinality(free) = Len(freeL)
        <3>1. \A i, j \in 1 .. Len(freeL) : freeL[i] = freeL[j] => i = j
            BY <2>1 DEF Slots, FreeOnce
        <3> HIDE DEF Slot
        <3> QED BY <2>2, <3>1, OnceCounts
    <2>4. free = Free
        BY DEF Free, Range
    <2>5. ASSUME NEW p \in Slot
          PROVE  IF p \in free THEN sock[p] = FreeSock
                 ELSE sock[p].conn # None /\ cli[sock[p].conn].st \in {"open", "lost"}
        BY <2>1, <2>4, UsedOrFree DEF Slots, SlotsUsed, InUse
    <2>6. \A c \in Conn : cli[c].st = "open" => Denotes(cli[c].pos) = c /\ sock[cli[c].pos].conn = c
        BY <2>1 DEF Slots, OpenHolds
    <2> QED BY <2>3, <2>5, <2>6 DEF SlotsAccounted
<1> QED BY <1>1, HallInvariant, PTL

\* A client receives only what is meant for its connection, or for one that
\* tcpsvr cannot tell from it, or for one whose descriptor it has
\* (OnlyOwnAnswers).
THEOREM OwnAnswers == Spec => []OnlyOwnAnswers
<1>1. IInv => OnlyOwnAnswers
    BY DEF IInv, WrongOk, WrongAt, OnlyOwnAnswers
<1> QED BY <1>1, HallInvariant, PTL

\* tcpsvr knows the player that an open connection has logged in last, or the last
\* it is about to be told is that one (PlayersIndexed).
THEOREM PlayersAreIndexed == Spec => []PlayersIndexed
<1>1. IInv => PlayersIndexed
    <2> SUFFICES ASSUME IInv, NEW u \in DOMAIN players, NEW c, c = players[u].head.to,
                        cli[c].st = "open", ~HasTwin(c), named[c] = u
                 PROVE  Announced(c, u)
        BY DEF PlayersIndexed
    <2>1. c \in Conn
        BY DEF IInv, Says, HallOk, PlayersOk, PlayerOk, HeadT
    <2>2. LastIs(sc, c, u, sock[cli[c].pos].index)
        BY <2>1 DEF IInv, AllLast, LastAt
    <2> QED BY <2>2 DEF LastIs, IndexFor, Announced, Socket
<1> QED BY <1>1, HallInvariant, PTL

\* Once a notice is dealt with the player it names is gone, or has another
\* connection, or its login came after the connection's end (GoneLeaves).
THEOREM NoticesRemove == Spec => []GoneLeaves
<1>1. IInv => GoneLeaves
    <2> SUFFICES ASSUME IInv, NEW u \in DOMAIN players, NEW c, c = players[u].head.to, told[c] = u
                 PROVE  \/ players[u].late
                        \/ \E k \in DOMAIN cs : cs[k].kind = "discon" /\ cs[k].uid = u /\ cs[k].head.to = c
        BY DEF GoneLeaves
    <2>1. players[u].late \/ Notice(c, u)
        BY DEF IInv, AllGone, GoneAt
    <2> QED BY <2>1 DEF Notice, Range
<1> QED BY <1>1, HallInvariant, PTL

\* When nothing is under way tcpsvr and the hall server agree on who is logged
\* in on which connection (IndexedHasPlayer).
THEOREM SidesAgree == Spec => []IndexedHasPlayer
<1>1. IInv => IndexedHasPlayer
    <2> SUFFICES ASSUME IInv, Quiet, ~trouble, NEW c \in Conn, cli[c].st = "open", Socket(c).index # None, ~HasTwin(c)
                 PROVE  Socket(c).index \in DOMAIN players /\ players[Socket(c).index].head.to = c
        BY DEF IndexedHasPlayer
    <2>1. AgreedAt(c) /\ LastIs(sc, c, named[c], Socket(c).index)
        BY DEF IInv, Agreed, AllLast, LastAt, Socket
    <2>2. ~Coming("bye", c) /\ ~Refusing(c)
        BY Empty DEF Quiet, Coming, Refusing
    <2>3. Socket(c).index = named[c]
        <3>1. DOMAIN sc = {}
            BY Empty DEF Quiet
        <3> QED BY <2>1, <3>1 DEF LastIs
    <2>4. HasPlayer(c)
        BY <2>1, <2>2, <2>3 DEF AgreedAt
    <2> QED BY <2>3, <2>4 DEF HasPlayer
<1> QED BY <1>1, HallInvariant, PTL
=============================================================================
