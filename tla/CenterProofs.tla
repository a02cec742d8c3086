---------------------------- MODULE CenterProofs ----------------------------
(***************************************************************************)
(* The center is safe for any number of servers, positions, connections,   *)
(* messages, restarts and faults, and for backlogs of any size: backlogs   *)
(* keep their bounds whatever happens, and until the proxy releases a      *)
(* socket that is in use, closes the descriptor of another one or serves   *)
(* an event of a released one, a message reaches only the server it names, *)
(* in order, and no position is lost.                                      *)
(***************************************************************************)
EXTENDS Center, BasicFacts, TLAPS

-----------------------------------------------------------------------------
(* The inductive invariant.  Its parts about sockets and connections are   *)
(* about a state of the proxy as SocketRelease and the others take it, so  *)
(* that they can be followed through a handler.                            *)

M == {m \in MsgT : Dest(m) \in Id}
SlotT == [fd : Conn \cup {0, Closed}, back : Seq(M)]
LinkT == [own : Id, srv : BOOLEAN, prx : {"closed", "queued", "open"}, pos : Nat,
          up : Seq(M), down : Seq(M), stray : BOOLEAN, rst : BOOLEAN]
LeftT == [msgs : Nat, exits : Int, rsts : Int, again : Int, late : Int, kills : Int]
St(P) == [slot : [P -> SlotT], free : Seq(P), zero : Conn \cup {Stdin, Closed},
          link : [Conn -> LinkT], again : Int]

\* A backlog fits, and a connection has one descriptor at most, which it keeps
\* as long as the proxy's end is open: so even when sockets are mixed up.
BacksFit(st) == \A p \in DOMAIN st.slot : Len(st.slot[p].back) <= BufCap
FdsOpen(st) ==
    /\ \A p \in DOMAIN st.slot : st.slot[p].fd \in Conn => st.link[st.slot[p].fd].prx = "open"
    /\ \A p, q \in DOMAIN st.slot : st.slot[p].fd \in Conn /\ st.slot[p].fd = st.slot[q].fd => p = q
    /\ st.zero \in Conn => st.link[st.zero].prx = "open" /\ \A p \in DOMAIN st.slot : st.slot[p].fd # st.zero

\* What has no reader is gone; an open end has a position.
LinkOk(l) ==
    /\ l.prx = "closed" => l.up = <<>>
    /\ ~l.srv \/ l.prx = "queued" => l.down = <<>>
    /\ l.prx = "open" => l.pos # 0
LinksOk(st) == \A c \in Conn : LinkOk(st.link[c])

Sockets(st) == BacksFit(st) /\ FdsOpen(st) /\ LinksOk(st)

Typed ==
    /\ \E n \in SlotNums : Pos = 1 .. n
    /\ PxState \in St(Pos)
    /\ svrs \in [Id -> Pos \cup {NULL}] /\ cur \in Pos \cup {NULL} /\ cnt \in Nat
    /\ acc \in Seq(Conn) /\ sfd \in [Id -> Conn \cup {Closed}]
    /\ sbuf \in [Id -> Seq(M)] /\ (\A i \in Id : Len(sbuf[i]) <= BufCap) /\ got \in [Id -> Seq(M)]
    /\ stale \in BOOLEAN /\ left \in LeftT /\ left.msgs <= Budget.msgs

\* The connections that wait for accept.
Waiting ==
    /\ \A k \in 1 .. Len(acc) : link[acc[k]].prx = "queued"
    /\ \A k, l \in 1 .. Len(acc) : acc[k] = acc[l] => k = l
    /\ \A c \in Conn : link[c].prx = "queued" => c \in Range(acc)
    /\ Listener \in batch => acc # <<>>

\* A server holds the one connection whose end at its side is open.
Held ==
    /\ \A i \in Id : sfd[i] # Closed => link[sfd[i]].srv /\ link[sfd[i]].own = i
    /\ \A c \in Conn : link[c].srv => sfd[link[c].own] = c

\* A broadcast that is under way is at the head of what is read.
Casting ==
    cnt > 0 => /\ cur # NULL /\ cnt < NumSvr
               /\ Reading \in Conn => HasInput /\ Cur.route = "broadcast" /\ cnt < Cardinality(Registered)

\* Until sockets are mixed up: positions, and whose they are.
FreeOnce(st) == \A k, l \in 1 .. Len(st.free) : st.free[k] = st.free[l] => k = l
Named(sv, p) == \E i \in Id : sv[i] = p
OneEach(sv) == \A i, j \in Id : sv[i] = sv[j] /\ sv[i] # NULL => i = j
FreeOrNamed(st, sv) ==
    \A p \in DOMAIN st.slot : /\ p \in Range(st.free) <=> ~Named(sv, p)
                              /\ p \in Range(st.free) => st.slot[p] = Empty
OwnSlot(st, i, p) ==
    /\ \/ st.slot[p].fd = Closed
       \/ Denotes(st, p) \in Conn /\ st.link[Denotes(st, p)].own = i
    /\ \A m \in Range(st.slot[p].back) : Dest(m) = i
OwnSlots(st, sv) == \A i \in Id : sv[i] # NULL => OwnSlot(st, i, sv[i])
OpenNamed(st, sv) ==
    \A c \in Conn : st.link[c].prx = "open" =>
        LET p == sv[st.link[c].own] IN p # NULL /\ Denotes(st, p) = c
OwnDown(st) == \A c \in Conn : \A m \in Range(st.link[c].down) : Dest(m) = st.link[c].own
Steady(st, sv) ==
    /\ FreeOnce(st) /\ OneEach(sv) /\ FreeOrNamed(st, sv)
    /\ OwnSlots(st, sv) /\ OpenNamed(st, sv) /\ OwnDown(st)

\* Until then, too: what has left the senders, in the order it goes on.
Below(S, T) == \A m \in S, x \in T : Follows(m, x)
Downstream(st, sv) ==
    /\ \A i \in Id : Ordered(got[i])
    /\ \A c \in Conn : Ordered(st.link[c].down) /\ Below(Range(got[st.link[c].own]), Range(st.link[c].down))
    /\ \A p \in DOMAIN st.slot : Ordered(st.slot[p].back)
    /\ \A i \in Id : sv[i] # NULL => Below(Range(got[i]), Range(st.slot[sv[i]].back))
    /\ \A c \in Conn : sv[st.link[c].own] # NULL =>
          Below(Range(st.link[c].down), Range(st.slot[sv[st.link[c].own]].back))

\* What the proxy has not read: over all of a server's connections, the older
\* ones of which the server has left, and in its backlog.
Earlier(d, c) ==
    /\ d # c /\ link[d].own = link[c].own /\ link[c].prx = "queued"
    /\ \/ link[d].prx = "open"
       \/ \E k, l \in 1 .. Len(acc) : k < l /\ acc[k] = d /\ acc[l] = c
Upstream ==
    /\ \A c \in Conn : /\ Ordered(link[c].up) /\ \A m \in Range(link[c].up) : m.src = link[c].own
                       /\ Below(Range(link[c].up), Range(sbuf[link[c].own]))
    /\ \A i \in Id : Ordered(sbuf[i]) /\ \A m \in Range(sbuf[i]) : m.src = i
    /\ \A c, d \in Conn : Earlier(d, c) => ~link[d].srv /\ Below(Range(link[d].up), Range(link[c].up))

\* The first is before the second, and a new message after both.
Passed(st) ==
    (UNION {Range(got[i]) : i \in Id}) \cup (UNION {Range(st.link[c].down) : c \in Conn})
        \cup (UNION {Range(st.slot[p].back) : p \in DOMAIN st.slot})
Pending == (UNION {Range(link[c].up) : c \in Conn}) \cup (UNION {Range(sbuf[i]) : i \in Id})
Between == Below(Passed(PxState), Pending)
Numbered == \A m \in Passed(PxState) \cup Pending : m.n < Budget.msgs - left.msgs

Placed == Steady(PxState, svrs) /\ RouteRight /\ (cur # NULL => Named(svrs, cur))
Flowing == Downstream(PxState, svrs) /\ Upstream /\ Between /\ Numbered
Orderly == ~stale => Placed /\ Flowing

IInv == Typed /\ Sockets(PxState) /\ Waiting /\ Held /\ Casting /\ Orderly
-----------------------------------------------------------------------------
(* Sequences of messages.                                                  *)

\* The sizes.
LEMMA CenterSizes ==
    /\ NumSvr \in Nat \ {0} /\ SlotNums \subseteq Nat /\ MaxConns \in Nat /\ BufCap \in Nat \ {0}
    /\ Budget.msgs \in Nat /\ Id \subseteq Nat /\ 0 \in Id
    /\ Conn \subseteq Nat /\ 0 \notin Conn /\ Closed \notin Conn /\ Stdin \notin Conn
    /\ Closed # Stdin /\ Closed # 0 /\ Stdin # 0 /\ NULL = 0
BY CenterAssumption DEF Id, Conn, Closed, Stdin, NULL

\* Nothing is in the empty sequence, and it is in order.
LEMMA NoMessages == Range(<<>>) = {} /\ Ordered(<<>>)
<1>1. <<>> \in Seq({}) /\ Len(<<>>) = 0
    OBVIOUS
<1>2. \A q \in Seq({}) : Range(q) \subseteq {}
    BY RangeOf
<1>3. Range(<<>>) = {}
    BY <1>1, <1>2
<1> QED BY <1>1, <1>3 DEF Ordered

\* One message is in order.
LEMMA OneMessage ==
    ASSUME NEW m \in M
    PROVE  <<m>> \in Seq(M) /\ Len(<<m>>) = 1 /\ Range(<<m>>) = {m} /\ Ordered(<<m>>)
<1>1. <<m>> \in Seq(M) /\ Len(<<m>>) = 1 /\ <<m>>[1] = m
    OBVIOUS
<1>2. Range(<<m>>) = {m}
    <2> DEFINE s == <<m>>
    <2>1. s \in Seq(M) /\ Len(s) = 1 /\ s[1] = m
        BY <1>1
    <2> HIDE DEF s
    <2>2. \A i \in 1 .. Len(s) : i = 1
        BY <2>1
    <2>3. 1 \in 1 .. Len(s)
        BY <2>1
    <2>4. Range(s) = {m}
        BY <2>1, <2>2, <2>3, RangeOf
    <2> QED BY <2>4 DEF s
<1>3. Ordered(<<m>>)
    <2> SUFFICES ASSUME NEW k \in 1 .. 1, NEW l \in 1 .. 1, k < l PROVE FALSE
        BY <1>1 DEF Ordered
    <2> QED OBVIOUS
<1> QED BY <1>1, <1>2, <1>3

\* What is in order is so with something later behind it.
LEMMA OrderedConcat ==
    ASSUME NEW s \in Seq(M), NEW t \in Seq(M), Ordered(s), Ordered(t), Below(Range(s), Range(t))
    PROVE  Ordered(s \o t)
<1> DEFINE w == s \o t
<1>1. /\ Len(w) = Len(s) + Len(t) /\ Len(s) \in Nat /\ Len(t) \in Nat
      /\ \A i \in 1 .. Len(w) : w[i] = IF i <= Len(s) THEN s[i] ELSE t[i - Len(s)]
    BY ConcatProperties
<1> HIDE DEF w
<1> SUFFICES ASSUME NEW k \in 1 .. Len(w), NEW l \in 1 .. Len(w), k < l PROVE Follows(w[k], w[l])
    BY DEF Ordered, w
<1>2. CASE l <= Len(s)
    <2>1. k \in 1 .. Len(s) /\ l \in 1 .. Len(s) /\ w[k] = s[k] /\ w[l] = s[l]
        BY <1>1, <1>2
    <2> QED BY <2>1 DEF Ordered
<1>3. CASE k <= Len(s) /\ ~(l <= Len(s))
    <2>1. k \in 1 .. Len(s) /\ l - Len(s) \in 1 .. Len(t) /\ w[k] = s[k] /\ w[l] = t[l - Len(s)]
        BY <1>1, <1>3
    <2>2. s[k] \in Range(s) /\ t[l - Len(s)] \in Range(t)
        BY <2>1, RangeOf
    <2> QED BY <2>1, <2>2 DEF Below
<1>4. CASE ~(k <= Len(s))
    <2>1. /\ k - Len(s) \in 1 .. Len(t) /\ l - Len(s) \in 1 .. Len(t) /\ k - Len(s) < l - Len(s)
          /\ w[k] = t[k - Len(s)] /\ w[l] = t[l - Len(s)]
        BY <1>1, <1>4
    <2> QED BY <2>1 DEF Ordered
<1> QED BY <1>2, <1>3, <1>4

\* So it is with one message behind it.
LEMMA OrderedAppend ==
    ASSUME NEW s \in Seq(M), NEW m \in M, Ordered(s), Below(Range(s), {m})
    PROVE  Ordered(Append(s, m))
<1>1. <<m>> \in Seq(M) /\ Ordered(<<m>>) /\ Range(<<m>>) = {m}
    BY OneMessage
<1>2. Append(s, m) = s \o <<m>>
    OBVIOUS
<1> QED BY <1>1, <1>2, OrderedConcat

\* And without its head, which comes before the rest.
LEMMA OrderedTail ==
    ASSUME NEW s \in Seq(M), s # <<>>, Ordered(s)
    PROVE  Ordered(Tail(s)) /\ Below({Head(s)}, Range(Tail(s)))
<1> DEFINE t == Tail(s)
<1>1. /\ Len(s) \in Nat \ {0} /\ Head(s) = s[1] /\ t \in Seq(M)
      /\ Len(t) = Len(s) - 1 /\ \A i \in 1 .. Len(t) : t[i] = s[i + 1]
    BY HeadTailProperties, EmptySeq
<1> HIDE DEF t
<1>2. \A i \in 1 .. Len(t) : i + 1 \in 1 .. Len(s) /\ 1 < i + 1 /\ 1 \in 1 .. Len(s)
    BY <1>1
<1>3. Ordered(t)
    <2> SUFFICES ASSUME NEW k \in 1 .. Len(t), NEW l \in 1 .. Len(t), k < l PROVE Follows(t[k], t[l])
        BY DEF Ordered
    <2>1. k + 1 < l + 1 /\ k + 1 \in 1 .. Len(s) /\ l + 1 \in 1 .. Len(s)
        BY <1>1, <1>2
    <2>2. t[k] = s[k + 1] /\ t[l] = s[l + 1]
        BY <1>1
    <2> QED BY <2>1, <2>2 DEF Ordered
<1>4. ASSUME NEW x \in Range(t) PROVE Follows(Head(s), x)
    <2>1. PICK i \in 1 .. Len(t) : t[i] = x
        BY <1>1, RangeOf
    <2>2. x = s[i + 1] /\ Head(s) = s[1]
        BY <1>1, <2>1
    <2> QED BY <1>2, <2>1, <2>2 DEF Ordered
<1> QED BY <1>3, <1>4 DEF Below, t

-----------------------------------------------------------------------------
(* The backlog.                                                            *)

ResultT == [out : Seq(M), back : Seq(M), how : {"sent", "again", "error"}]

\* A send takes messages of S only, and leaves none that should have gone first.
Parts(r, S) ==
    /\ Len(r.back) <= BufCap /\ Range(r.out) \subseteq S /\ Range(r.back) \subseteq S
InParts(r) == Ordered(r.out) /\ Ordered(r.back) /\ Below(Range(r.out), Range(r.back))

\* Keeping a message never outgrows the buffer, and keeps the order.
LEMMA ReserveFacts ==
    ASSUME NEW back \in Seq(M), NEW m \in M, Len(back) <= BufCap
    PROVE  /\ ReserveData(back, m) \in Seq(M) /\ Len(ReserveData(back, m)) <= BufCap
           /\ Range(ReserveData(back, m)) \subseteq Range(back) \cup {m}
           /\ Ordered(back) /\ Below(Range(back), {m}) => Ordered(ReserveData(back, m))
<1>1. Len(back) \in Nat /\ BufCap \in Nat \ {0}
    BY CenterSizes
<1>2. CASE Len(back) >= BufCap
    <2>1. ReserveData(back, m) = <<m>>
        BY <1>2 DEF ReserveData
    <2>2. <<m>> \in Seq(M) /\ Len(<<m>>) = 1 /\ Range(<<m>>) = {m} /\ Ordered(<<m>>)
        BY OneMessage
    <2>3. 1 <= BufCap
        BY <1>1
    <2> QED BY <2>1, <2>2, <2>3
<1>3. CASE ~(Len(back) >= BufCap)
    <2>1. ReserveData(back, m) = Append(back, m)
        BY <1>3 DEF ReserveData
    <2>2. Append(back, m) \in Seq(M) /\ Range(Append(back, m)) = Range(back) \cup {m}
        BY RangeAppend
    <2>3. Len(Append(back, m)) = Len(back) + 1
        OBVIOUS
    <2>4. Len(Append(back, m)) <= BufCap
        BY <1>1, <1>3, <2>3
    <2>5. Ordered(back) /\ Below(Range(back), {m}) => Ordered(Append(back, m))
        BY OrderedAppend
    <2> QED BY <2>1, <2>2, <2>4, <2>5
<1> QED BY <1>2, <1>3

\* Sending the backlog alone.
LEMMA SendBufFacts ==
    ASSUME NEW back \in Seq(M), Len(back) <= BufCap, NEW hows \in SUBSET {"sent", "again", "error"},
           NEW r \in SendBufData(back, hows)
    PROVE  /\ r \in ResultT /\ r.how \in hows /\ Parts(r, Range(back))
           /\ Ordered(back) => InParts(r)
<1>1. PICK none : none = <<>>
    OBVIOUS
<1>2. none \in Seq(M) /\ Len(none) = 0 /\ Range(none) = {} /\ Ordered(none) /\ 0 <= BufCap
    BY <1>1, NoMessages, CenterSizes
<1>3. PICK how \in hows :
        r = Result(IF how = "sent" THEN back ELSE none, IF how = "sent" THEN none ELSE back, how)
    BY <1>1 DEF SendBufData
<1>4. how \in {"sent", "again", "error"}
    OBVIOUS
<1>5. CASE how = "sent"
    <2>1. r = Result(back, none, how)
        BY <1>3, <1>5
    <2>2. r \in ResultT /\ r.out = back /\ r.back = none /\ r.how = how
        BY <1>2, <1>4, <2>1 DEF Result, ResultT
    <2> QED BY <1>2, <2>2 DEF Parts, InParts, Below
<1>6. CASE how # "sent"
    <2>1. r = Result(none, back, how)
        BY <1>3, <1>6
    <2>2. r \in ResultT /\ r.out = none /\ r.back = back /\ r.how = how
        BY <1>2, <1>4, <2>1 DEF Result, ResultT
    <2> QED BY <1>2, <2>2 DEF Parts, InParts, Below
<1> QED BY <1>5, <1>6

\* Sending the backlog and a message after it.
LEMMA SendsFacts ==
    ASSUME NEW back \in Seq(M), Len(back) <= BufCap, NEW m \in M, NEW hows \in SUBSET {"sent", "again", "error"},
           NEW r \in Sends(back, m, hows)
    PROVE  /\ r \in ResultT /\ r.how \in hows /\ Parts(r, Range(back) \cup {m})
           /\ Ordered(back) /\ Below(Range(back), {m}) => InParts(r)
<1>1. PICK none, one : none = <<>> /\ one = <<m>>
    OBVIOUS
<1>2. none \in Seq(M) /\ Len(none) = 0 /\ Range(none) = {} /\ Ordered(none) /\ 0 <= BufCap /\ 1 <= BufCap
    BY <1>1, NoMessages, CenterSizes
<1>3. one \in Seq(M) /\ Len(one) = 1 /\ Range(one) = {m} /\ Ordered(one)
    BY <1>1, OneMessage
<1> DEFINE first == IF back = none THEN {Result(none, none, "sent")} ELSE SendBufData(back, hows)
<1>4. PICK b \in first :
        r \in IF b.how # "sent" THEN {Result(none, ReserveData(back, m), b.how)}
              ELSE {IF how = "sent" THEN Result(b.out \o one, none, how)
                                    ELSE Result(b.out, one, how) : how \in hows}
    BY <1>1 DEF Sends
<1>5. b \in ResultT /\ (b.how # "sent" => b.how \in hows) /\ (b.how = "sent" => b.out = back)
    <2>1. CASE back = none
        <3>1. b = Result(none, none, "sent") /\ "sent" \in {"sent", "again", "error"}
            BY <2>1
        <3> QED BY <1>2, <2>1, <3>1 DEF Result, ResultT
    <2>2. CASE back # none
        <3>1. b \in SendBufData(back, hows)
            BY <2>2
        <3>2. PICK how \in hows :
                b = Result(IF how = "sent" THEN back ELSE none, IF how = "sent" THEN none ELSE back, how)
            BY <1>1, <3>1 DEF SendBufData
        <3>3. b.how = how /\ b.out = IF how = "sent" THEN back ELSE none
            BY <3>2 DEF Result
        <3>4. b \in ResultT /\ b.how \in hows
            BY <3>1, SendBufFacts
        <3> QED BY <3>3, <3>4
    <2> QED BY <2>1, <2>2
<1> HIDE DEF first
<1>6. CASE b.how # "sent"
    <2>1. PICK kept : kept = ReserveData(back, m)
        OBVIOUS
    <2>2. r = Result(none, kept, b.how)
        BY <1>4, <1>6, <2>1
    <2>3. /\ kept \in Seq(M) /\ Len(kept) <= BufCap /\ Range(kept) \subseteq Range(back) \cup {m}
          /\ Ordered(back) /\ Below(Range(back), {m}) => Ordered(kept)
        BY <2>1, ReserveFacts
    <2>4. b.how \in hows /\ b.how \in {"sent", "again", "error"}
        BY <1>5, <1>6
    <2>5. r \in ResultT /\ r.out = none /\ r.back = kept /\ r.how = b.how
        BY <1>2, <2>2, <2>3, <2>4 DEF Result, ResultT
    <2> QED BY <1>2, <2>3, <2>4, <2>5 DEF Parts, InParts, Below
<1>7. CASE b.how = "sent"
    <2>1. PICK how \in hows :
            r = IF how = "sent" THEN Result(back \o one, none, how) ELSE Result(back, one, how)
        BY <1>4, <1>5, <1>7
    <2>2. how \in {"sent", "again", "error"}
        OBVIOUS
    <2>3. CASE how = "sent"
        <3>1. PICK all : all = back \o one
            OBVIOUS
        <3>2. all \in Seq(M) /\ Range(all) = Range(back) \cup {m}
            BY <1>3, <3>1, RangeConcat
        <3>3. Ordered(back) /\ Below(Range(back), {m}) => Ordered(all)
            BY <1>3, <3>1, OrderedConcat
        <3>4. r = Result(all, none, how)
            BY <2>1, <2>3, <3>1
        <3>5. r \in ResultT /\ r.out = all /\ r.back = none /\ r.how = how
            BY <1>2, <2>2, <3>2, <3>4 DEF Result, ResultT
        <3> QED BY <1>2, <3>2, <3>3, <3>5 DEF Parts, InParts, Below
    <2>4. CASE how # "sent"
        <3>1. r = Result(back, one, how)
            BY <2>1, <2>4
        <3>2. r \in ResultT /\ r.out = back /\ r.back = one /\ r.how = how
            BY <1>3, <2>2, <3>1 DEF Result, ResultT
        <3> QED BY <1>2, <1>3, <3>2 DEF Parts, InParts
    <2> QED BY <2>3, <2>4
<1> QED BY <1>6, <1>7

-----------------------------------------------------------------------------
(* A connection's end at the proxy.                                        *)

\* What the proxy does to a connection that it has accepted.
Did(l, k) ==
    /\ k.srv = l.srv /\ (l.srv \/ k.prx # "closed" => k.own = l.own)
    /\ \/ k.prx = l.prx /\ k.up = l.up
       \/ l.prx = "open" /\ k.prx = "closed" /\ k.up = <<>>

\* Two such steps make one.
LEMMA DidTwice ==
    ASSUME NEW l, NEW k, NEW j, Did(l, k), Did(k, j) PROVE Did(l, j)
BY DEF Did

LEMMA NoLinkFields ==
    /\ NoLink \in LinkT /\ LinkOk(NoLink) /\ NoLink.own = 0 /\ NoLink.srv = FALSE /\ NoLink.prx = "closed"
    /\ NoLink.up = <<>> /\ NoLink.down = <<>> /\ NoLink.stray = FALSE /\ NoLink.rst = FALSE
<1>1. 0 \in Id /\ 0 \in Nat /\ <<>> \in Seq(M)
    BY CenterSizes
<1> QED BY <1>1 DEF NoLink, LinkT, LinkOk

\* Closing it.
LEMMA ProxyEndFields ==
    ASSUME NEW l \in LinkT, LinkOk(l)
    PROVE  /\ ProxyEndClosed(l) \in LinkT /\ LinkOk(ProxyEndClosed(l)) /\ ProxyEndClosed(l).prx = "closed"
           /\ ProxyEndClosed(l).up = <<>> /\ ProxyEndClosed(l).down = l.down
           /\ ProxyEndClosed(l).srv = l.srv /\ (l.srv => ProxyEndClosed(l).own = l.own)
           /\ l.prx = "open" => Did(l, ProxyEndClosed(l))
<1>1. CASE l.srv
    <2>1. PICK none : none = <<>>
        OBVIOUS
    <2>2. none \in Seq(M)
        BY <2>1
    <2>3. PICK k : k = [l EXCEPT !.prx = "closed", !.up = none, !.pos = 0]
        OBVIOUS
    <2>4. ProxyEndClosed(l) = k
        BY <1>1, <2>1, <2>3 DEF ProxyEndClosed
    <2>5. k \in LinkT /\ k.prx = "closed" /\ k.up = none /\ k.down = l.down /\ k.srv = l.srv /\ k.own = l.own
        BY <2>2, <2>3 DEF LinkT
    <2>6. LinkOk(k)
        BY <1>1, <2>1, <2>5 DEF LinkOk
    <2>7. l.prx = "open" => Did(l, k)
        BY <2>1, <2>5 DEF Did
    <2> QED BY <2>1, <2>4, <2>5, <2>6, <2>7
<1>2. CASE ~l.srv
    <2>1. ProxyEndClosed(l) = NoLink /\ l.down = <<>> /\ l.srv = FALSE
        BY <1>2 DEF ProxyEndClosed, LinkOk, LinkT
    <2>2. l.prx = "open" => Did(l, NoLink)
        BY <1>2, <2>1, NoLinkFields DEF Did
    <2> QED BY <1>2, <2>1, <2>2, NoLinkFields
<1> QED BY <1>1, <1>2

\* Sending over it.
LEMMA DownwardsFields ==
    ASSUME NEW l \in LinkT, LinkOk(l), l.prx = "open", NEW ms \in Seq(M)
    PROVE  /\ Downwards(l, ms) \in LinkT /\ LinkOk(Downwards(l, ms)) /\ Did(l, Downwards(l, ms))
           /\ Downwards(l, ms).prx = "open" /\ Downwards(l, ms).own = l.own
           /\ Downwards(l, ms).down = IF l.srv THEN l.down \o ms ELSE l.down
<1>1. l.down \o ms \in Seq(M)
    BY RangeConcat DEF LinkT
<1>2. CASE l.srv
    <2>1. PICK k : k = [l EXCEPT !.down = l.down \o ms]
        OBVIOUS
    <2>2. Downwards(l, ms) = k
        BY <1>2, <2>1 DEF Downwards
    <2>3. /\ k \in LinkT /\ k.prx = l.prx /\ k.up = l.up /\ k.down = l.down \o ms /\ k.srv = l.srv
          /\ k.own = l.own /\ k.pos = l.pos
        BY <1>1, <2>1 DEF LinkT
    <2>4. LinkOk(k)
        BY <1>2, <2>3 DEF LinkOk
    <2>5. Did(l, k)
        BY <2>3 DEF Did
    <2> QED BY <1>2, <2>2, <2>3, <2>4, <2>5
<1>3. CASE ~l.srv
    <2>1. PICK k : k = [l EXCEPT !.stray = l.stray \/ ms # <<>>]
        OBVIOUS
    <2>2. Downwards(l, ms) = k
        BY <1>3, <2>1 DEF Downwards
    <2>3. /\ k \in LinkT /\ k.prx = l.prx /\ k.up = l.up /\ k.down = l.down /\ k.srv = l.srv
          /\ k.own = l.own /\ k.pos = l.pos
        BY <2>1 DEF LinkT
    <2>4. LinkOk(k)
        BY <1>3, <2>3 DEF LinkOk
    <2>5. Did(l, k)
        BY <2>3 DEF Did
    <2> QED BY <1>3, <2>2, <2>3, <2>4, <2>5
<1> QED BY <1>2, <1>3

-----------------------------------------------------------------------------
(* The proxy's sockets.                                                    *)

\* What a descriptor stands for.
LEMMA DenotesType ==
    ASSUME NEW P, NEW st \in St(P), NEW p \in P
    PROVE  /\ Denotes(st, p) \in Conn \cup {Stdin, Closed} /\ st.slot[p] \in SlotT
           /\ Denotes(st, p) = IF st.slot[p].fd = 0 THEN st.zero ELSE st.slot[p].fd
<1>1. st.slot[p] \in SlotT /\ st.zero \in Conn \cup {Stdin, Closed}
    BY DEF St
<1> QED BY <1>1 DEF Denotes, SlotT

LEMMA CloseFdFields ==
    ASSUME NEW P, NEW st \in St(P), NEW p \in P, NEW d, d = Denotes(st, p), LinksOk(st)
    PROVE  /\ CloseFd(st, p).slot = st.slot /\ CloseFd(st, p).free = st.free /\ CloseFd(st, p).again = st.again
           /\ CloseFd(st, p).zero = IF st.slot[p].fd = 0 THEN Closed ELSE st.zero
           /\ CloseFd(st, p).link \in [Conn -> LinkT] /\ CloseFd(st, p) \in St(P)
           /\ \A c \in Conn : CloseFd(st, p).link[c] = IF c = d THEN ProxyEndClosed(st.link[c]) ELSE st.link[c]
<1>1. /\ st.slot \in [P -> SlotT] /\ st.free \in Seq(P) /\ st.link \in [Conn -> LinkT]
      /\ st.zero \in Conn \cup {Stdin, Closed} /\ st.again \in Int
    BY DEF St
<1>2. \A c \in Conn : ProxyEndClosed(st.link[c]) \in LinkT
    BY <1>1, ProxyEndFields DEF LinksOk
<1>3. PICK z : z = IF st.slot[p].fd = 0 THEN Closed ELSE st.zero
    OBVIOUS
<1>4. PICK k : k = IF d \in Conn THEN [st.link EXCEPT ![d] = ProxyEndClosed(st.link[d])] ELSE st.link
    OBVIOUS
<1>5. k \in [Conn -> LinkT] /\ \A c \in Conn : k[c] = IF c = d THEN ProxyEndClosed(st.link[c]) ELSE st.link[c]
    BY <1>1, <1>2, <1>4
<1>6. z \in Conn \cup {Stdin, Closed}
    BY <1>1, <1>3
<1>7. CloseFd(st, p) = [st EXCEPT !.zero = z, !.link = k]
    BY <1>3, <1>4 DEF CloseFd
<1>8. PICK s : s = [st EXCEPT !.zero = z, !.link = k]
    OBVIOUS
<1>9. s.slot = st.slot /\ s.free = st.free /\ s.again = st.again /\ s.zero = z /\ s.link = k
    BY <1>8 DEF St
<1>10. s \in St(P)
    BY <1>1, <1>5, <1>6, <1>8 DEF St
<1> QED BY <1>3, <1>5, <1>7, <1>8, <1>9, <1>10

\* Releasing a socket, and giving up its descriptor only.
LEMMA ReleaseFields ==
    ASSUME NEW P, NEW st \in St(P), NEW p \in P, LinksOk(st)
    PROVE  /\ SocketRelease(st, p) \in St(P)
           /\ SocketRelease(st, p).slot[p] = Empty
           /\ \A q \in P : q # p => SocketRelease(st, p).slot[q] = st.slot[q]
           /\ SocketRelease(st, p).free = Append(st.free, p) /\ SocketRelease(st, p).again = st.again
           /\ SocketRelease(st, p).zero = CloseFd(st, p).zero /\ SocketRelease(st, p).link = CloseFd(st, p).link
<1>1. PICK t : t = CloseFd(st, p)
    OBVIOUS
<1>2. t \in St(P) /\ t.slot = st.slot /\ t.free = st.free /\ t.again = st.again
    BY <1>1, CloseFdFields
<1>3. PICK none : none = <<>>
    OBVIOUS
<1>4. Empty = [fd |-> 0, back |-> none] /\ none \in Seq(M)
    BY <1>3 DEF Empty
<1>5. Empty \in SlotT
    BY <1>4 DEF SlotT
<1>6. t.slot \in [P -> SlotT] /\ t.free \in Seq(P) /\ t.link \in [Conn -> LinkT]
      /\ t.zero \in Conn \cup {Stdin, Closed} /\ t.again \in Int
    BY <1>2 DEF St
<1>7. PICK f : f = Append(t.free, p)
    OBVIOUS
<1>8. f \in Seq(P)
    BY <1>6, <1>7
<1>9. PICK s : s = [t EXCEPT !.slot = [t.slot EXCEPT ![p] = Empty], !.free = f]
    OBVIOUS
<1>10. SocketRelease(st, p) = s
    BY <1>1, <1>7, <1>9 DEF SocketRelease
<1>11. /\ s.slot = [t.slot EXCEPT ![p] = Empty] /\ s.slot[p] = Empty /\ \A q \in P : q # p => s.slot[q] = t.slot[q]
       /\ s.free = f /\ s.again = t.again /\ s.zero = t.zero /\ s.link = t.link
    BY <1>2, <1>6, <1>9 DEF St
<1>12. s \in St(P)
    BY <1>2, <1>5, <1>6, <1>8, <1>9 DEF St
<1> QED BY <1>1, <1>2, <1>7, <1>10, <1>11, <1>12

LEMMA DisconnFields ==
    ASSUME NEW P, NEW st \in St(P), NEW p \in P, LinksOk(st)
    PROVE  /\ SocketDisconn(st, p) \in St(P)
           /\ SocketDisconn(st, p).slot[p].fd = Closed /\ SocketDisconn(st, p).slot[p].back = st.slot[p].back
           /\ \A q \in P : q # p => SocketDisconn(st, p).slot[q] = st.slot[q]
           /\ SocketDisconn(st, p).free = st.free /\ SocketDisconn(st, p).again = st.again
           /\ SocketDisconn(st, p).zero = CloseFd(st, p).zero /\ SocketDisconn(st, p).link = CloseFd(st, p).link
<1>1. PICK t : t = CloseFd(st, p)
    OBVIOUS
<1>2. t \in St(P) /\ t.slot = st.slot /\ t.free = st.free /\ t.again = st.again
    BY <1>1, CloseFdFields
<1>3. t.slot \in [P -> SlotT] /\ t.free \in Seq(P) /\ t.link \in [Conn -> LinkT]
      /\ t.zero \in Conn \cup {Stdin, Closed} /\ t.again \in Int
    BY <1>2 DEF St
<1>4. PICK u : u = [t.slot EXCEPT ![p].fd = Closed]
    OBVIOUS
<1>5. u \in [P -> SlotT] /\ u[p].fd = Closed /\ u[p].back = t.slot[p].back /\ \A q \in P : q # p => u[q] = t.slot[q]
    BY <1>3, <1>4 DEF SlotT
<1>6. PICK s : s = [t EXCEPT !.slot = u]
    OBVIOUS
<1>7. SocketDisconn(st, p) = s
    BY <1>1, <1>4, <1>6 DEF SocketDisconn
<1>8. s.slot = u /\ s.free = t.free /\ s.again = t.again /\ s.zero = t.zero /\ s.link = t.link
    BY <1>2, <1>6 DEF St
<1>9. s \in St(P)
    BY <1>2, <1>3, <1>5, <1>6 DEF St
<1> QED BY <1>1, <1>2, <1>5, <1>7, <1>8, <1>9

\* Either way the sockets stay in order: whoever else has a descriptor keeps it.
Shut(P, st, p, s) ==
    /\ s \in St(P) /\ s.slot[p].fd \in {0, Closed} /\ Len(s.slot[p].back) <= BufCap
    /\ \A q \in P : q # p => s.slot[q] = st.slot[q]
    /\ s.zero = CloseFd(st, p).zero /\ s.link = CloseFd(st, p).link
AllDid(st, s) == \A c \in Conn : Did(st.link[c], s.link[c])

LEMMA ShutKeeps ==
    ASSUME NEW P, NEW st \in St(P), NEW p \in P, Sockets(st), NEW s, Shut(P, st, p, s)
    PROVE  Sockets(s) /\ AllDid(st, s)
<1> USE DEF Shut
<1>1. PICK d : d = Denotes(st, p)
    OBVIOUS
<1>2. /\ DOMAIN st.slot = P /\ DOMAIN s.slot = P /\ st.link \in [Conn -> LinkT] /\ s.link \in [Conn -> LinkT]
      /\ \A q \in P : st.slot[q] \in SlotT
    BY DEF St
<1>3. /\ s.zero = IF st.slot[p].fd = 0 THEN Closed ELSE st.zero
      /\ \A c \in Conn : s.link[c] = IF c = d THEN ProxyEndClosed(st.link[c]) ELSE st.link[c]
    BY <1>1, CloseFdFields DEF Sockets
<1>4. d = IF st.slot[p].fd = 0 THEN st.zero ELSE st.slot[p].fd
    BY <1>1, DenotesType
<1>5. d \in Conn => st.link[d].prx = "open"
    BY <1>2, <1>4 DEF Sockets, FdsOpen
<1>6. /\ \A q \in P : st.slot[q].fd \in Conn => st.link[st.slot[q].fd].prx = "open"
      /\ \A q, r \in P : st.slot[q].fd \in Conn /\ st.slot[q].fd = st.slot[r].fd => q = r
      /\ st.zero \in Conn => st.link[st.zero].prx = "open" /\ \A q \in P : st.slot[q].fd # st.zero
    BY <1>2 DEF Sockets, FdsOpen
<1>7. 0 \notin Conn /\ Closed \notin Conn
    BY CenterSizes
<1>8. BacksFit(s)
    BY <1>2 DEF Sockets, BacksFit
<1>9. \A q \in P : s.slot[q].fd \in Conn => q # p /\ s.slot[q].fd = st.slot[q].fd /\ s.slot[q].fd # d
    BY <1>4, <1>6, <1>7
<1>10. s.zero \in Conn => s.zero = st.zero /\ s.zero # d
    BY <1>2, <1>3, <1>4, <1>6, <1>7
<1>11. FdsOpen(s)
    <2>1. \A q \in P : s.slot[q].fd \in Conn => s.link[s.slot[q].fd].prx = "open"
        BY <1>3, <1>6, <1>9
    <2>2. \A q, r \in P : s.slot[q].fd \in Conn /\ s.slot[q].fd = s.slot[r].fd => q = r
        BY <1>6, <1>9
    <2>3. s.zero \in Conn => s.link[s.zero].prx = "open" /\ \A q \in P : s.slot[q].fd # s.zero
        BY <1>3, <1>6, <1>9, <1>10
    <2> QED BY <1>2, <2>1, <2>2, <2>3 DEF FdsOpen
<1>12. ASSUME NEW c \in Conn PROVE LinkOk(s.link[c]) /\ Did(st.link[c], s.link[c])
    <2>1. st.link[c] \in LinkT /\ LinkOk(st.link[c])
        BY <1>2 DEF Sockets, LinksOk
    <2>2. CASE c = d
        BY <1>3, <1>5, <2>1, <2>2, ProxyEndFields
    <2>3. CASE c # d
        BY <1>3, <2>1, <2>3 DEF Did
    <2> QED BY <2>2, <2>3
<1> QED BY <1>8, <1>11, <1>12 DEF Sockets, LinksOk, AllDid

LEMMA ReleaseKeeps ==
    ASSUME NEW P, NEW st \in St(P), NEW p \in P, Sockets(st)
    PROVE  Sockets(SocketRelease(st, p)) /\ AllDid(st, SocketRelease(st, p))
<1>1. PICK s : s = SocketRelease(st, p)
    OBVIOUS
<1>2. s \in St(P) /\ s.zero = CloseFd(st, p).zero /\ s.link = CloseFd(st, p).link
    BY <1>1, ReleaseFields DEF Sockets
<1>4. s.slot[p] = Empty /\ \A q \in P : q # p => s.slot[q] = st.slot[q]
    BY <1>1, ReleaseFields DEF Sockets
<1>5. Empty.fd = 0 /\ Len(Empty.back) = 0 /\ 0 <= BufCap
    BY CenterSizes DEF Empty
<1>6. s.slot[p].fd \in {0, Closed} /\ Len(s.slot[p].back) <= BufCap
    BY <1>4, <1>5
<1>7. Shut(P, st, p, s)
    BY <1>2, <1>4, <1>6 DEF Shut
<1> QED BY <1>1, <1>7, ShutKeeps

LEMMA DisconnKeeps ==
    ASSUME NEW P, NEW st \in St(P), NEW p \in P, Sockets(st)
    PROVE  /\ Sockets(SocketDisconn(st, p)) /\ AllDid(st, SocketDisconn(st, p))
           /\ SocketDisconn(st, p).slot[p].fd = Closed /\ SocketDisconn(st, p).slot[p].back = st.slot[p].back
           /\ \A q \in P : q # p => SocketDisconn(st, p).slot[q] = st.slot[q]
           /\ \A q \in P : Denotes(SocketDisconn(st, p), q) \in {Closed, Denotes(st, q)}
<1>1. PICK s : s = SocketDisconn(st, p)
    OBVIOUS
<1>2. s \in St(P) /\ s.zero = CloseFd(st, p).zero /\ s.link = CloseFd(st, p).link
    BY <1>1, DisconnFields DEF Sockets
<1>3. st.slot \in [P -> SlotT] /\ DOMAIN st.slot = P
    BY DEF St
<1>4. s.slot[p].fd = Closed /\ s.slot[p].back = st.slot[p].back /\ \A q \in P : q # p => s.slot[q] = st.slot[q]
    BY <1>1, DisconnFields DEF Sockets
<1>5. Len(s.slot[p].back) <= BufCap
    BY <1>3, <1>4 DEF Sockets, BacksFit
<1>6. s.slot[p].fd \in {0, Closed}
    BY <1>4
<1>7. Sockets(s) /\ AllDid(st, s)
    <2>1. Shut(P, st, p, s)
        BY <1>2, <1>4, <1>5, <1>6 DEF Shut
    <2> QED BY <2>1, ShutKeeps
<1>8. s.zero = IF st.slot[p].fd = 0 THEN Closed ELSE st.zero
    BY <1>2, CloseFdFields DEF Sockets
<1>9. ASSUME NEW q \in P PROVE Denotes(s, q) \in {Closed, Denotes(st, q)}
    <2>1. CASE q = p
        BY <1>4, <2>1, CenterSizes DEF Denotes
    <2>2. CASE q # p
        BY <1>4, <1>8, <2>2 DEF Denotes
    <2> QED BY <2>1, <2>2
<1> QED BY <1>1, <1>4, <1>7, <1>9

\* Another backlog at a position, and messages sent over it.
Backed(st, p, b) == [st EXCEPT !.slot[p].back = b]
Put(st, p, r) ==
    [st EXCEPT !.slot[p].back = r.back,
               !.link = IF Denotes(st, p) \in Conn
                        THEN [st.link EXCEPT ![Denotes(st, p)] = Downwards(@, r.out)] ELSE @,
               !.again = IF r.how = "again" THEN @ - 1 ELSE @]

\* What stays as it is when messages are sent from position p.
SentFrom(P, st, p, s, b) ==
    /\ s \in St(P) /\ s.free = st.free /\ s.slot[p].back = b /\ \A q \in P : q # p => s.slot[q] = st.slot[q]
    /\ \A q \in P : Denotes(s, q) \in {Closed, Denotes(st, q)}

LEMMA BackedKeeps ==
    ASSUME NEW P, NEW st \in St(P), NEW p \in P, Sockets(st), NEW b \in Seq(M), Len(b) <= BufCap
    PROVE  /\ SentFrom(P, st, p, Backed(st, p, b), b) /\ Sockets(Backed(st, p, b)) /\ AllDid(st, Backed(st, p, b))
           /\ Backed(st, p, b).slot[p].fd = st.slot[p].fd /\ Backed(st, p, b).zero = st.zero
           /\ Backed(st, p, b).link = st.link /\ Backed(st, p, b).again = st.again
<1>1. PICK u : u = [st.slot EXCEPT ![p].back = b]
    OBVIOUS
<1>2. /\ st.slot \in [P -> SlotT] /\ DOMAIN st.slot = P
      /\ u \in [P -> SlotT] /\ u[p].back = b /\ u[p].fd = st.slot[p].fd /\ \A q \in P : q # p => u[q] = st.slot[q]
    BY <1>1 DEF St, SlotT
<1>3. PICK s : s = [st EXCEPT !.slot = u]
    OBVIOUS
<1>4. Backed(st, p, b) = s
    BY <1>1, <1>3 DEF Backed
<1>5. s.slot = u /\ s.free = st.free /\ s.again = st.again /\ s.zero = st.zero /\ s.link = st.link
    BY <1>3 DEF St
<1>6. s \in St(P)
    BY <1>2, <1>3 DEF St
<1>7. \A q \in P : s.slot[q].fd = st.slot[q].fd
    BY <1>2, <1>5
<1>8. \A q \in P : Denotes(s, q) = Denotes(st, q)
    BY <1>5, <1>7 DEF Denotes
<1>9. DOMAIN s.slot = P
    BY <1>2, <1>5
<1>10. BacksFit(s)
    BY <1>2, <1>5, <1>9 DEF Sockets, BacksFit
<1>11. FdsOpen(s)
    BY <1>2, <1>5, <1>7, <1>9 DEF Sockets, FdsOpen
<1>12. LinksOk(s) /\ AllDid(st, s)
    BY <1>5 DEF Sockets, LinksOk, AllDid, Did
<1>13. SentFrom(P, st, p, s, b)
    BY <1>2, <1>5, <1>6, <1>8 DEF SentFrom
<1> QED BY <1>4, <1>5, <1>7, <1>10, <1>11, <1>12, <1>13 DEF Sockets

LEMMA PutKeeps ==
    ASSUME NEW P, NEW st \in St(P), NEW p \in P, Sockets(st), NEW r \in ResultT, Len(r.back) <= BufCap
    PROVE  /\ SentFrom(P, st, p, Put(st, p, r), r.back) /\ Sockets(Put(st, p, r)) /\ AllDid(st, Put(st, p, r))
           /\ Put(st, p, r).zero = st.zero /\ Put(st, p, r).slot[p].fd = st.slot[p].fd
           /\ \A c \in Conn :
                Put(st, p, r).link[c] = IF c = Denotes(st, p) THEN Downwards(st.link[c], r.out) ELSE st.link[c]
<1>1. PICK d, b, t : d = Denotes(st, p) /\ b = r.back /\ t = Backed(st, p, b)
    OBVIOUS
<1>2. r.back \in Seq(M) /\ r.out \in Seq(M) /\ b \in Seq(M) /\ Len(b) <= BufCap
    BY <1>1 DEF ResultT
<1>3. /\ SentFrom(P, st, p, t, r.back) /\ Sockets(t) /\ t.zero = st.zero /\ t.link = st.link /\ t.again = st.again
      /\ t.slot[p].fd = st.slot[p].fd
    BY <1>1, <1>2, BackedKeeps
<1>4. PICK k : k = IF d \in Conn THEN [st.link EXCEPT ![d] = Downwards(st.link[d], r.out)] ELSE st.link
    OBVIOUS
<1>5. PICK a : a = IF r.how = "again" THEN st.again - 1 ELSE st.again
    OBVIOUS
<1>6. a \in Int /\ st.link \in [Conn -> LinkT] /\ t \in St(P) /\ DOMAIN st.slot = P
    BY <1>3, <1>5 DEF St, SentFrom
<1>7. \A c \in Conn : st.link[c] \in LinkT /\ LinkOk(st.link[c])
    BY <1>6 DEF Sockets, LinksOk
<1>8. d \in Conn => st.link[d].prx = "open"
    BY <1>1, <1>6, DenotesType DEF Sockets, FdsOpen
<1>9. d \in Conn => /\ Downwards(st.link[d], r.out) \in LinkT /\ LinkOk(Downwards(st.link[d], r.out))
                    /\ Did(st.link[d], Downwards(st.link[d], r.out)) /\ Downwards(st.link[d], r.out).prx = "open"
    BY <1>2, <1>7, <1>8, DownwardsFields
<1>10. k \in [Conn -> LinkT] /\ \A c \in Conn : k[c] = IF c = d THEN Downwards(st.link[c], r.out) ELSE st.link[c]
    BY <1>4, <1>6, <1>9
<1>11. PICK s : s = [t EXCEPT !.link = k, !.again = a]
    OBVIOUS
<1>12. Put(st, p, r) = s
    <2>1. CASE d \in Conn
        BY <1>1, <1>4, <1>5, <1>11, <2>1 DEF Put, Backed, St
    <2>2. CASE d \notin Conn
        BY <1>1, <1>4, <1>5, <1>11, <2>2 DEF Put, Backed, St
    <2> QED BY <2>1, <2>2
<1>13. s.slot = t.slot /\ s.free = t.free /\ s.zero = t.zero /\ s.link = k
    BY <1>6, <1>11 DEF St
<1>14. s \in St(P)
    BY <1>6, <1>10, <1>11 DEF St
<1>15. \A q \in P : Denotes(s, q) = Denotes(t, q)
    BY <1>13 DEF Denotes
<1>16. SentFrom(P, st, p, s, r.back)
    BY <1>3, <1>13, <1>14, <1>15 DEF SentFrom
<1>17. \A c \in Conn : LinkOk(k[c]) /\ Did(st.link[c], k[c]) /\ k[c].prx = st.link[c].prx
    BY <1>7, <1>8, <1>9, <1>10 DEF Did
<1>18. Sockets(s)
    <2>1. BacksFit(s)
        BY <1>3, <1>13 DEF Sockets, BacksFit
    <2>2. FdsOpen(s)
        BY <1>3, <1>13, <1>17 DEF Sockets, FdsOpen
    <2>3. LinksOk(s)
        BY <1>13, <1>17 DEF LinksOk
    <2> QED BY <2>1, <2>2, <2>3 DEF Sockets
<1>19. AllDid(st, s)
    BY <1>13, <1>17 DEF AllDid
<1> QED BY <1>1, <1>3, <1>10, <1>12, <1>13, <1>16, <1>18, <1>19

\* A socket that fails is given up after it.
LEMMA AfterSendKeeps ==
    ASSUME NEW P, NEW st \in St(P), NEW p \in P, Sockets(st), NEW r \in ResultT, Len(r.back) <= BufCap
    PROVE  /\ AfterSend(st, p, r) = IF r.how = "error" THEN SocketDisconn(Put(st, p, r), p) ELSE Put(st, p, r)
           /\ SentFrom(P, st, p, AfterSend(st, p, r), r.back) /\ Sockets(AfterSend(st, p, r))
           /\ AllDid(st, AfterSend(st, p, r))
<1>1. PICK t : t = Put(st, p, r)
    OBVIOUS
<1>2. AfterSend(st, p, r) = IF r.how = "error" THEN SocketDisconn(t, p) ELSE t
    BY <1>1 DEF AfterSend, Put
<1>3. SentFrom(P, st, p, t, r.back) /\ Sockets(t) /\ AllDid(st, t)
    BY <1>1, PutKeeps
<1>4. CASE r.how # "error"
    BY <1>1, <1>2, <1>3, <1>4
<1>5. CASE r.how = "error"
    <2>1. PICK s : s = SocketDisconn(t, p)
        OBVIOUS
    <2>2. t \in St(P)
        BY <1>3 DEF SentFrom
    <2>3. /\ Sockets(s) /\ AllDid(t, s) /\ s.slot[p].back = t.slot[p].back /\ \A q \in P : q # p => s.slot[q] = t.slot[q]
          /\ \A q \in P : Denotes(s, q) \in {Closed, Denotes(t, q)}
        BY <1>3, <2>1, <2>2, DisconnKeeps
    <2>4. s \in St(P) /\ s.free = t.free
        <3>1. LinksOk(t)
            BY <1>3 DEF Sockets
        <3>2. SocketDisconn(t, p) \in St(P) /\ SocketDisconn(t, p).free = t.free
            BY <2>2, <3>1, DisconnFields
        <3> QED BY <2>1, <3>2
    <2>5. SentFrom(P, st, p, s, r.back)
        BY <1>3, <2>3, <2>4 DEF SentFrom
    <2>6. AllDid(st, s)
        BY <1>3, <2>3, DidTwice DEF AllDid
    <2> QED BY <1>1, <1>2, <1>5, <2>1, <2>3, <2>5, <2>6
<1> QED BY <1>4, <1>5

LEMMA HowsType == ASSUME NEW st, NEW p PROVE Hows(st, p) \in SUBSET {"sent", "again", "error"}
BY DEF Hows

\* One message for position p, and a registration, keep the sockets in order.
LEMMA SendOneKeeps ==
    ASSUME NEW P, NEW st \in St(P), NEW p \in P, Sockets(st), NEW m \in M, NEW s \in SendOneData(st, p, m)
    PROVE  Sockets(s) /\ AllDid(st, s) /\ SentFrom(P, st, p, s, s.slot[p].back)
<1>1. PICK back : back = st.slot[p].back
    OBVIOUS
<1>2. back \in Seq(M) /\ Len(back) <= BufCap
    BY <1>1, DenotesType DEF Sockets, BacksFit, SlotT, St
<1>3. CASE st.slot[p].fd = Closed
    <2>1. PICK b : b = ReserveData(back, m)
        OBVIOUS
    <2>2. b \in Seq(M) /\ Len(b) <= BufCap
        BY <1>2, <2>1, ReserveFacts
    <2>3. s = Backed(st, p, b)
        BY <1>1, <1>3, <2>1 DEF SendOneData, Backed
    <2>4. Sockets(s) /\ AllDid(st, s) /\ SentFrom(P, st, p, s, b)
        BY <2>2, <2>3, BackedKeeps
    <2> QED BY <2>4 DEF SentFrom
<1>4. CASE st.slot[p].fd # Closed
    <2>1. PICK hows : hows = Hows(st, p)
        OBVIOUS
    <2>2. hows \in SUBSET {"sent", "again", "error"}
        BY <2>1, HowsType
    <2>3. PICK r \in Sends(back, m, hows) : s = AfterSend(st, p, r)
        BY <1>1, <1>4, <2>1 DEF SendOneData
    <2>4. r \in ResultT /\ Parts(r, Range(back) \cup {m})
        BY <1>2, <2>2, SendsFacts
    <2>5. Len(r.back) <= BufCap
        BY <2>4 DEF Parts
    <2>6. Sockets(s) /\ AllDid(st, s) /\ SentFrom(P, st, p, s, r.back)
        BY <2>3, <2>4, <2>5, AfterSendKeeps
    <2> QED BY <2>6 DEF SentFrom
<1> QED BY <1>3, <1>4

\* The state in which a registration sends the backlog it takes over.
Joining(st, p, b) == SocketRelease(Backed(st, p, st.slot[b].back), b)

LEMMA JoiningKeeps ==
    ASSUME NEW P, NEW st \in St(P), NEW p \in P, NEW b \in P, Sockets(st)
    PROVE  Joining(st, p, b) \in St(P) /\ Sockets(Joining(st, p, b)) /\ AllDid(st, Joining(st, p, b))
<1>1. PICK back, t : back = st.slot[b].back /\ t = Backed(st, p, back)
    OBVIOUS
<1>2. back \in Seq(M) /\ Len(back) <= BufCap
    BY <1>1, DenotesType DEF Sockets, BacksFit, SlotT, St
<1>3. SentFrom(P, st, p, t, back) /\ Sockets(t) /\ AllDid(st, t)
    BY <1>1, <1>2, BackedKeeps
<1>4. t \in St(P) /\ LinksOk(t)
    BY <1>3 DEF SentFrom, Sockets
<1>5. PICK s : s = SocketRelease(t, b)
    OBVIOUS
<1>6. s \in St(P) /\ Sockets(s) /\ AllDid(t, s)
    BY <1>3, <1>4, <1>5, ReleaseFields, ReleaseKeeps
<1>7. AllDid(st, s)
    BY <1>3, <1>6, DidTwice DEF AllDid
<1> QED BY <1>1, <1>5, <1>6, <1>7 DEF Joining

LEMMA RegisterKeeps ==
    ASSUME NEW P, NEW st \in St(P), NEW p \in P, NEW b \in P, Sockets(st), NEW s \in Register(st, p, b)
    PROVE  /\ s \in St(P) /\ Sockets(s) /\ AllDid(st, s)
           /\ \E r \in SendBufData(Joining(st, p, b).slot[p].back, Hows(Joining(st, p, b), p)) :
                  s = AfterSend(Joining(st, p, b), p, r)
<1>1. PICK t, back : t = Joining(st, p, b) /\ back = t.slot[p].back
    OBVIOUS
<1>2. t \in St(P) /\ Sockets(t) /\ AllDid(st, t)
    BY <1>1, JoiningKeeps
<1>3. back \in Seq(M) /\ Len(back) <= BufCap
    BY <1>1, <1>2, DenotesType DEF Sockets, BacksFit, SlotT, St
<1>4. PICK hows : hows = Hows(t, p)
    OBVIOUS
<1>5. hows \in SUBSET {"sent", "again", "error"}
    BY <1>4, HowsType
<1>6. PICK r \in SendBufData(back, hows) : s = AfterSend(t, p, r)
    BY <1>1, <1>4 DEF Register, Joining, Backed
<1>7. r \in ResultT /\ Parts(r, Range(back))
    BY <1>3, <1>5, SendBufFacts
<1>8. Len(r.back) <= BufCap
    BY <1>7 DEF Parts
<1>9. Sockets(s) /\ AllDid(t, s) /\ SentFrom(P, t, p, s, r.back)
    BY <1>2, <1>6, <1>7, <1>8, AfterSendKeeps
<1>10. AllDid(st, s)
    BY <1>2, <1>9, DidTwice DEF AllDid
<1> QED BY <1>1, <1>4, <1>6, <1>9, <1>10 DEF SentFrom

\* The fields of a connection that is accepted.
Opened(l, p, k) ==
    /\ k \in LinkT /\ k.prx = "open" /\ k.pos = p /\ k.own = l.own /\ k.srv = l.srv /\ k.up = l.up /\ k.down = l.down

LEMMA PxFields ==
    /\ PxState.slot = slot /\ PxState.free = freeL /\ PxState.zero = zero /\ PxState.link = link
    /\ PxState.again = left.again
BY DEF PxState

\* The state after accept(2).
LEMMA AcceptedFields ==
    ASSUME Typed, Sockets(PxState), Waiting, freeL # <<>>, acc # <<>>, NEW p, p = Head(freeL), NEW c, c = Head(acc)
    PROVE  /\ p \in Pos /\ c \in Conn /\ link[c].prx = "queued"
           /\ Accepted \in St(Pos) /\ Sockets(Accepted) /\ Accepted.free = Tail(freeL)
           /\ Accepted.zero = IF zero = Closed THEN c ELSE zero
           /\ Accepted.slot[p].fd = IF zero = Closed THEN 0 ELSE c
           /\ Accepted.slot[p].back = slot[p].back /\ \A q \in Pos : q # p => Accepted.slot[q] = slot[q]
           /\ Opened(link[c], p, Accepted.link[c]) /\ \A d \in Conn : d # c => Accepted.link[d] = link[d]
<1>1. /\ slot \in [Pos -> SlotT] /\ freeL \in Seq(Pos) /\ zero \in Conn \cup {Stdin, Closed}
      /\ link \in [Conn -> LinkT] /\ left.again \in Int /\ acc \in Seq(Conn)
    BY PxFields DEF Typed, St
<1>2. p \in Pos /\ Tail(freeL) \in Seq(Pos)
    BY <1>1, RangeTail
<1>3. c \in Conn /\ c = acc[1] /\ 1 \in 1 .. Len(acc)
    BY <1>1, HeadTailProperties, EmptySeq
<1>4. link[c].prx = "queued" /\ 0 \notin Conn /\ Closed \notin Conn
    BY <1>3, CenterSizes DEF Waiting
<1>5. Pos \subseteq Nat /\ 0 \notin Pos
    BY CenterSizes DEF Typed
<1>6. PICK f, z : f = (IF zero = Closed THEN 0 ELSE c) /\ z = (IF zero = Closed THEN c ELSE zero)
    OBVIOUS
<1>7. PICK u : u = [slot EXCEPT ![p].fd = f]
    OBVIOUS
<1>8. u \in [Pos -> SlotT] /\ u[p].fd = f /\ u[p].back = slot[p].back /\ \A q \in Pos : q # p => u[q] = slot[q]
    BY <1>1, <1>2, <1>3, <1>6, <1>7 DEF SlotT
<1>9. PICK k : k = [link[c] EXCEPT !.prx = "open", !.pos = p]
    OBVIOUS
<1>10. Opened(link[c], p, k)
    <2>1. link[c] \in LinkT /\ p \in Nat
        BY <1>1, <1>2, <1>3, <1>5
    <2> QED BY <1>9, <2>1 DEF Opened, LinkT
<1>11. PICK h : h = [link EXCEPT ![c] = k]
    OBVIOUS
<1>12. h \in [Conn -> LinkT] /\ h[c] = k /\ \A d \in Conn : d # c => h[d] = link[d]
    BY <1>1, <1>3, <1>10, <1>11 DEF Opened
<1>13. PICK t : t = Tail(freeL)
    OBVIOUS
<1>14. PICK s : s = [PxState EXCEPT !.slot = u, !.zero = z, !.free = t, !.link = h]
    OBVIOUS
<1>15. Accepted = s
    <2>1. PICK x : x = PxState
        OBVIOUS
    <2>2. x.slot = slot /\ x.free = freeL /\ x.zero = zero /\ x.link = link /\ x.again = left.again
        BY <2>1, PxFields
    <2>3. z = (IF zero = Closed THEN c ELSE x.zero) /\ t = Tail(x.free) /\ k = [x.link[c] EXCEPT !.prx = "open", !.pos = p]
        BY <1>6, <1>9, <1>13, <2>2
    <2>4. Accepted = [x EXCEPT !.slot[p].fd = f, !.zero = z, !.free = t, !.link[c] = k]
        BY <1>6, <2>1, <2>3 DEF Accepted
    <2>5. u = [x.slot EXCEPT ![p].fd = f] /\ h = [x.link EXCEPT ![c] = k]
        BY <1>7, <1>11, <2>2
    <2>6. Accepted = [x EXCEPT !.slot = u, !.zero = z, !.free = t, !.link = h]
        BY <2>4, <2>5
    <2> QED BY <1>14, <2>1, <2>6
<1>16. s.slot = u /\ s.free = t /\ s.zero = z /\ s.link = h /\ DOMAIN s.slot = Pos
    BY <1>8, <1>14 DEF PxState
<1>17. s \in St(Pos)
    <2>1. t \in Seq(Pos) /\ z \in Conn \cup {Stdin, Closed}
        BY <1>1, <1>2, <1>3, <1>6, <1>13
    <2>2. PxState \in St(Pos)
        BY DEF Typed
    <2> QED BY <1>8, <1>12, <1>14, <2>1, <2>2 DEF St
<1>18. BacksFit(s)
    BY <1>2, <1>8, <1>16, PxFields DEF Sockets, BacksFit, Pos
<1>19. FdsOpen(s)
    <2>1. /\ \A q \in Pos : slot[q].fd \in Conn => link[slot[q].fd].prx = "open"
          /\ \A q, r \in Pos : slot[q].fd \in Conn /\ slot[q].fd = slot[r].fd => q = r
          /\ zero \in Conn => link[zero].prx = "open" /\ \A q \in Pos : slot[q].fd # zero
        BY PxFields DEF Sockets, FdsOpen, Pos
    <2>2. \A q \in Pos : slot[q].fd # c
        BY <1>3, <1>4, <2>1
    <2>3. zero \in Conn => zero # c
        BY <1>4, <2>1
    <2>4. k.prx = "open"
        BY <1>10 DEF Opened
    <2>5. \A q \in Pos : u[q].fd \in Conn => h[u[q].fd].prx = "open"
        BY <1>3, <1>4, <1>6, <1>8, <1>12, <2>1, <2>4
    <2>6. \A q, r \in Pos : u[q].fd \in Conn /\ u[q].fd = u[r].fd => q = r
        BY <1>4, <1>6, <1>8, <2>1, <2>2
    <2>7. z \in Conn => h[z].prx = "open" /\ \A q \in Pos : u[q].fd # z
        BY <1>3, <1>4, <1>6, <1>8, <1>12, <2>1, <2>2, <2>3, <2>4
    <2> QED BY <1>16, <2>5, <2>6, <2>7 DEF FdsOpen
<1>20. LinksOk(s)
    <2>1. \A d \in Conn : LinkOk(link[d])
        BY PxFields DEF Sockets, LinksOk
    <2>2. LinkOk(k)
        BY <1>2, <1>3, <1>4, <1>5, <1>10, <2>1 DEF LinkOk, Opened
    <2> QED BY <1>12, <1>16, <2>1, <2>2 DEF LinksOk
<1> QED BY <1>2, <1>3, <1>4, <1>6, <1>8, <1>10, <1>12, <1>13, <1>15, <1>16, <1>17, <1>18, <1>19, <1>20 DEF Sockets

\* What Become means for the whole.
LEMMA BecomeFields ==
    ASSUME NEW P, NEW st \in St(P), NEW l \in LeftT, Become(st, l)
    PROVE  /\ PxState' = st /\ Pos' = P /\ slot' = st.slot /\ freeL' = st.free /\ zero' = st.zero /\ link' = st.link
           /\ left' \in LeftT /\ left'.msgs = l.msgs
<1>1. /\ st.again \in Int /\ st.slot \in [P -> SlotT]
      /\ st = [slot |-> st.slot, free |-> st.free, zero |-> st.zero, link |-> st.link, again |-> st.again]
    BY DEF St
<1>2. left' = [l EXCEPT !.again = st.again] /\ slot' = st.slot /\ freeL' = st.free /\ zero' = st.zero /\ link' = st.link
    BY DEF Become
<1>3. left' \in LeftT /\ left'.again = st.again /\ left'.msgs = l.msgs
    BY <1>1, <1>2 DEF LeftT
<1>4. PxState' = [slot |-> slot', free |-> freeL', zero |-> zero', link |-> link', again |-> left'.again]
    BY DEF PxState
<1>5. PxState' = st
    BY <1>1, <1>2, <1>3, <1>4
<1> QED BY <1>1, <1>2, <1>3, <1>5 DEF Pos

-----------------------------------------------------------------------------
(* What holds whatever happens, step by step.                              *)

Base == Typed /\ Sockets(PxState) /\ Waiting /\ Held /\ Casting

\* Neither end of a connection at a server nor the queue for accept changes.
Kept(l, k) == k.srv = l.srv /\ (l.srv => k.own = l.own) /\ (k.prx = "queued" <=> l.prx = "queued")
LinksKept == \A c \in Conn : Kept(link[c], link'[c])
EndsKept == \A c \in Conn : link'[c].srv = link[c].srv /\ (link[c].srv => link'[c].own = link[c].own)

LEMMA HeldKept ==
    ASSUME Typed, Held, EndsKept, sfd' = sfd PROVE Held'
<1>1. sfd \in [Id -> Conn \cup {Closed}] /\ link \in [Conn -> LinkT]
    BY PxFields DEF Typed, St
<1>2. \A c \in Conn : link'[c].srv = link[c].srv /\ (link[c].srv => link'[c].own = link[c].own)
    BY DEF EndsKept
<1>3. ASSUME NEW i \in Id, sfd'[i] # Closed PROVE link'[sfd'[i]].srv /\ link'[sfd'[i]].own = i
    <2>1. sfd[i] \in Conn /\ link[sfd[i]].srv /\ link[sfd[i]].own = i
        BY <1>1, <1>3 DEF Held
    <2> QED BY <1>2, <2>1
<1>4. ASSUME NEW c \in Conn, link'[c].srv PROVE sfd'[link'[c].own] = c
    BY <1>2, <1>4 DEF Held
<1> QED BY <1>3, <1>4 DEF Held

LEMMA WaitingKept ==
    ASSUME Typed, Waiting, LinksKept, acc' = acc, Listener \in batch' => Listener \in batch
    PROVE  Waiting'
<1>1. \A c \in Conn : link'[c].prx = "queued" <=> link[c].prx = "queued"
    BY DEF LinksKept, Kept
<1>2. \A k \in 1 .. Len(acc) : acc[k] \in Conn
    BY DEF Typed
<1>3. Listener' = Listener
    BY DEF Listener
<1> QED BY <1>1, <1>2, <1>3 DEF Waiting

\* The proxy steps to a state in order.
LEMMA ProxyMoves ==
    ASSUME Base, NEW st, st \in St(Pos), Sockets(st), PxState' = st, slot' = st.slot, link' = st.link, LinksKept,
           left' \in LeftT, left'.msgs <= Budget.msgs, svrs' \in [Id -> Pos \cup {NULL}], cur' \in Pos \cup {NULL},
           cnt' \in Nat, acc' = acc, Listener \in batch' => Listener \in batch, stale' \in BOOLEAN,
           UNCHANGED <<sfd, sbuf, got>>
    PROVE  Typed' /\ Sockets(PxState)' /\ Waiting' /\ Held' /\ Pos' = Pos
<1>1. Pos' = Pos
    BY DEF Pos, St
<1>2. Typed'
    BY <1>1 DEF Base, Typed
<1>3. Waiting' /\ Held'
    BY WaitingKept, HeldKept DEF Base, LinksKept, Kept, EndsKept
<1> QED BY <1>1, <1>2, <1>3

\* Nothing of the proxy's sockets changes.
LEMMA SocketsIdle ==
    ASSUME UNCHANGED <<slot, freeL, zero, link, left>> PROVE PxState' = PxState /\ Pos' = Pos
BY DEF PxState, Pos

LEMMA DidKept ==
    ASSUME NEW l, NEW k, Did(l, k) PROVE Kept(l, k)
BY DEF Did, Kept

\* No broadcast is under way between two messages.
LEMMA NotCasting ==
    ASSUME Base, cur = NULL PROVE cnt = 0
BY DEF Base, Typed, Casting

LEMMA EpollWaitBase == ASSUME Base, EpollWait PROVE Base'
<1> USE DEF Base, EpollWait
<1>1. PxState' = PxState /\ Pos' = Pos /\ link' = link
    BY SocketsIdle
<1>2. Listener \in batch' => acc # <<>>
    <2> SUFFICES ASSUME Listener \in Ready, acc = <<>> PROVE FALSE
        OBVIOUS
    <2>1. PICK c \in Conn : link[c].prx = "open" /\ Listener = [pos |-> link[c].pos, err |-> link[c].rst]
        BY DEF Ready
    <2>2. link[c].pos = 0
        BY <2>1 DEF Listener
    <2>3. LinkOk(link[c])
        BY PxFields DEF Sockets, LinksOk
    <2> QED BY <2>1, <2>2, <2>3 DEF LinkOk
<1>3. Typed'
    BY <1>1 DEF Typed
<1>4. Waiting'
    <2>1. Listener' = Listener
        BY DEF Listener
    <2> QED BY <1>1, <1>2, <2>1 DEF Waiting
<1>5. Held'
    BY DEF Held
<1>6. cnt' = 0
    BY NotCasting
<1> QED BY <1>1, <1>3, <1>4, <1>5, <1>6 DEF Casting

LEMMA AcceptConnectNoSlotBase == ASSUME Base, AcceptConnectNoSlot PROVE Base'
<1>1. PxState' = PxState /\ Pos' = Pos /\ link' = link
    BY SocketsIdle DEF AcceptConnectNoSlot
<1>2. cnt = 0
    BY NotCasting DEF AcceptConnectNoSlot, Dealt
<1>3. Typed' /\ Held' /\ Sockets(PxState)'
    BY <1>1 DEF Base, Typed, Held, AcceptConnectNoSlot, Dealt
<1>4. Waiting'
    <2>1. Listener' = Listener
        BY DEF Listener
    <2> QED BY <1>1, <2>1 DEF Base, Waiting, AcceptConnectNoSlot, Dealt
<1>5. Casting'
    BY <1>2 DEF Casting, AcceptConnectNoSlot, Dealt
<1> QED BY <1>3, <1>4, <1>5 DEF Base

LEMMA EpollErrBase == ASSUME Base, NEW p \in Pos, EpollErr(p) PROVE Base'
<1>1. PICK st : st = SocketRelease(PxState, p)
    OBVIOUS
<1>2. PxState \in St(Pos) /\ Sockets(PxState) /\ LinksOk(PxState) /\ left \in LeftT /\ left.msgs <= Budget.msgs
    BY DEF Base, Typed, Sockets
<1>3. st \in St(Pos) /\ Sockets(st) /\ AllDid(PxState, st)
    BY <1>1, <1>2, ReleaseFields, ReleaseKeeps
<1>4. Become(st, left)
    BY <1>1 DEF EpollErr
<1>5. PxState' = st /\ slot' = st.slot /\ link' = st.link /\ left' \in LeftT /\ left'.msgs = left.msgs
    BY <1>2, <1>3, <1>4, BecomeFields
<1>6. LinksKept
    BY <1>3, <1>5, PxFields, DidKept DEF AllDid, LinksKept
<1>7. /\ UNCHANGED <<sfd, sbuf, got, svrs, cur, acc, cnt>> /\ stale' \in BOOLEAN /\ cur = NULL
      /\ Listener \in batch' => Listener \in batch
    BY DEF EpollErr, Dealt
<1>8. cnt = 0 /\ cnt \in Nat /\ svrs \in [Id -> Pos \cup {NULL}] /\ cur \in Pos \cup {NULL}
    BY <1>7, NotCasting DEF Base, Typed
<1>9. Typed' /\ Sockets(PxState)' /\ Waiting' /\ Held'
    BY <1>2, <1>3, <1>5, <1>6, <1>7, <1>8, ProxyMoves
<1> QED BY <1>7, <1>8, <1>9 DEF Base, Casting

LEMMA EpollInBase == ASSUME Base, NEW p \in Pos, EpollIn(p) PROVE Base'
<1>1. PxState' = PxState /\ Pos' = Pos /\ link' = link
    BY SocketsIdle DEF EpollIn
<1>2. cnt = 0
    BY NotCasting DEF EpollIn, Dealt
<1>3. stale' \in BOOLEAN
    BY DEF EpollIn, Base, Typed
<1>4. Typed' /\ Held' /\ Sockets(PxState)'
    BY <1>1, <1>3 DEF Base, Typed, Held, EpollIn, Dealt
<1>5. Waiting'
    <2>1. Listener' = Listener
        BY DEF Listener
    <2> QED BY <1>1, <2>1 DEF Base, Waiting, EpollIn, Dealt
<1>6. Casting'
    BY <1>2 DEF Casting, EpollIn, Dealt
<1> QED BY <1>4, <1>5, <1>6 DEF Base

\* The first in the queue is taken.
LEMMA WaitingTaken ==
    ASSUME Typed, Waiting, acc # <<>>, acc' = Tail(acc), Listener \notin batch', NEW c, c = Head(acc),
           link'[c].prx # "queued", \A d \in Conn : d # c => (link'[d].prx = "queued" <=> link[d].prx = "queued")
    PROVE  Waiting'
<1>1. acc \in Seq(Conn) /\ \A k, l \in 1 .. Len(acc) : acc[k] = acc[l] => k = l
    BY DEF Typed, Waiting
<1>2. PICK t : t = Tail(acc)
    OBVIOUS
<1>3. /\ t \in Seq(Conn) /\ c \notin Range(t) /\ Range(t) \subseteq Range(acc)
      /\ \A k, l \in 1 .. Len(t) : t[k] = t[l] => k = l
    BY <1>1, <1>2, OnceTail, RangeTail
<1>4. \A x \in Range(acc) : x = c \/ x \in Range(t)
    BY <1>1, <1>2, RangeSplit
<1>5. \A k \in 1 .. Len(acc) : link[acc[k]].prx = "queued"
    BY DEF Waiting
<1>6. \A x \in Range(acc) : x \in Conn /\ link[x].prx = "queued"
    BY <1>1, <1>5, RangeOf
<1>7. \A k \in 1 .. Len(t) : t[k] \in Range(t)
    BY <1>3, RangeOf
<1>8. \A k \in 1 .. Len(t) : link'[t[k]].prx = "queued"
    BY <1>3, <1>6, <1>7
<1>9. \A d \in Conn : link'[d].prx = "queued" => d \in Range(t)
    BY <1>4 DEF Waiting
<1>10. Listener' = Listener /\ acc' = t
    BY <1>2 DEF Listener
<1> QED BY <1>3, <1>8, <1>9, <1>10 DEF Waiting

LEMMA AcceptMoves ==
    ASSUME Base, freeL # <<>>, Dealt(Listener), acc' = Tail(acc), cur' = cur, stale' = stale,
           NEW st, st \in St(Pos), Sockets(st), AllDid(Accepted, st), NEW l \in LeftT, l.msgs = left.msgs, Become(st, l),
           svrs' \in [Id -> Pos \cup {NULL}]
    PROVE  Base' /\ PxState' = st /\ Pos' = Pos
<1>1. PICK p, c : p = Head(freeL) /\ c = Head(acc)
    OBVIOUS
<1>2. acc # <<>> /\ cur = NULL /\ Typed /\ Sockets(PxState) /\ Waiting /\ Held /\ acc \in Seq(Conn)
    BY DEF Base, Waiting, Dealt, Typed
<1>3. /\ p \in Pos /\ c \in Conn /\ link[c].prx = "queued"
      /\ Opened(link[c], p, Accepted.link[c]) /\ \A d \in Conn : d # c => Accepted.link[d] = link[d]
    BY <1>1, <1>2, AcceptedFields
<1>4. PxState' = st /\ Pos' = Pos /\ slot' = st.slot /\ link' = st.link /\ left' \in LeftT /\ left'.msgs = left.msgs
    BY BecomeFields
<1>5. \A d \in Conn : Did(Accepted.link[d], link'[d])
    BY <1>4 DEF AllDid
<1>6. link'[c].prx # "queued" /\ \A d \in Conn : d # c => (link'[d].prx = "queued" <=> link[d].prx = "queued")
    BY <1>3, <1>5 DEF Did, Opened
<1>7. \A d \in Conn : link'[d].srv = link[d].srv /\ (link[d].srv => link'[d].own = link[d].own)
    BY <1>3, <1>5 DEF Did, Opened
<1>8. /\ cnt = 0 /\ cnt' = cnt /\ sfd' = sfd /\ sbuf' = sbuf /\ got' = got /\ Listener \notin batch'
      /\ batch' = batch \ {Listener}
    BY <1>2, NotCasting DEF Dealt
<1>9. Waiting'
    BY <1>1, <1>2, <1>6, <1>8, WaitingTaken
<1>10. Held'
    BY <1>2, <1>7, <1>8, HeldKept DEF EndsKept
<1>11. Typed'
    <2>1. acc' \in Seq(Conn)
        BY <1>2, RangeTail
    <2> QED BY <1>2, <1>4, <1>8, <2>1 DEF Typed
<1>12. Casting'
    BY <1>8 DEF Casting
<1> QED BY <1>4, <1>9, <1>10, <1>11, <1>12 DEF Base

LEMMA DidSame == ASSUME NEW st PROVE AllDid(st, st)
BY DEF AllDid, Did

\* The state that stands behind AcceptConnect.
LEMMA AcceptConnectState ==
    ASSUME Base, AcceptConnect, NEW p, p = Head(freeL), NEW i, i = link[Head(acc)].own
    PROVE  /\ acc # <<>> /\ p \in Pos /\ i \in Id /\ svrs[i] # p
           /\ \E st \in St(Pos) :
                 /\ Sockets(st) /\ AllDid(Accepted, st) /\ Become(st, left)
                 /\ IF svrs[i] = NULL THEN st = Accepted ELSE svrs[i] \in Pos /\ st \in Register(Accepted, p, svrs[i])
<1>1. acc # <<>> /\ freeL # <<>> /\ Typed /\ Sockets(PxState) /\ Waiting
    BY DEF Base, Waiting, AcceptConnect, Dealt
<1>2. PICK c : c = Head(acc)
    OBVIOUS
<1>3. p \in Pos /\ c \in Conn /\ Accepted \in St(Pos) /\ Sockets(Accepted)
    BY <1>1, <1>2, AcceptedFields
<1>4. i \in Id
    BY <1>1, <1>2, <1>3, PxFields DEF Typed, St, LinkT
<1>5. svrs[i] # p /\ svrs[i] \in Pos \cup {NULL}
    BY <1>1, <1>4 DEF AcceptConnect, Typed
<1>6. PICK st \in IF svrs[i] = NULL THEN {Accepted} ELSE Register(Accepted, p, svrs[i]) : Become(st, left)
    BY DEF AcceptConnect
<1>7. CASE svrs[i] = NULL
    BY <1>1, <1>3, <1>4, <1>5, <1>6, <1>7, DidSame
<1>8. CASE svrs[i] # NULL
    <2>1. PICK b : b = svrs[i]
        OBVIOUS
    <2>2. b \in Pos /\ st \in Register(Accepted, p, b)
        BY <1>5, <1>6, <1>8, <2>1
    <2>3. st \in St(Pos) /\ Sockets(st) /\ AllDid(Accepted, st)
        BY <1>3, <2>2, RegisterKeeps
    <2> QED BY <1>1, <1>3, <1>4, <1>5, <1>6, <1>8, <2>1, <2>2, <2>3
<1> QED BY <1>7, <1>8

LEMMA AcceptConnectBase == ASSUME Base, AcceptConnect PROVE Base'
<1>1. PICK p, i : p = Head(freeL) /\ i = link[Head(acc)].own
    OBVIOUS
<1>2. p \in Pos /\ i \in Id
    BY <1>1, AcceptConnectState
<1>3. PICK st \in St(Pos) : Sockets(st) /\ AllDid(Accepted, st) /\ Become(st, left)
    BY <1>1, AcceptConnectState
<1>4. /\ freeL # <<>> /\ Dealt(Listener) /\ acc' = Tail(acc) /\ cur' = cur /\ stale' = stale
      /\ svrs' = [svrs EXCEPT ![i] = p]
    BY <1>1 DEF AcceptConnect
<1>5. left \in LeftT /\ svrs \in [Id -> Pos \cup {NULL}]
    BY DEF Base, Typed
<1>6. svrs' \in [Id -> Pos \cup {NULL}]
    BY <1>2, <1>4, <1>5
<1> QED BY <1>3, <1>4, <1>5, <1>6, AcceptMoves

LEMMA AcceptConnectLateState ==
    ASSUME Base, AcceptConnectLate, NEW p, p = Head(freeL), NEW st, st = SocketRelease(Accepted, p)
    PROVE  /\ acc # <<>> /\ p \in Pos /\ Accepted \in St(Pos) /\ LinksOk(Accepted)
           /\ st \in St(Pos) /\ Sockets(st) /\ AllDid(Accepted, st)
<1>1. acc # <<>> /\ freeL # <<>> /\ Typed /\ Sockets(PxState) /\ Waiting
    BY DEF Base, Waiting, AcceptConnectLate, Dealt
<1>2. PICK c : c = Head(acc)
    OBVIOUS
<1>3. p \in Pos /\ Accepted \in St(Pos) /\ Sockets(Accepted)
    BY <1>1, <1>2, AcceptedFields
<1>4. LinksOk(Accepted)
    BY <1>3 DEF Sockets
<1> QED BY <1>1, <1>3, <1>4, ReleaseFields, ReleaseKeeps

LEMMA AcceptConnectLateBase == ASSUME Base, AcceptConnectLate PROVE Base'
<1>1. PICK p, st, l : p = Head(freeL) /\ st = SocketRelease(Accepted, p) /\ l = [left EXCEPT !.late = @ - 1]
    OBVIOUS
<1>2. st \in St(Pos) /\ Sockets(st) /\ AllDid(Accepted, st)
    BY <1>1, AcceptConnectLateState
<1>3. /\ freeL # <<>> /\ Dealt(Listener) /\ acc' = Tail(acc) /\ cur' = cur /\ stale' = stale /\ svrs' = svrs
      /\ Become(st, l)
    BY <1>1 DEF AcceptConnectLate
<1>4. left \in LeftT /\ svrs \in [Id -> Pos \cup {NULL}]
    BY DEF Base, Typed
<1>5. l \in LeftT /\ l.msgs = left.msgs
    BY <1>1, <1>4 DEF LeftT
<1> QED BY <1>2, <1>3, <1>4, <1>5, AcceptMoves

\* accept fails: the position at hand goes back.
Spared == [PxState EXCEPT !.free = Tail(freeL)]
LEMMA FailsState ==
    ASSUME Base, freeL # <<>>, NEW p, p = Head(freeL), NEW s, s = SocketRelease(Spared, p)
    PROVE  s \in St(Pos) /\ Sockets(s) /\ AllDid(PxState, s)
<1>1. PICK w : w = PxState
    OBVIOUS
<1>2. PICK a : a = Spared
    OBVIOUS
<1>3. w \in St(Pos) /\ Sockets(w) /\ freeL \in Seq(Pos)
    BY <1>1, PxFields DEF Base, Typed, St
<1>4. p \in Pos /\ Tail(freeL) \in Seq(Pos)
    BY <1>3, RangeTail
<1>5. PICK f : f = Tail(freeL)
    OBVIOUS
<1>6. a = [w EXCEPT !.free = f] /\ f \in Seq(Pos)
    BY <1>1, <1>2, <1>4, <1>5 DEF Spared
<1>7. a \in St(Pos) /\ a.slot = w.slot /\ a.zero = w.zero /\ a.link = w.link
    BY <1>3, <1>6 DEF St
<1>8. Sockets(a)
    BY <1>3, <1>7 DEF Sockets, BacksFit, FdsOpen, LinksOk
<1>9. s \in St(Pos) /\ Sockets(s) /\ AllDid(a, s)
    BY <1>2, <1>4, <1>7, <1>8, ReleaseFields, ReleaseKeeps DEF Sockets
<1> QED BY <1>1, <1>7, <1>9 DEF AllDid

LEMMA AcceptFailsState ==
    ASSUME Base, AcceptFails, NEW p, p = Head(freeL), NEW s, s = SocketRelease(Spared, p)
    PROVE  /\ freeL # <<>> /\ s \in St(Pos) /\ Sockets(s) /\ AllDid(PxState, s) /\ PxState' = s
           /\ left' \in LeftT /\ left'.msgs = left.msgs /\ Pos' = Pos
<1>1. PICK l : l = [left EXCEPT !.late = @ - 1]
    OBVIOUS
<1>2. left \in LeftT
    BY DEF Base, Typed
<1>3. l \in LeftT /\ l.msgs = left.msgs
    BY <1>1, <1>2 DEF LeftT
<1>4. freeL # <<>> /\ Become(s, l)
    BY <1>1 DEF AcceptFails, Spared, PxState
<1>5. s \in St(Pos) /\ Sockets(s) /\ AllDid(PxState, s)
    BY <1>4, FailsState
<1> QED BY <1>3, <1>4, <1>5, BecomeFields

LEMMA AcceptFailsBase == ASSUME Base, AcceptFails PROVE Base'
<1>1. PICK p, st : p = Head(freeL) /\ st = SocketRelease(Spared, p)
    OBVIOUS
<1>2. /\ st \in St(Pos) /\ Sockets(st) /\ AllDid(PxState, st) /\ PxState' = st
      /\ left' \in LeftT /\ left'.msgs = left.msgs
    BY <1>1, AcceptFailsState
<1>3. slot' = st.slot /\ link' = st.link
    BY <1>2 DEF PxState
<1>4. LinksKept
    BY <1>2, <1>3, PxFields, DidKept DEF AllDid, LinksKept
<1>5. stale' \in BOOLEAN
    BY DEF AcceptFails, Base, Typed
<1>6. /\ UNCHANGED <<sfd, sbuf, got, svrs, cur, acc, cnt>> /\ cur = NULL
      /\ Listener \in batch' => Listener \in batch
    BY DEF AcceptFails, Dealt
<1>7. cnt = 0 /\ cnt \in Nat /\ svrs \in [Id -> Pos \cup {NULL}] /\ cur \in Pos \cup {NULL} /\ left.msgs <= Budget.msgs
    BY <1>6, NotCasting DEF Base, Typed
<1>8. Typed' /\ Sockets(PxState)' /\ Waiting' /\ Held'
    BY <1>2, <1>3, <1>4, <1>5, <1>6, <1>7, ProxyMoves
<1> QED BY <1>6, <1>7, <1>8 DEF Base, Casting

\* proxysvr starts anew: no connection is left, and every position is free.
LEMMA StartBase ==
    ASSUME Base, NEW l \in LeftT, l.msgs = left.msgs, Start(l)
    PROVE  /\ Base' /\ Pos' = Pos /\ \A p \in Pos : slot'[p] = Empty
           /\ \A c \in Conn : link'[c] = ProxyEndClosed(link[c])
<1>1. PICK n \in SlotNums : Pos = 1 .. n
    BY DEF Base, Typed
<1>2. n \in Nat /\ 0 <= BufCap
    BY CenterSizes
<1>3. PICK none : none = <<>>
    OBVIOUS
<1>4. none \in Seq(M) /\ Len(none) = 0 /\ Range(none) = {} /\ none \in Seq(Conn)
    BY <1>3, NoMessages
<1>5. Empty = [fd |-> 0, back |-> none]
    BY <1>3 DEF Empty
<1>6. Empty \in SlotT /\ Empty.fd = 0 /\ Empty.back = none
    BY <1>4, <1>5 DEF SlotT
<1>7. slot' = [p \in Pos |-> Empty] /\ Pos' = Pos /\ slot' \in [Pos -> SlotT] /\ \A p \in Pos : slot'[p] = Empty
    BY <1>6 DEF Start, Pos
<1>8. freeL' \in Seq(Pos)
    <2>1. freeL' = [p \in 1 .. n |-> p] /\ \A p \in 1 .. n : p \in Pos
        BY <1>1 DEF Start
    <2> QED BY <1>2, <2>1
<1>9. link \in [Conn -> LinkT] /\ \A c \in Conn : LinkOk(link[c])
    BY PxFields DEF Base, Typed, St, Sockets, LinksOk
<1>10. link' \in [Conn -> LinkT] /\ \A c \in Conn : link'[c] = ProxyEndClosed(link[c])
    BY <1>9, ProxyEndFields DEF Start
<1>11. \A c \in Conn : LinkOk(link'[c]) /\ link'[c].prx = "closed"
    BY <1>9, <1>10, ProxyEndFields
<1>12. EndsKept
    BY <1>9, <1>10, ProxyEndFields DEF EndsKept
<1>13. left' = l /\ left'.again \in Int
    BY DEF Start, LeftT
<1>14. PxState' = [slot |-> slot', free |-> freeL', zero |-> zero', link |-> link', again |-> left'.again]
    BY DEF PxState
<1>15. zero' = Stdin /\ svrs' = [i \in Id |-> NULL] /\ batch' = {} /\ cur' = NULL /\ cnt' = 0 /\ acc' = none
       /\ sfd' = sfd /\ sbuf' = sbuf /\ got' = got /\ stale' = stale
    BY <1>3 DEF Start
<1>16. PxState' \in St(Pos)
    BY <1>7, <1>8, <1>10, <1>13, <1>14, <1>15 DEF St
<1>17. Typed'
    BY <1>4, <1>7, <1>13, <1>15, <1>16 DEF Base, Typed
<1>18. Sockets(PxState)'
    <2>1. PxState'.slot = slot' /\ PxState'.link = link' /\ PxState'.zero = zero' /\ DOMAIN slot' = Pos
        BY <1>7, <1>14
    <2>2. BacksFit(PxState)'
        BY <1>2, <1>4, <1>6, <1>7, <2>1 DEF BacksFit
    <2>3. FdsOpen(PxState)'
        BY <1>6, <1>7, <1>15, <2>1, CenterSizes DEF FdsOpen
    <2>4. LinksOk(PxState)'
        BY <1>11, <2>1 DEF LinksOk
    <2> QED BY <2>2, <2>3, <2>4 DEF Sockets
<1>19. Waiting'
    BY <1>4, <1>11, <1>15 DEF Waiting
<1>20. Held'
    BY <1>12, <1>15, HeldKept DEF Base
<1>21. Casting'
    BY <1>15 DEF Casting
<1> QED BY <1>7, <1>10, <1>17, <1>18, <1>19, <1>20, <1>21 DEF Base

\* Something else is left to read of one connection.
Upped(st, c, u) == [st EXCEPT !.link[c].up = u]

LEMMA UppedKeeps ==
    ASSUME NEW P, NEW st \in St(P), Sockets(st), NEW c \in Conn, NEW u \in Seq(M), st.link[c].prx = "closed" => u = <<>>
    PROVE  /\ Upped(st, c, u) \in St(P) /\ Sockets(Upped(st, c, u))
           /\ Upped(st, c, u).slot = st.slot /\ Upped(st, c, u).zero = st.zero /\ Upped(st, c, u).free = st.free
           /\ Upped(st, c, u).link[c].up = u
           /\ \A d \in Conn : /\ d # c => Upped(st, c, u).link[d] = st.link[d]
                              /\ Upped(st, c, u).link[d].srv = st.link[d].srv
                              /\ Upped(st, c, u).link[d].own = st.link[d].own
                              /\ Upped(st, c, u).link[d].prx = st.link[d].prx
                              /\ Upped(st, c, u).link[d].down = st.link[d].down
<1>1. st.link \in [Conn -> LinkT]
    BY DEF St
<1>2. PICK k : k = [st.link EXCEPT ![c].up = u]
    OBVIOUS
<1>3. /\ k \in [Conn -> LinkT] /\ k[c].up = u
      /\ \A d \in Conn : d # c => k[d] = st.link[d]
      /\ \A d \in Conn : k[d].srv = st.link[d].srv /\ k[d].own = st.link[d].own /\ k[d].prx = st.link[d].prx
                         /\ k[d].down = st.link[d].down /\ k[d].pos = st.link[d].pos
    BY <1>1, <1>2 DEF LinkT
<1>4. PICK s : s = [st EXCEPT !.link = k]
    OBVIOUS
<1>5. Upped(st, c, u) = s
    BY <1>2, <1>4 DEF Upped
<1>6. s.slot = st.slot /\ s.free = st.free /\ s.zero = st.zero /\ s.link = k
    BY <1>4 DEF St
<1>7. s \in St(P)
    BY <1>3, <1>4 DEF St
<1>8. BacksFit(s)
    BY <1>6 DEF Sockets, BacksFit
<1>9. FdsOpen(s)
    BY <1>3, <1>6 DEF Sockets, FdsOpen
<1>10. ASSUME NEW d \in Conn PROVE LinkOk(k[d])
    <2>1. LinkOk(st.link[d])
        BY DEF Sockets, LinksOk
    <2>2. CASE d = c
        BY <1>3, <2>1, <2>2 DEF LinkOk
    <2>3. CASE d # c
        BY <1>3, <2>1, <2>3
    <2> QED BY <2>2, <2>3
<1> QED BY <1>3, <1>5, <1>6, <1>7, <1>8, <1>9, <1>10 DEF Sockets, LinksOk

\* A descriptor that stands for a connection stands for an open one.
LEMMA DenotesOpen ==
    ASSUME NEW P, NEW st \in St(P), NEW p \in P, Sockets(st), Denotes(st, p) \in Conn
    PROVE  st.link[Denotes(st, p)].prx = "open"
<1>1. DOMAIN st.slot = P
    BY DEF St
<1> QED BY <1>1, DenotesType DEF Sockets, FdsOpen

LEMMA RegisteredCounts ==
    /\ Cardinality(Registered) \in Nat /\ Cardinality(Registered) <= NumSvr
    /\ Registered # {} => Cardinality(Registered) > 0
    /\ Registered = {} => Cardinality(Registered) = 0
    /\ IsFiniteSet(Registered)
<1>1. IsFiniteSet(Id) /\ Cardinality(Id) = NumSvr
    <2>1. 0 \in Int /\ NumSvr - 1 \in Int /\ NumSvr \in Nat
        BY CenterSizes
    <2>2. IsFiniteSet(0 .. NumSvr - 1)
          /\ Cardinality(0 .. NumSvr - 1) = IF 0 > NumSvr - 1 THEN 0 ELSE (NumSvr - 1) - 0 + 1
        BY <2>1, FS_Interval
    <2> QED BY <2>1, <2>2, CenterSizes DEF Id
<1>2. Registered \subseteq Id
    BY DEF Registered
<1>3. IsFiniteSet(Registered) /\ Cardinality(Registered) <= NumSvr
    BY <1>1, <1>2, FS_Subset
<1> QED BY <1>3, FS_CardinalityType, FS_EmptySet

LEMMA ReadingFacts ==
    ASSUME Base, cur # NULL, HasInput
    PROVE  /\ cur \in Pos /\ Reading \in Conn /\ link[Reading].prx = "open" /\ link[Reading] \in LinkT
           /\ link[Reading].up \in Seq(M) /\ link[Reading].up # <<>> /\ Cur = Head(link[Reading].up)
           /\ Cur \in M /\ Dest(Cur) \in Id /\ svrs[Dest(Cur)] \in Pos \cup {NULL}
<1>1. cur \in Pos /\ PxState \in St(Pos) /\ svrs \in [Id -> Pos \cup {NULL}]
    BY DEF Base, Typed
<1>2. Reading \in Conn /\ link[Reading].up # <<>>
    BY DEF HasInput
<1>3. link[Reading].prx = "open"
    BY <1>1, <1>2, DenotesOpen, PxFields DEF Base, Reading
<1>4. link[Reading] \in LinkT
    BY <1>1, <1>2, PxFields DEF St
<1>5. link[Reading].up \in Seq(M)
    BY <1>4 DEF LinkT
<1>6. Cur = Head(link[Reading].up) /\ Cur \in M
    BY <1>2, <1>5, RangeTail DEF Cur
<1>7. Dest(Cur) \in Id
    BY <1>6 DEF M
<1> QED BY <1>1, <1>2, <1>3, <1>4, <1>5, <1>6, <1>7

\* The states behind DoTransfer: the message is sent, then taken off.
LEMMA DoTransferState ==
    ASSUME Base, DoTransfer, NEW c, c = Reading, NEW q, q = svrs[Dest(Cur)]
    PROVE  /\ q \in Pos
           /\ \E st \in SendOneData(PxState, q, Cur) : \E u \in Seq(M) :
                 /\ u = (IF cnt + 1 = Copies /\ st.link[c].up # <<>> THEN Tail(st.link[c].up) ELSE st.link[c].up)
                 /\ st \in St(Pos) /\ Sockets(st) /\ AllDid(PxState, st) /\ SentFrom(Pos, PxState, q, st, st.slot[q].back)
                 /\ Become(Upped(st, c, u), left)
                 /\ cnt' = IF cnt + 1 = Copies THEN 0 ELSE cnt + 1
<1>1. cur # NULL /\ HasInput /\ q # NULL
    BY DEF DoTransfer
<1>2. c \in Conn /\ q \in Pos /\ Cur \in M
    BY <1>1, ReadingFacts
<1>3. PICK st \in SendOneData(PxState, q, Cur) :
        /\ Become([st EXCEPT !.link[c].up = IF cnt + 1 = Copies /\ @ # <<>> THEN Tail(@) ELSE @], left)
        /\ cnt' = IF cnt + 1 = Copies THEN 0 ELSE cnt + 1
    BY DEF DoTransfer
<1>4. Sockets(st) /\ AllDid(PxState, st) /\ SentFrom(Pos, PxState, q, st, st.slot[q].back)
    BY <1>2, SendOneKeeps DEF Base, Typed
<1>5. st \in St(Pos) /\ st.link[c].up \in Seq(M)
    BY <1>2, <1>4 DEF SentFrom, St, LinkT
<1>6. PICK u : u = IF cnt + 1 = Copies /\ st.link[c].up # <<>> THEN Tail(st.link[c].up) ELSE st.link[c].up
    OBVIOUS
<1>7. u \in Seq(M)
    BY <1>5, <1>6, RangeTail
<1>8. Become(Upped(st, c, u), left)
    BY <1>3, <1>6 DEF Upped
<1> QED BY <1>2, <1>3, <1>4, <1>5, <1>6, <1>7, <1>8

LEMMA DoTransferBase == ASSUME Base, DoTransfer PROVE Base'
<1>1. PICK c, q : c = Reading /\ q = svrs[Dest(Cur)]
    OBVIOUS
<1>2. cur # NULL /\ HasInput /\ q # NULL /\ UNCHANGED <<svrs, batch, cur, acc, sfd, sbuf, got, stale>>
    BY <1>1 DEF DoTransfer
<1>3. /\ cur \in Pos /\ c \in Conn /\ link[c].up # <<>> /\ Cur = Head(link[c].up)
      /\ Dest(Cur) \in Id
    BY <1>1, <1>2, ReadingFacts
<1>4. q \in Pos
    BY <1>1, DoTransferState
<1>5. PICK st \in SendOneData(PxState, q, Cur) : \E u \in Seq(M) :
        /\ u = (IF cnt + 1 = Copies /\ st.link[c].up # <<>> THEN Tail(st.link[c].up) ELSE st.link[c].up)
        /\ st \in St(Pos) /\ Sockets(st) /\ AllDid(PxState, st) /\ SentFrom(Pos, PxState, q, st, st.slot[q].back)
        /\ Become(Upped(st, c, u), left)
        /\ cnt' = IF cnt + 1 = Copies THEN 0 ELSE cnt + 1
    BY <1>1, DoTransferState
<1>6. PICK u \in Seq(M) :
        /\ u = (IF cnt + 1 = Copies /\ st.link[c].up # <<>> THEN Tail(st.link[c].up) ELSE st.link[c].up)
        /\ st \in St(Pos) /\ Sockets(st) /\ AllDid(PxState, st) /\ SentFrom(Pos, PxState, q, st, st.slot[q].back)
        /\ Become(Upped(st, c, u), left)
        /\ cnt' = IF cnt + 1 = Copies THEN 0 ELSE cnt + 1
    BY <1>5
<1>7. PICK t : t = Upped(st, c, u)
    OBVIOUS
<1>8. st.link[c].prx = "closed" => u = <<>>
    BY <1>3, <1>6 DEF Sockets, LinksOk, LinkOk
<1>9. /\ t \in St(Pos) /\ Sockets(t) /\ t.slot = st.slot /\ t.zero = st.zero /\ t.link[c].up = u
      /\ \A d \in Conn : t.link[d].srv = st.link[d].srv /\ t.link[d].own = st.link[d].own /\ t.link[d].prx = st.link[d].prx
    <2>1. st \in St(Pos) /\ Sockets(st) /\ c \in Conn
        BY <1>3, <1>6
    <2> QED BY <1>7, <1>8, <2>1, UppedKeeps
<1>10. left \in LeftT /\ left.msgs <= Budget.msgs /\ cnt \in Nat /\ svrs \in [Id -> Pos \cup {NULL}] /\ stale \in BOOLEAN
    BY DEF Base, Typed
<1>11. PxState' = t /\ slot' = t.slot /\ link' = t.link /\ zero' = t.zero /\ left' \in LeftT /\ left'.msgs = left.msgs
    BY <1>6, <1>7, <1>9, <1>10, BecomeFields
<1>12. LinksKept
    <2>1. \A d \in Conn : Kept(link[d], st.link[d])
        BY <1>6, PxFields, DidKept DEF AllDid
    <2> QED BY <1>9, <1>11, <2>1 DEF LinksKept, Kept
<1>13. Copies \in Nat /\ cnt' \in Nat
    BY <1>6, <1>10, RegisteredCounts DEF Copies
<1>14. Typed' /\ Sockets(PxState)' /\ Waiting' /\ Held' /\ Pos' = Pos
    BY <1>2, <1>3, <1>9, <1>10, <1>11, <1>12, <1>13, ProxyMoves
<1>15. Casting'
    <2> SUFFICES ASSUME cnt' > 0 PROVE Casting'
        BY DEF Casting
    <2>1. cnt' = cnt + 1 /\ cnt + 1 # Copies /\ u = st.link[c].up
        BY <1>6
    <2>2. Cur.route = "broadcast" /\ Copies = Cardinality(Registered)
        <3>1. CASE cnt = 0
            BY <2>1, <3>1 DEF Copies
        <3>2. CASE cnt > 0
            BY <1>1, <1>2, <1>3, <3>2 DEF Base, Casting, Copies
        <3> QED BY <1>10, <3>1, <3>2
    <2>3. cnt < Cardinality(Registered)
        <3>1. CASE cnt = 0
            <4>1. Dest(Cur) \in Registered
                BY <1>1, <1>2, <1>3 DEF Registered
            <4> QED BY <3>1, <4>1, RegisteredCounts
        <3>2. CASE cnt > 0
            BY <1>1, <1>2, <1>3, <3>2 DEF Base, Casting
        <3> QED BY <1>10, <3>1, <3>2
    <2>4. cnt' < Cardinality(Registered) /\ cnt' < NumSvr
        BY <1>10, <2>1, <2>2, <2>3, RegisteredCounts, CenterSizes
    <2>5. Registered' = Registered
        BY <1>2 DEF Registered
    <2>6. ASSUME Reading' \in Conn PROVE HasInput' /\ Cur'.route = "broadcast"
        <3>1. Reading' = Denotes(t, cur)
            BY <1>2, <1>11 DEF Reading
        <3>2. Denotes(t, cur) = Denotes(st, cur)
            BY <1>9 DEF Denotes
        <3>3. Reading' = c
            BY <1>1, <1>3, <1>6, <2>6, <3>1, <3>2, CenterSizes DEF SentFrom, Reading
        <3>4. t.link[c].prx = "open"
            <4>1. t \in St(Pos) /\ Sockets(t) /\ cur \in Pos /\ Denotes(t, cur) = c /\ Denotes(t, cur) \in Conn
                BY <1>3, <1>9, <3>1, <3>3
            <4>2. t.link[Denotes(t, cur)].prx = "open"
                BY <4>1, DenotesOpen
            <4> QED BY <4>1, <4>2
        <3>5. Did(link[c], st.link[c]) /\ st.link[c].prx = "open"
            BY <1>3, <1>6, <1>9, <3>4, PxFields DEF AllDid
        <3>6. st.link[c].up = link[c].up
            BY <3>5 DEF Did
        <3>7. link'[c].up = link[c].up
            BY <1>9, <1>11, <2>1, <3>6
        <3>8. HasInput' /\ Cur' = Head(link'[c].up)
            BY <1>3, <3>3, <3>7 DEF HasInput, Cur
        <3> QED BY <1>3, <2>2, <3>7, <3>8
    <2> QED BY <1>2, <2>4, <2>5, <2>6 DEF Casting
<1> QED BY <1>14, <1>15 DEF Base

LEMMA DropsState ==
    ASSUME Base, DoTransferDrops, NEW c, c = Reading, NEW u, u = Tail(link[c].up)
    PROVE  /\ c \in Conn /\ u \in Seq(M) /\ PxState' = Upped(PxState, c, u) /\ Upped(PxState, c, u) \in St(Pos)
           /\ Sockets(Upped(PxState, c, u)) /\ cnt = 0 /\ cnt' = 0 /\ cur \in Pos /\ Pos' = Pos
<1>1. cur # NULL /\ HasInput /\ svrs[Dest(Cur)] = NULL /\ UNCHANGED <<slot, freeL, zero, left, cnt>>
      /\ (Cur.route = "broadcast" => Registered = {}) /\ link' = [link EXCEPT ![Reading].up = Tail(@)]
    BY DEF DoTransferDrops
<1>2. /\ cur \in Pos /\ c \in Conn /\ link[c].up # <<>> /\ link[c].prx = "open" /\ link[c].up \in Seq(M)
      /\ PxState \in St(Pos) /\ Sockets(PxState) /\ cnt \in Nat
    BY <1>1, ReadingFacts DEF Base, Typed
<1>3. u \in Seq(M)
    BY <1>2, RangeTail
<1>4. PICK x : x = PxState
    OBVIOUS
<1>5. PICK k : k = [link EXCEPT ![c].up = u]
    OBVIOUS
<1>6. link' = k
    BY <1>1, <1>5
<1>7. x = [slot |-> slot, free |-> freeL, zero |-> zero, link |-> link, again |-> left.again]
    BY <1>4 DEF PxState
<1>8. Upped(x, c, u) = [x EXCEPT !.link = k]
    BY <1>5, <1>7 DEF Upped
<1>9. PxState' = [slot |-> slot', free |-> freeL', zero |-> zero', link |-> link', again |-> left'.again]
    BY DEF PxState
<1>10. PxState' = Upped(x, c, u)
    BY <1>1, <1>6, <1>7, <1>8, <1>9
<1>11. x \in St(Pos) /\ Sockets(x) /\ x.link[c].prx = "open"
    BY <1>2, <1>4, <1>7
<1>12. Upped(x, c, u) \in St(Pos) /\ Sockets(Upped(x, c, u))
    BY <1>2, <1>3, <1>11, UppedKeeps
<1>13. cnt = 0
    <2> SUFFICES ASSUME cnt > 0 PROVE FALSE
        BY <1>2
    <2>1. Cur.route = "broadcast" /\ cnt < Cardinality(Registered)
        BY <1>2 DEF Base, Casting
    <2> QED BY <1>1, <1>2, <2>1, RegisteredCounts
<1> QED BY <1>1, <1>2, <1>3, <1>4, <1>10, <1>12, <1>13 DEF Pos

LEMMA DoTransferDropsBase == ASSUME Base, DoTransferDrops PROVE Base'
<1>1. PICK c, u, x, t : c = Reading /\ u = Tail(link[c].up) /\ x = PxState /\ t = Upped(x, c, u)
    OBVIOUS
<1>2. c \in Conn /\ u \in Seq(M) /\ PxState' = t /\ t \in St(Pos) /\ Sockets(t) /\ cnt' = 0 /\ cur \in Pos /\ Pos' = Pos
    BY <1>1, DropsState
<1>3. UNCHANGED <<slot, svrs, batch, cur, acc, sfd, sbuf, got, stale, left>>
    BY DEF DoTransferDrops
<1>4. slot' = t.slot /\ link' = t.link
    <2>1. PxState'.slot = slot' /\ PxState'.link = link'
        BY DEF PxState
    <2> QED BY <1>2, <2>1
<1>5. LinksKept
    <2>1. x \in St(Pos) /\ Sockets(x) /\ x.link = link /\ link[c].prx = "open"
        <3>1. cur # NULL /\ HasInput
            BY DEF DoTransferDrops
        <3> QED BY <1>1, <3>1, PxFields, ReadingFacts DEF Base, Typed
    <2>2. \A d \in Conn : t.link[d].srv = x.link[d].srv /\ t.link[d].own = x.link[d].own /\ t.link[d].prx = x.link[d].prx
        <3>1. (x.link[c].prx = "closed" => u = <<>>) /\ t = Upped(x, c, u) /\ c \in Conn /\ u \in Seq(M)
            BY <1>1, <1>2, <2>1
        <3> QED BY <2>1, <3>1, UppedKeeps
    <2> QED BY <1>4, <2>1, <2>2 DEF LinksKept, Kept
<1>6. left \in LeftT /\ left.msgs <= Budget.msgs /\ svrs \in [Id -> Pos \cup {NULL}] /\ stale \in BOOLEAN
    BY DEF Base, Typed
<1>7. Typed' /\ Sockets(PxState)' /\ Waiting' /\ Held'
    BY <1>2, <1>3, <1>4, <1>5, <1>6, ProxyMoves
<1> QED BY <1>2, <1>7 DEF Base, Casting

LEMMA RecvEndBase == ASSUME Base, RecvEnd PROVE Base'
<1>1. cur' = NULL /\ cnt' = 0 /\ cur # NULL /\ UNCHANGED <<svrs, batch, acc, sfd, sbuf, got, stale>>
    BY DEF RecvEnd
<1>2. /\ left \in LeftT /\ left.msgs <= Budget.msgs /\ svrs \in [Id -> Pos \cup {NULL}] /\ stale \in BOOLEAN
      /\ cur \in Pos /\ PxState \in St(Pos) /\ Sockets(PxState)
    BY <1>1 DEF Base, Typed
<1>3. CASE UNCHANGED <<slot, freeL, zero, link, left>>
    <2>1. PxState' = PxState /\ Pos' = Pos
        BY <1>3, SocketsIdle
    <2>2. LinksKept
        BY <1>3 DEF LinksKept, Kept
    <2>3. slot' = PxState.slot /\ link' = PxState.link
        BY <1>3, PxFields
    <2>4. Typed' /\ Sockets(PxState)' /\ Waiting' /\ Held'
        BY <1>1, <1>2, <1>3, <2>1, <2>2, <2>3, ProxyMoves
    <2> QED BY <1>1, <2>4 DEF Base, Casting
<1>4. CASE Become(SocketDisconn(PxState, cur), left)
    <2>1. PICK t : t = SocketDisconn(PxState, cur)
        OBVIOUS
    <2>2. t \in St(Pos) /\ Sockets(t) /\ AllDid(PxState, t)
        BY <1>2, <2>1, DisconnFields, DisconnKeeps DEF Sockets
    <2>3. PxState' = t /\ slot' = t.slot /\ link' = t.link /\ left' \in LeftT /\ left'.msgs = left.msgs
        BY <1>2, <1>4, <2>1, <2>2, BecomeFields
    <2>4. LinksKept
        BY <2>2, <2>3, PxFields, DidKept DEF AllDid, LinksKept
    <2>5. Typed' /\ Sockets(PxState)' /\ Waiting' /\ Held'
        BY <1>1, <1>2, <2>2, <2>3, <2>4, ProxyMoves
    <2> QED BY <1>1, <2>5 DEF Base, Casting
<1> QED BY <1>3, <1>4 DEF RecvEnd

\* A server's step changes one connection, and nothing at the proxy.
LEMMA ServerMoves ==
    ASSUME Base, NEW c \in Conn, NEW k \in LinkT, LinkOk(k), link' = [link EXCEPT ![c] = k], UnchangedProxy,
           link[c].prx = "open" => k.prx = "open" /\ (link[c].up # <<>> => k.up # <<>> /\ Head(k.up) = Head(link[c].up)),
           left' \in LeftT, left'.msgs <= Budget.msgs, acc' \in Seq(Conn), sfd' \in [Id -> Conn \cup {Closed}],
           sbuf' \in [Id -> Seq(M)], \A i \in Id : Len(sbuf'[i]) <= BufCap, got' \in [Id -> Seq(M)]
    PROVE  Typed' /\ Sockets(PxState)' /\ Casting' /\ Pos' = Pos
<1>1. UNCHANGED <<slot, freeL, svrs, zero, batch, cur, cnt, stale>> /\ Pos' = Pos
    BY DEF UnchangedProxy, Pos
<1>2. PxState \in St(Pos) /\ link \in [Conn -> LinkT] /\ slot \in [Pos -> SlotT] /\ freeL \in Seq(Pos)
      /\ zero \in Conn \cup {Stdin, Closed}
    BY PxFields DEF Base, Typed, St
<1>3. link' \in [Conn -> LinkT] /\ link'[c] = k /\ \A d \in Conn : d # c => link'[d] = link[d]
    BY <1>2
<1>4. PxState' = [slot |-> slot, free |-> freeL, zero |-> zero, link |-> link', again |-> left'.again]
    BY <1>1 DEF PxState
<1>5. left'.again \in Int
    BY DEF LeftT
<1>6. PxState' \in St(Pos)
    BY <1>2, <1>3, <1>4, <1>5 DEF St
<1>7. Typed'
    BY <1>1, <1>6 DEF Base, Typed
<1>8. PxState'.slot = slot /\ PxState'.zero = zero /\ PxState'.link = link' /\ DOMAIN slot = Pos
    BY <1>2, <1>4
<1>9. BacksFit(PxState)' /\ LinksOk(PxState)'
    <2>1. BacksFit(PxState) /\ LinksOk(PxState)
        BY DEF Base, Sockets
    <2> QED BY <1>3, <1>8, <2>1, PxFields DEF BacksFit, LinksOk
<1>10. \A d \in Conn : link[d].prx = "open" => link'[d].prx = "open"
    BY <1>3
<1>11. FdsOpen(PxState)'
    <2>1. FdsOpen(PxState)
        BY DEF Base, Sockets
    <2>2. /\ \A p \in Pos : slot[p].fd \in Conn => link[slot[p].fd].prx = "open"
          /\ \A p, q \in Pos : slot[p].fd \in Conn /\ slot[p].fd = slot[q].fd => p = q
          /\ zero \in Conn => link[zero].prx = "open" /\ \A p \in Pos : slot[p].fd # zero
        BY <1>8, <2>1, PxFields DEF FdsOpen
    <2> QED BY <1>8, <1>10, <2>2 DEF FdsOpen
<1>12. Casting'
    <2> SUFFICES ASSUME cnt > 0 PROVE Casting'
        BY <1>1 DEF Casting
    <2>1. cur # NULL /\ cnt < NumSvr /\ cur \in Pos
        BY DEF Base, Casting, Typed
    <2>2. Reading' = Reading /\ Registered' = Registered
        BY <1>1, <1>8, PxFields DEF Reading, Denotes, Registered
    <2>3. ASSUME Reading \in Conn
          PROVE  HasInput' /\ Cur'.route = "broadcast" /\ cnt < Cardinality(Registered)
        <3>1. HasInput /\ Cur.route = "broadcast" /\ cnt < Cardinality(Registered)
            BY <2>3 DEF Base, Casting
        <3>2. link[Reading].prx = "open" /\ link[Reading].up # <<>> /\ Cur = Head(link[Reading].up)
            BY <2>1, <3>1, ReadingFacts
        <3>3. link'[Reading].up # <<>> /\ Head(link'[Reading].up) = Cur
            BY <1>3, <2>3, <3>2
        <3> QED BY <2>2, <2>3, <3>1, <3>3 DEF HasInput, Cur
    <2> QED BY <1>1, <2>1, <2>2, <2>3 DEF Casting
<1> QED BY <1>1, <1>7, <1>9, <1>11, <1>12 DEF Sockets

\* A server's end closes.
LEMMA ServerEndFields ==
    ASSUME NEW l \in LinkT, LinkOk(l)
    PROVE  /\ ServerEndClosed(l) \in LinkT /\ LinkOk(ServerEndClosed(l)) /\ ServerEndClosed(l).srv = FALSE
           /\ ServerEndClosed(l).prx = l.prx /\ ServerEndClosed(l).up = l.up /\ ServerEndClosed(l).down = <<>>
           /\ l.prx # "closed" => ServerEndClosed(l).own = l.own
<1>1. CASE l.prx = "closed"
    <2>1. ServerEndClosed(l) = NoLink /\ l.up = <<>>
        BY <1>1 DEF ServerEndClosed, LinkOk
    <2> QED BY <1>1, <2>1, NoLinkFields
<1>2. CASE l.prx # "closed"
    <2>1. PICK none, k : none = <<>> /\ k = [l EXCEPT !.srv = FALSE, !.down = none, !.stray = l.down # none]
        OBVIOUS
    <2>2. ServerEndClosed(l) = k
        BY <1>2, <2>1 DEF ServerEndClosed
    <2>3. none \in Seq(M) /\ (l.down # none) \in BOOLEAN
        BY <2>1
    <2>4. /\ k \in LinkT /\ k.srv = FALSE /\ k.prx = l.prx /\ k.up = l.up /\ k.down = none /\ k.own = l.own /\ k.pos = l.pos
        BY <2>1, <2>3 DEF LinkT
    <2>5. LinkOk(k)
        BY <1>2, <2>1, <2>4 DEF LinkOk
    <2> QED BY <2>1, <2>2, <2>4, <2>5
<1> QED BY <1>1, <1>2

\* The message SendMessageToCenter makes.
LEMMA NewMessage ==
    ASSUME Base, left.msgs > 0, NEW i \in Id, NEW r \in Routes, NEW k \in 0 .. 2 * NumSvr - 1, r = "hash" <=> k >= NumSvr
    PROVE  Msg(i, r, k) \in M /\ Msg(i, r, k).src = i /\ Msg(i, r, k).n = Budget.msgs - left.msgs
<1>1. left.msgs \in Nat /\ left.msgs <= Budget.msgs /\ Budget.msgs \in Nat /\ NumSvr \in Nat \ {0}
    BY CenterSizes DEF Base, Typed, LeftT
<1>2. PICK n : n = Budget.msgs - left.msgs
    OBVIOUS
<1>3. n \in 0 .. Budget.msgs - 1
    BY <1>1, <1>2
<1>4. PICK m : m = [src |-> i, n |-> n, route |-> r, key |-> k]
    OBVIOUS
<1>5. Msg(i, r, k) = m
    BY <1>2, <1>4 DEF Msg
<1>6. m \in MsgT /\ m.src = i /\ m.n = n /\ m.route = r /\ m.key = k
    BY <1>3, <1>4 DEF MsgT
<1>7. Dest(m) \in Id
    <2>1. CASE r = "hash"
        <3>1. k \in Nat
            BY <1>1
        <3>2. k % NumSvr \in 0 .. NumSvr - 1
            BY <1>1, <3>1
        <3> QED BY <1>6, <2>1, <3>2 DEF Dest, Id
    <2>2. CASE r # "hash"
        BY <1>1, <1>6, <2>2 DEF Dest, Id
    <2> QED BY <2>1, <2>2
<1> QED BY <1>2, <1>5, <1>6, <1>7 DEF M

LEMMA DialledFields ==
    ASSUME NEW i \in Id, NEW u \in Seq(M)
    PROVE  /\ Dialled(i, u) \in LinkT /\ LinkOk(Dialled(i, u)) /\ Dialled(i, u).own = i /\ Dialled(i, u).srv = TRUE
           /\ Dialled(i, u).prx = "queued" /\ Dialled(i, u).up = u /\ Dialled(i, u).down = <<>>
<1>1. PICK x, k : x = NoLink /\ k = [x EXCEPT !.own = i, !.srv = TRUE, !.prx = "queued", !.up = u]
    OBVIOUS
<1>2. x \in LinkT /\ x.down = <<>>
    BY <1>1, NoLinkFields
<1>3. Dialled(i, u) = k
    BY <1>1 DEF Dialled
<1>4. k \in LinkT /\ k.own = i /\ k.srv = TRUE /\ k.prx = "queued" /\ k.up = u /\ k.down = x.down
    BY <1>1, <1>2 DEF LinkT
<1>5. LinkOk(k)
    BY <1>2, <1>4 DEF LinkOk
<1> QED BY <1>2, <1>3, <1>4, <1>5

\* What is known of the server's side, and of its connection.
LEMMA ServerFacts ==
    ASSUME Base, NEW i \in Id
    PROVE  /\ sfd \in [Id -> Conn \cup {Closed}] /\ link \in [Conn -> LinkT] /\ (\A c \in Conn : LinkOk(link[c]))
           /\ sbuf \in [Id -> Seq(M)] /\ (\A j \in Id : Len(sbuf[j]) <= BufCap) /\ got \in [Id -> Seq(M)]
           /\ left \in LeftT /\ left.msgs <= Budget.msgs /\ left.msgs \in Nat /\ acc \in Seq(Conn)
           /\ sfd[i] # Closed =>
                 /\ sfd[i] \in Conn /\ link[sfd[i]] \in LinkT /\ LinkOk(link[sfd[i]])
                 /\ link[sfd[i]].srv /\ link[sfd[i]].own = i
<1>1. sfd \in [Id -> Conn \cup {Closed}] /\ link \in [Conn -> LinkT] /\ (\A c \in Conn : LinkOk(link[c]))
    BY PxFields DEF Base, Typed, St, Sockets, LinksOk
<1>2. sfd[i] # Closed => link[sfd[i]].srv /\ link[sfd[i]].own = i
    BY DEF Base, Held
<1> QED BY <1>1, <1>2 DEF Base, Typed, LeftT

\* A server has a new connection: it waits for accept or has been given up, and
\* carries the backlog or nothing.
Dials(i, c, k) ==
    /\ sfd[i] = Closed /\ c \in Conn /\ link[c] = NoLink
    /\ k \in LinkT /\ LinkOk(k) /\ k.own = i /\ k.srv = TRUE /\ k.down = <<>>
    /\ \/ k.prx = "queued" /\ acc' = Append(acc, c)
       \/ k.prx = "closed" /\ acc' = acc
    /\ \/ k.up = sbuf[i] /\ sbuf' = [sbuf EXCEPT ![i] = <<>>]
       \/ k.up = <<>> /\ sbuf' = sbuf
    /\ link' = [link EXCEPT ![c] = k] /\ sfd' = [sfd EXCEPT ![i] = c]
    /\ UnchangedProxy /\ got' = got /\ left' \in LeftT /\ left'.msgs = left.msgs

\* So it is with CheckConnect, whose send of the backlog may take nothing.
LEMMA CheckConnectDials == ASSUME Base, NEW i \in Id, CheckConnect(i) PROVE \E c, k : Dials(i, c, k)
<1>1. PICK hows : hows = {"sent"} \cup IF left.again > 0 THEN {"again"} ELSE {}
    OBVIOUS
<1>2. PICK c \in Conn, r \in SendBufData(sbuf[i], hows) :
        /\ Connect(i, c)
        /\ link' = [link EXCEPT ![c] = Dialled(i, r.out)]
        /\ acc' = Append(acc, c)
        /\ sbuf' = [sbuf EXCEPT ![i] = r.back]
        /\ left' = [left EXCEPT !.again = IF r.how = "again" THEN @ - 1 ELSE @]
    BY <1>1 DEF CheckConnect
<1>3. PICK b : b = sbuf[i]
    OBVIOUS
<1>4. sbuf \in [Id -> Seq(M)] /\ b \in Seq(M) /\ left \in LeftT
    BY <1>3, ServerFacts
<1>5. PICK how \in hows : r = Result(IF how = "sent" THEN b ELSE <<>>, IF how = "sent" THEN <<>> ELSE b, how)
    BY <1>2, <1>3 DEF SendBufData
<1>6. (r.out = b /\ r.back = <<>>) \/ (r.out = <<>> /\ r.back = b)
    BY <1>5 DEF Result
<1>7. PICK u : u = r.out
    OBVIOUS
<1>8. u \in Seq(M)
    <2>1. PICK none : none = <<>>
        OBVIOUS
    <2>2. none \in Seq(M)
        BY <2>1
    <2> QED BY <1>4, <1>6, <1>7, <2>1, <2>2
<1>9. PICK k : k = Dialled(i, u)
    OBVIOUS
<1>10. k \in LinkT /\ LinkOk(k) /\ k.own = i /\ k.srv = TRUE /\ k.prx = "queued" /\ k.up = u /\ k.down = <<>>
    BY <1>8, <1>9, DialledFields
<1>11. link' = [link EXCEPT ![c] = k]
    BY <1>2, <1>7, <1>9
<1>12. (u = sbuf[i] /\ sbuf' = [sbuf EXCEPT ![i] = <<>>]) \/ (u = <<>> /\ sbuf' = sbuf)
    <2>1. CASE u = b /\ r.back = <<>>
        BY <1>2, <1>3, <2>1
    <2>2. CASE u = <<>> /\ r.back = b
        <3>1. sbuf' = [sbuf EXCEPT ![i] = b]
            BY <1>2, <2>2
        <3>2. sbuf' = sbuf
            BY <1>3, <1>4, <3>1
        <3> QED BY <2>2, <3>2
    <2> QED BY <1>6, <1>7, <2>1, <2>2
<1>13. left' \in LeftT /\ left'.msgs = left.msgs
    <2>1. PICK a : a = IF r.how = "again" THEN left.again - 1 ELSE left.again
        OBVIOUS
    <2>2. a \in Int
        BY <1>4, <2>1 DEF LeftT
    <2>3. left' = [left EXCEPT !.again = a]
        BY <1>2, <2>1
    <2> QED BY <1>4, <2>2, <2>3 DEF LeftT
<1>14. /\ sfd[i] = Closed /\ link[c] = NoLink /\ sfd' = [sfd EXCEPT ![i] = c] /\ UnchangedProxy /\ got' = got
       /\ acc' = Append(acc, c)
    BY <1>2 DEF Connect
<1>15. Dials(i, c, k)
    BY <1>10, <1>11, <1>12, <1>13, <1>14 DEF Dials
<1> QED BY <1>15

\* And when Register fails.
LEMMA RegisterFailsDials == ASSUME Base, NEW i \in Id, RegisterFails(i) PROVE \E c, k : Dials(i, c, k)
<1>1. PICK c \in Conn : Connect(i, c) /\ link' = [link EXCEPT ![c] = ProxyEndClosed(Dialled(i, <<>>))]
    BY DEF RegisterFails
<1>2. PICK none, l : none = <<>> /\ l = Dialled(i, none)
    OBVIOUS
<1>3. none \in Seq(M)
    BY <1>2, NoMessages
<1>4. l \in LinkT /\ LinkOk(l) /\ l.own = i /\ l.srv = TRUE /\ l.down = <<>>
    BY <1>2, <1>3, DialledFields
<1>5. PICK k : k = ProxyEndClosed(l)
    OBVIOUS
<1>6. k \in LinkT /\ LinkOk(k) /\ k.own = i /\ k.srv = TRUE /\ k.prx = "closed" /\ k.up = <<>> /\ k.down = <<>>
    BY <1>4, <1>5, ProxyEndFields
<1>7. link' = [link EXCEPT ![c] = k]
    BY <1>1, <1>2, <1>5
<1>8. left \in LeftT /\ left' = [left EXCEPT !.late = @ - 1] /\ acc' = acc /\ sbuf' = sbuf
    BY ServerFacts DEF RegisterFails
<1>9. left' \in LeftT /\ left'.msgs = left.msgs
    BY <1>8 DEF LeftT
<1>10. sfd[i] = Closed /\ link[c] = NoLink /\ sfd' = [sfd EXCEPT ![i] = c] /\ UnchangedProxy /\ got' = got
    BY <1>1 DEF Connect
<1>11. Dials(i, c, k)
    BY <1>6, <1>7, <1>8, <1>9, <1>10 DEF Dials
<1> QED BY <1>11

LEMMA DialBase == ASSUME Base, NEW i \in Id, NEW c, NEW k, Dials(i, c, k) PROVE Base'
<1>1. /\ c \in Conn /\ link[c] = NoLink /\ sfd[i] = Closed /\ UnchangedProxy /\ got' = got /\ left' \in LeftT
      /\ left'.msgs = left.msgs /\ link' = [link EXCEPT ![c] = k] /\ sfd' = [sfd EXCEPT ![i] = c]
    BY DEF Dials
<1>2. PICK none : none = <<>>
    OBVIOUS
<1>3. k \in LinkT /\ LinkOk(k) /\ k.own = i /\ k.srv = TRUE
    BY DEF Dials
<1>4. /\ sfd \in [Id -> Conn \cup {Closed}] /\ link \in [Conn -> LinkT] /\ sbuf \in [Id -> Seq(M)] /\ acc \in Seq(Conn)
      /\ (\A j \in Id : Len(sbuf[j]) <= BufCap) /\ got \in [Id -> Seq(M)] /\ left.msgs <= Budget.msgs
    BY ServerFacts
<1>5. (k.prx = "queued" /\ acc' = Append(acc, c)) \/ (k.prx = "closed" /\ acc' = acc)
    BY DEF Dials
<1>6. link[c].prx = "closed" /\ link[c].srv = FALSE /\ none \in Seq(M) /\ Len(none) <= BufCap
    BY <1>1, <1>2, NoLinkFields, CenterSizes
<1>7. sfd' \in [Id -> Conn \cup {Closed}] /\ sfd'[i] = c /\ \A j \in Id : j # i => sfd'[j] = sfd[j]
    BY <1>1, <1>4
<1>8. sbuf' \in [Id -> Seq(M)] /\ \A j \in Id : Len(sbuf'[j]) <= BufCap
    <2>1. sbuf' = sbuf \/ sbuf' = [sbuf EXCEPT ![i] = none]
        BY <1>2 DEF Dials
    <2> QED BY <1>4, <1>6, <2>1
<1>9. acc' \in Seq(Conn)
    <2>1. Append(acc, c) \in Seq(Conn)
        BY <1>1, <1>4
    <2> QED BY <1>4, <1>5, <2>1
<1>10. Typed' /\ Sockets(PxState)' /\ Casting' /\ Pos' = Pos
    BY <1>1, <1>3, <1>4, <1>6, <1>7, <1>8, <1>9, ServerMoves
<1>11. link'[c] = k /\ \A d \in Conn : d # c => link'[d] = link[d]
    BY <1>1, <1>4
<1>12. ASSUME k.prx = "closed", acc' = acc PROVE Waiting'
    <2>1. \A d \in Conn : link'[d].prx = "queued" <=> link[d].prx = "queued"
        BY <1>6, <1>11, <1>12
    <2>2. \A n \in 1 .. Len(acc) : acc[n] \in Conn
        BY <1>4
    <2>3. Listener' = Listener /\ batch' = batch
        BY <1>1 DEF Listener, UnchangedProxy
    <2> QED BY <1>12, <2>1, <2>2, <2>3 DEF Base, Waiting
<1>13. ASSUME k.prx = "queued", acc' = Append(acc, c) PROVE Waiting'
    <2>1. \A x \in Range(acc) : x \in Conn /\ link[x].prx = "queued"
        <3>1. \A n \in 1 .. Len(acc) : acc[n] \in Conn /\ link[acc[n]].prx = "queued"
            BY <1>4 DEF Base, Waiting
        <3> QED BY <1>4, <3>1, RangeOf
    <2>2. c \notin Range(acc) /\ \A x \in Range(acc) : x # c
        BY <1>6, <2>1
    <2>3. \A m, n \in 1 .. Len(acc') : acc'[m] = acc'[n] => m = n
        <3>1. \A m, n \in 1 .. Len(acc) : acc[m] = acc[n] => m = n
            BY DEF Base, Waiting
        <3>2. acc \in Seq(Conn) /\ c \in Conn /\ c \notin Range(acc)
            BY <1>1, <1>4, <2>2
        <3>3. \A m, n \in 1 .. Len(Append(acc, c)) : Append(acc, c)[m] = Append(acc, c)[n] => m = n
            BY <3>1, <3>2, OnceAppend
        <3> QED BY <1>13, <3>3
    <2>4. Range(acc') = Range(acc) \cup {c}
        BY <1>1, <1>4, <1>13, RangeAppend
    <2>5. \A n \in 1 .. Len(acc') : acc'[n] \in Range(acc')
        BY <1>9, RangeOf
    <2>6. \A n \in 1 .. Len(acc') : link'[acc'[n]].prx = "queued"
        BY <1>11, <1>13, <2>1, <2>2, <2>4, <2>5
    <2>7. \A d \in Conn : link'[d].prx = "queued" => d \in Range(acc')
        BY <1>11, <2>4 DEF Base, Waiting
    <2>8. acc' # <<>>
        BY <1>1, <1>4, <1>13, AppendProperties
    <2> QED BY <2>3, <2>6, <2>7, <2>8 DEF Waiting
<1>14. Held'
    <2>1. ASSUME NEW j \in Id, sfd'[j] # Closed PROVE link'[sfd'[j]].srv /\ link'[sfd'[j]].own = j
        <3>1. CASE j = i
            BY <1>3, <1>7, <1>11, <3>1
        <3>2. CASE j # i
            <4>1. sfd'[j] = sfd[j] /\ sfd[j] \in Conn /\ link[sfd[j]].srv /\ link[sfd[j]].own = j
                BY <1>4, <1>7, <2>1, <3>2 DEF Base, Held
            <4> QED BY <1>6, <1>11, <4>1
        <3> QED BY <3>1, <3>2
    <2>2. ASSUME NEW d \in Conn, link'[d].srv PROVE sfd'[link'[d].own] = d
        <3>1. CASE d = c
            BY <1>3, <1>7, <1>11, <3>1
        <3>2. CASE d # c
            <4>1. link'[d] = link[d] /\ sfd[link[d].own] = d /\ link[d].own \in Id
                BY <1>4, <1>11, <2>2, <3>2 DEF Base, Held, LinkT
            <4> QED BY <1>1, <1>7, <4>1, CenterSizes
        <3> QED BY <3>1, <3>2
    <2> QED BY <2>1, <2>2 DEF Held
<1>15. Waiting'
    BY <1>5, <1>12, <1>13
<1> QED BY <1>10, <1>14, <1>15 DEF Base

\* A server's connection changes, or its end closes.
LEMMA HeldMoves ==
    ASSUME Base, NEW i \in Id, NEW c \in Conn, c = sfd[i], NEW k, link' = [link EXCEPT ![c] = k],
           \/ sfd' = sfd /\ k.srv = link[c].srv /\ k.own = link[c].own
           \/ sfd' = [sfd EXCEPT ![i] = Closed] /\ k.srv = FALSE,
           acc' = acc, batch' = batch, k.prx = link[c].prx
    PROVE  Held' /\ Waiting'
<1>1. /\ sfd \in [Id -> Conn \cup {Closed}] /\ link \in [Conn -> LinkT] /\ sfd[i] # Closed
      /\ link[c].srv /\ link[c].own = i /\ acc \in Seq(Conn)
    BY ServerFacts, CenterSizes
<1>2. link'[c] = k /\ \A d \in Conn : d # c => link'[d] = link[d]
    BY <1>1
<1>3. Waiting'
    <2>1. \A d \in Conn : link'[d].prx = link[d].prx
        BY <1>2
    <2>2. \A n \in 1 .. Len(acc) : acc[n] \in Conn
        BY <1>1
    <2>3. Listener' = Listener
        BY DEF Listener
    <2> QED BY <2>1, <2>2, <2>3 DEF Base, Waiting
<1>4. CASE sfd' = sfd /\ k.srv = link[c].srv /\ k.own = link[c].own
    <2>1. EndsKept
        BY <1>2, <1>4 DEF EndsKept
    <2> QED BY <1>3, <1>4, <2>1, HeldKept DEF Base
<1>5. CASE sfd' = [sfd EXCEPT ![i] = Closed] /\ k.srv = FALSE
    <2>1. sfd'[i] = Closed /\ \A j \in Id : j # i => sfd'[j] = sfd[j]
        BY <1>1, <1>5
    <2>2. ASSUME NEW j \in Id, sfd'[j] # Closed PROVE link'[sfd'[j]].srv /\ link'[sfd'[j]].own = j
        <3>1. j # i /\ sfd'[j] = sfd[j]
            BY <2>1, <2>2
        <3>2. sfd[j] \in Conn /\ link[sfd[j]].srv /\ link[sfd[j]].own = j
            BY <1>1, <2>2, <3>1 DEF Base, Held
        <3>3. sfd[j] # c
            BY <1>1, <3>1, <3>2
        <3> QED BY <1>2, <3>1, <3>2, <3>3
    <2>3. ASSUME NEW d \in Conn, link'[d].srv PROVE sfd'[link'[d].own] = d
        <3>1. d # c /\ link'[d] = link[d]
            BY <1>2, <1>5, <2>3
        <3>2. sfd[link[d].own] = d /\ link[d].own \in Id
            BY <1>1, <2>3, <3>1 DEF Base, Held, LinkT
        <3> QED BY <2>1, <3>1, <3>2
    <2> QED BY <1>3, <2>2, <2>3 DEF Held
<1> QED BY <1>4, <1>5

\* What a send of server i over its connection c amounts to.
SentUp(i, m, c, r, k) ==
    /\ c = sfd[i] /\ c \in Conn /\ r \in ResultT /\ Parts(r, Range(sbuf[i]) \cup {m})
    /\ Ordered(sbuf[i]) /\ Below(Range(sbuf[i]), {m}) => InParts(r)
    /\ k \in LinkT /\ LinkOk(k) /\ k.prx = link[c].prx
    /\ k.up = IF link[c].prx = "closed" THEN link[c].up ELSE link[c].up \o r.out
    /\ \/ sfd' = sfd /\ k.srv = link[c].srv /\ k.own = link[c].own /\ k.down = link[c].down
       \/ sfd' = [sfd EXCEPT ![i] = Closed] /\ k.srv = FALSE /\ k.down = <<>> /\ link[c].prx = "closed"
    /\ link' = [link EXCEPT ![c] = k] /\ sbuf' = [sbuf EXCEPT ![i] = r.back]

LEMMA SendOpenState ==
    ASSUME Base, NEW i \in Id, NEW m \in M, SendWhenOpen(i, m)
    PROVE  \E c, r, k : SentUp(i, m, c, r, k)
<1>1. PICK c, hows, buf : c = sfd[i] /\ hows = ServerHows(c) /\ buf = sbuf[i]
    OBVIOUS
<1>2. /\ c \in Conn /\ link[c] \in LinkT /\ LinkOk(link[c]) /\ buf \in Seq(M) /\ Len(buf) <= BufCap /\ sfd[i] # Closed
    BY <1>1, ServerFacts DEF SendWhenOpen
<1>3. PICK r \in Sends(buf, m, hows) :
        LET l == IF link[c].prx = "closed" THEN link[c] ELSE [link[c] EXCEPT !.up = @ \o r.out]
        IN /\ sbuf' = [sbuf EXCEPT ![i] = r.back]
           /\ link' = [link EXCEPT ![c] = IF r.how = "error" THEN ServerEndClosed(l) ELSE l]
           /\ sfd' = [sfd EXCEPT ![i] = IF r.how = "error" THEN Closed ELSE c]
    BY <1>1 DEF SendWhenOpen
<1>4. hows \in SUBSET {"sent", "again", "error"} /\ ("error" \in hows => link[c].prx = "closed")
    BY <1>1 DEF ServerHows
<1>5. /\ r \in ResultT /\ r.how \in hows /\ Parts(r, Range(buf) \cup {m})
      /\ Ordered(buf) /\ Below(Range(buf), {m}) => InParts(r)
    BY <1>2, <1>4, SendsFacts
<1>6. PICK l : l = IF link[c].prx = "closed" THEN link[c] ELSE [link[c] EXCEPT !.up = link[c].up \o r.out]
    OBVIOUS
<1>7. link[c].up \o r.out \in Seq(M)
    BY <1>2, <1>5, RangeConcat DEF LinkT, ResultT
<1>8. /\ l \in LinkT /\ l.prx = link[c].prx /\ l.srv = link[c].srv /\ l.own = link[c].own /\ l.down = link[c].down
      /\ l.up = IF link[c].prx = "closed" THEN link[c].up ELSE link[c].up \o r.out
      /\ l.pos = link[c].pos
    BY <1>2, <1>6, <1>7 DEF LinkT
<1>9. LinkOk(l)
    BY <1>2, <1>8 DEF LinkOk
<1>10. CASE r.how = "error"
    <2>1. PICK k : k = ServerEndClosed(l)
        OBVIOUS
    <2>2. k \in LinkT /\ LinkOk(k) /\ k.srv = FALSE /\ k.prx = l.prx /\ k.up = l.up /\ k.down = <<>>
        BY <1>8, <1>9, <2>1, ServerEndFields
    <2>3. link' = [link EXCEPT ![c] = k] /\ sfd' = [sfd EXCEPT ![i] = Closed] /\ sbuf' = [sbuf EXCEPT ![i] = r.back]
        BY <1>3, <1>6, <1>10, <2>1
    <2>4. link[c].prx = "closed"
        BY <1>4, <1>5, <1>10
    <2>5. SentUp(i, m, c, r, k)
        BY <1>1, <1>2, <1>5, <1>8, <2>2, <2>3, <2>4 DEF SentUp
    <2> QED BY <2>5
<1>11. CASE r.how # "error"
    <2>1. link' = [link EXCEPT ![c] = l] /\ sfd' = [sfd EXCEPT ![i] = c] /\ sbuf' = [sbuf EXCEPT ![i] = r.back]
        BY <1>3, <1>6, <1>11
    <2>2. sfd' = sfd
        BY <1>1, <2>1, ServerFacts
    <2>3. SentUp(i, m, c, r, l)
        BY <1>1, <1>2, <1>5, <1>8, <1>9, <2>1, <2>2 DEF SentUp
    <2> QED BY <2>3
<1> QED BY <1>10, <1>11

LEMMA SendBase ==
    ASSUME Base, NEW i \in Id, NEW m \in M, left.msgs > 0, UnchangedProxy, UNCHANGED <<acc, got>>,
           SendWhenClosed(i, m) \/ SendWhenOpen(i, m)
    PROVE  Base' /\ left'.msgs = left.msgs - 1
<1>1. /\ sfd \in [Id -> Conn \cup {Closed}] /\ link \in [Conn -> LinkT] /\ sbuf \in [Id -> Seq(M)] /\ acc \in Seq(Conn)
      /\ (\A j \in Id : Len(sbuf[j]) <= BufCap) /\ got \in [Id -> Seq(M)] /\ left \in LeftT /\ left.msgs <= Budget.msgs
      /\ left.msgs \in Nat /\ Budget.msgs \in Nat
    BY ServerFacts, CenterSizes
<1>2. left' \in LeftT /\ left'.msgs = left.msgs - 1 /\ left'.msgs <= Budget.msgs
    <2>1. \/ left' = [left EXCEPT !.msgs = @ - 1]
          \/ \E a \in {left.again, left.again - 1} : left' = [left EXCEPT !.msgs = @ - 1, !.again = a]
        BY DEF SendWhenClosed, SendWhenOpen
    <2>2. left.again \in Int /\ left.msgs - 1 \in Nat
        BY <1>1 DEF LeftT
    <2>3. left' \in LeftT /\ left'.msgs = left.msgs - 1
        <3>1. PICK n : n = left.msgs - 1
            OBVIOUS
        <3>2. n \in Nat /\ left \in LeftT
            BY <1>1, <2>2, <3>1
        <3>3. CASE left' = [left EXCEPT !.msgs = n]
            BY <3>1, <3>2, <3>3 DEF LeftT
        <3>4. CASE \E a \in {left.again, left.again - 1} : left' = [left EXCEPT !.msgs = n, !.again = a]
            <4>1. PICK a \in {left.again, left.again - 1} : left' = [left EXCEPT !.msgs = n, !.again = a]
                BY <3>4
            <4>2. a \in Int
                BY <2>2, <4>1
            <4> QED BY <3>1, <3>2, <4>1, <4>2 DEF LeftT
        <3> QED BY <2>1, <3>1, <3>3, <3>4
    <2> QED BY <1>1, <2>3
<1>3. CASE SendWhenClosed(i, m)
    <2>1. PICK b : b = ReserveData(sbuf[i], m)
        OBVIOUS
    <2>2. sbuf[i] \in Seq(M) /\ Len(sbuf[i]) <= BufCap
        BY <1>1
    <2>3. b \in Seq(M) /\ Len(b) <= BufCap
        BY <2>1, <2>2, ReserveFacts
    <2>4. sbuf' = [sbuf EXCEPT ![i] = b] /\ link' = link /\ sfd' = sfd
        BY <1>3, <2>1 DEF SendWhenClosed
    <2>5. sbuf' \in [Id -> Seq(M)] /\ \A j \in Id : Len(sbuf'[j]) <= BufCap
        BY <1>1, <2>3, <2>4
    <2>6. UNCHANGED <<slot, freeL, svrs, zero, batch, cur, cnt, stale>>
        BY DEF UnchangedProxy
    <2>7. PxState' = [PxState EXCEPT !.again = left'.again] /\ Pos' = Pos
        BY <2>4, <2>6 DEF PxState, Pos
    <2>8. PxState' \in St(Pos) /\ PxState'.slot = PxState.slot /\ PxState'.zero = PxState.zero /\ PxState'.link = PxState.link
        <3>1. left'.again \in Int /\ PxState \in St(Pos)
            BY <1>2 DEF Base, Typed, LeftT
        <3> QED BY <2>7, <3>1 DEF St
    <2>9. Typed'
        BY <1>1, <1>2, <2>4, <2>5, <2>6, <2>7, <2>8 DEF Base, Typed
    <2>10. Sockets(PxState)'
        BY <2>8 DEF Base, Sockets, BacksFit, FdsOpen, LinksOk
    <2>11. Waiting' /\ Held'
        BY <2>4, <2>6 DEF Base, Waiting, Held, Listener
    <2>12. Casting'
        BY <2>4, <2>6, <2>8 DEF Base, Casting, Reading, HasInput, Cur, Registered, Denotes
    <2> QED BY <1>2, <2>9, <2>10, <2>11, <2>12 DEF Base
<1>4. CASE SendWhenOpen(i, m)
    <2>1. PICK c, r, k : SentUp(i, m, c, r, k)
        BY <1>4, SendOpenState
    <2>2. /\ c = sfd[i] /\ c \in Conn /\ k \in LinkT /\ LinkOk(k) /\ k.prx = link[c].prx
          /\ link' = [link EXCEPT ![c] = k] /\ sbuf' = [sbuf EXCEPT ![i] = r.back]
          /\ r.back \in Seq(M) /\ Len(r.back) <= BufCap /\ r.out \in Seq(M)
          /\ \/ sfd' = sfd /\ k.srv = link[c].srv /\ k.own = link[c].own
             \/ sfd' = [sfd EXCEPT ![i] = Closed] /\ k.srv = FALSE
        BY <2>1 DEF SentUp, Parts, ResultT
    <2>3. link[c].prx = "open" => k.prx = "open" /\ (link[c].up # <<>> => k.up # <<>> /\ Head(k.up) = Head(link[c].up))
        <3> SUFFICES ASSUME link[c].prx = "open", link[c].up # <<>> PROVE k.up # <<>> /\ Head(k.up) = Head(link[c].up)
            BY <2>2
        <3>1. PICK u, v : u = link[c].up /\ v = r.out
            OBVIOUS
        <3>2. u \in Seq(M) /\ v \in Seq(M) /\ u # <<>> /\ k.up = u \o v
            BY <1>1, <2>1, <2>2, <3>1 DEF SentUp, LinkT
        <3>3. u \o v # <<>> /\ Head(u \o v) = Head(u)
            BY <3>2
        <3> QED BY <3>1, <3>2, <3>3
    <2>4. sbuf' \in [Id -> Seq(M)] /\ \A j \in Id : Len(sbuf'[j]) <= BufCap
        BY <1>1, <2>2
    <2>5. sfd' \in [Id -> Conn \cup {Closed}] /\ acc' = acc /\ got' = got /\ batch' = batch
        BY <1>1, <2>2 DEF UnchangedProxy
    <2>6. Typed' /\ Sockets(PxState)' /\ Casting' /\ Pos' = Pos
        BY <1>1, <1>2, <2>2, <2>3, <2>4, <2>5, ServerMoves
    <2>7. Held' /\ Waiting'
        BY <2>2, <2>5, HeldMoves
    <2> QED BY <1>2, <2>6, <2>7 DEF Base
<1> QED BY <1>3, <1>4

\* The message behind SendMessageToCenter.
LEMMA SendState ==
    ASSUME Base, NEW i \in Id, SendMessageToCenter(i)
    PROVE  \E m \in M : /\ m.src = i /\ m.n = Budget.msgs - left.msgs
                        /\ SendWhenClosed(i, m) \/ SendWhenOpen(i, m)
<1>1. PICK r \in Routes, k \in IF "hash" \in Routes THEN 0 .. 2 * NumSvr - 1 ELSE Id :
        /\ (r = "hash" <=> k >= NumSvr)
        /\ SendWhenClosed(i, Msg(i, r, k)) \/ SendWhenOpen(i, Msg(i, r, k))
    BY DEF SendMessageToCenter
<1>2. k \in 0 .. 2 * NumSvr - 1
    BY <1>1, CenterSizes DEF Id
<1>3. left.msgs > 0
    BY DEF SendMessageToCenter
<1>4. Msg(i, r, k) \in M /\ Msg(i, r, k).src = i /\ Msg(i, r, k).n = Budget.msgs - left.msgs
    BY <1>1, <1>2, <1>3, NewMessage
<1> QED BY <1>1, <1>4

LEMMA SendMessageBase == ASSUME Base, NEW i \in Id, SendMessageToCenter(i) PROVE Base'
<1>1. PICK m \in M : SendWhenClosed(i, m) \/ SendWhenOpen(i, m)
    BY SendState
<1>2. left.msgs > 0 /\ UnchangedProxy /\ UNCHANGED <<acc, got>>
    BY DEF SendMessageToCenter
<1> QED BY <1>1, <1>2, SendBase

\* What is known after a step of server i on its connection alone.
LEMMA OwnLinkBase ==
    ASSUME Base, NEW i \in Id, NEW c \in Conn, c = sfd[i], NEW k \in LinkT, LinkOk(k), link' = [link EXCEPT ![c] = k],
           k.prx = link[c].prx, k.up = link[c].up, UnchangedProxy, acc' = acc,
           \/ sfd' = sfd /\ k.srv = link[c].srv /\ k.own = link[c].own
           \/ sfd' = [sfd EXCEPT ![i] = Closed] /\ k.srv = FALSE,
           left' \in LeftT, left'.msgs <= Budget.msgs,
           sbuf' \in [Id -> Seq(M)], \A j \in Id : Len(sbuf'[j]) <= BufCap, got' \in [Id -> Seq(M)]
    PROVE  Base'
<1>1. /\ sfd \in [Id -> Conn \cup {Closed}] /\ acc \in Seq(Conn)
    BY ServerFacts
<1>2. sfd' \in [Id -> Conn \cup {Closed}] /\ acc' \in Seq(Conn) /\ batch' = batch
    BY <1>1 DEF UnchangedProxy
<1>3. link[c].prx = "open" => k.prx = "open" /\ (link[c].up # <<>> => k.up # <<>> /\ Head(k.up) = Head(link[c].up))
    OBVIOUS
<1>4. Typed' /\ Sockets(PxState)' /\ Casting' /\ Pos' = Pos
    BY <1>2, <1>3, ServerMoves
<1>5. Held' /\ Waiting'
    BY <1>2, HeldMoves
<1> QED BY <1>4, <1>5 DEF Base

\* A server's connection after it has read what is there.
TookDown(i, c, k, g) ==
    /\ c = sfd[i] /\ c \in Conn /\ link[c].own = i /\ k \in LinkT /\ LinkOk(k) /\ link' = [link EXCEPT ![c] = k]
    /\ k.prx = link[c].prx /\ k.up = link[c].up /\ k.srv = link[c].srv /\ k.own = link[c].own /\ k.down = <<>>
    /\ link[c].down \in Seq(M) /\ g = got[i] \o link[c].down /\ g \in Seq(M) /\ got' = [got EXCEPT ![i] = g]

LEMMA RecvDataState ==
    ASSUME Base, NEW i \in Id, RecvData(i)
    PROVE  \E c, k, g : TookDown(i, c, k, g)
<1>0. PICK c, k : c = sfd[i] /\ k = [link[c] EXCEPT !.down = <<>>]
    OBVIOUS
<1>1. sfd[i] # Closed /\ link' = [link EXCEPT ![c].down = <<>>] /\ got' = [got EXCEPT ![i] = got[i] \o link[c].down]
    BY <1>0 DEF RecvData
<1>2. c \in Conn /\ link[c].own = i /\ link \in [Conn -> LinkT] /\ link[c] \in LinkT /\ LinkOk(link[c]) /\ got[i] \in Seq(M)
    BY <1>0, <1>1, ServerFacts
<1>3. PICK none : none = <<>>
    OBVIOUS
<1>4. none \in Seq(M) /\ k = [link[c] EXCEPT !.down = none]
    BY <1>0, <1>3
<1>5. /\ k \in LinkT /\ k.prx = link[c].prx /\ k.up = link[c].up /\ k.srv = link[c].srv /\ k.own = link[c].own
      /\ k.down = none /\ k.pos = link[c].pos
    BY <1>2, <1>4 DEF LinkT
<1>6. LinkOk(k)
    BY <1>2, <1>3, <1>5 DEF LinkOk
<1>7. link' = [link EXCEPT ![c] = k]
    BY <1>0, <1>1
<1>8. link[c].down \in Seq(M)
    BY <1>2 DEF LinkT
<1>9. PICK g : g = got[i] \o link[c].down
    OBVIOUS
<1>10. g \in Seq(M)
    BY <1>2, <1>8, <1>9, RangeConcat
<1>11. TookDown(i, c, k, g)
    BY <1>0, <1>1, <1>2, <1>3, <1>5, <1>6, <1>7, <1>8, <1>9, <1>10 DEF TookDown
<1> QED BY <1>11

LEMMA RecvDataBase == ASSUME Base, NEW i \in Id, RecvData(i) PROVE Base'
<1>1. PICK c, k, g : TookDown(i, c, k, g)
    BY RecvDataState
<1>2. /\ c = sfd[i] /\ c \in Conn /\ k \in LinkT /\ LinkOk(k) /\ link' = [link EXCEPT ![c] = k]
      /\ k.prx = link[c].prx /\ k.up = link[c].up /\ k.srv = link[c].srv /\ k.own = link[c].own
      /\ g \in Seq(M) /\ got' = [got EXCEPT ![i] = g]
    BY <1>1 DEF TookDown
<1>3. UnchangedProxy /\ acc' = acc /\ sfd' = sfd /\ sbuf' = sbuf /\ left' = left
    BY DEF RecvData
<1>4. /\ got \in [Id -> Seq(M)] /\ sbuf \in [Id -> Seq(M)] /\ (\A j \in Id : Len(sbuf[j]) <= BufCap)
      /\ left \in LeftT /\ left.msgs <= Budget.msgs
    BY ServerFacts
<1>5. got' \in [Id -> Seq(M)]
    BY <1>2, <1>4
<1> QED BY <1>1, <1>2, <1>3, <1>4, <1>5, OwnLinkBase

LEMMA RecvDataEndBase == ASSUME Base, NEW i \in Id, RecvDataEnd(i) PROVE Base'
<1>1. PICK c, k : c = sfd[i] /\ k = NoLink
    OBVIOUS
<1>2. /\ link' = [link EXCEPT ![c] = k] /\ link[c].prx = "closed" /\ sfd' = [sfd EXCEPT ![i] = Closed]
      /\ UnchangedProxy /\ acc' = acc /\ sbuf' = sbuf /\ got' = got /\ left' = left
    BY <1>1 DEF RecvDataEnd
<1>3. c \in Conn /\ LinkOk(link[c]) /\ sfd[i] # Closed
    BY <1>1, ServerFacts DEF RecvDataEnd
<1>4. k \in LinkT /\ LinkOk(k) /\ k.prx = link[c].prx /\ k.up = link[c].up /\ k.srv = FALSE
    BY <1>1, <1>2, <1>3, NoLinkFields DEF LinkOk
<1>5. /\ got \in [Id -> Seq(M)] /\ sbuf \in [Id -> Seq(M)] /\ (\A j \in Id : Len(sbuf[j]) <= BufCap)
      /\ left \in LeftT /\ left.msgs <= Budget.msgs
    BY ServerFacts
<1> QED BY <1>1, <1>2, <1>3, <1>4, <1>5, OwnLinkBase

LEMMA ExitBase == ASSUME Base, NEW i \in Id, Exit(i) PROVE Base'
<1>1. PICK c, k, none : c = sfd[i] /\ k = ServerEndClosed(link[c]) /\ none = <<>>
    OBVIOUS
<1>2. /\ link' = [link EXCEPT ![c] = k] /\ sfd' = [sfd EXCEPT ![i] = Closed] /\ sbuf' = [sbuf EXCEPT ![i] = none]
      /\ UnchangedProxy /\ acc' = acc /\ got' = got /\ left' = [left EXCEPT !.exits = @ - 1]
    BY <1>1 DEF Exit
<1>3. c \in Conn /\ link[c] \in LinkT /\ LinkOk(link[c]) /\ sfd[i] # Closed
    BY <1>1, ServerFacts DEF Exit
<1>4. k \in LinkT /\ LinkOk(k) /\ k.prx = link[c].prx /\ k.up = link[c].up /\ k.srv = FALSE
    BY <1>1, <1>3, ServerEndFields
<1>5. /\ got \in [Id -> Seq(M)] /\ sbuf \in [Id -> Seq(M)] /\ (\A j \in Id : Len(sbuf[j]) <= BufCap)
      /\ left \in LeftT /\ left.msgs <= Budget.msgs /\ none \in Seq(M) /\ Len(none) <= BufCap
    BY <1>1, ServerFacts, CenterSizes
<1>6. left' \in LeftT /\ left'.msgs <= Budget.msgs
    <2>1. left \in LeftT /\ left' = [left EXCEPT !.exits = @ - 1]
        BY <1>2, <1>5
    <2>2. left' \in LeftT /\ left'.msgs = left.msgs
        BY <2>1 DEF LeftT
    <2> QED BY <1>5, <2>2
<1>7. sbuf' \in [Id -> Seq(M)] /\ \A j \in Id : Len(sbuf'[j]) <= BufCap
    BY <1>2, <1>5
<1> QED BY <1>1, <1>2, <1>3, <1>4, <1>5, <1>6, <1>7, OwnLinkBase

\* A connection that only notes a reset.
LEMMA ResetState ==
    ASSUME Base, NEW c \in Conn, ResetArrives(c), NEW k, k = [link[c] EXCEPT !.rst = TRUE]
    PROVE  /\ k \in LinkT /\ LinkOk(k) /\ link' = [link EXCEPT ![c] = k] /\ k.prx = link[c].prx /\ k.up = link[c].up
           /\ k.srv = link[c].srv /\ k.own = link[c].own /\ k.down = link[c].down
<1>1. link[c] \in LinkT /\ LinkOk(link[c]) /\ 0 \in Id
    BY ServerFacts, CenterSizes
<1>2. /\ k \in LinkT /\ k.prx = link[c].prx /\ k.up = link[c].up /\ k.srv = link[c].srv /\ k.own = link[c].own
      /\ k.down = link[c].down /\ k.pos = link[c].pos
    BY <1>1 DEF LinkT
<1>3. LinkOk(k)
    BY <1>1, <1>2 DEF LinkOk
<1>4. link' = [link EXCEPT ![c] = k]
    BY DEF ResetArrives
<1> QED BY <1>2, <1>3, <1>4

LEMMA ResetArrivesBase == ASSUME Base, NEW c \in Conn, ResetArrives(c) PROVE Base'
<1>1. PICK k : k = [link[c] EXCEPT !.rst = TRUE]
    OBVIOUS
<1>2. /\ k \in LinkT /\ LinkOk(k) /\ link' = [link EXCEPT ![c] = k] /\ k.prx = link[c].prx /\ k.up = link[c].up
      /\ k.srv = link[c].srv /\ k.own = link[c].own
    BY <1>1, ResetState
<1>3. /\ UnchangedProxy /\ acc' = acc /\ sfd' = sfd /\ sbuf' = sbuf /\ got' = got /\ batch' = batch
      /\ left' = [left EXCEPT !.rsts = @ - 1]
    BY DEF ResetArrives, UnchangedProxy
<1>4. /\ got \in [Id -> Seq(M)] /\ sbuf \in [Id -> Seq(M)] /\ (\A j \in Id : Len(sbuf[j]) <= BufCap) /\ acc \in Seq(Conn)
      /\ left \in LeftT /\ left.msgs <= Budget.msgs /\ sfd \in [Id -> Conn \cup {Closed}] /\ link \in [Conn -> LinkT]
    BY ServerFacts, CenterSizes
<1>5. left' \in LeftT /\ left'.msgs <= Budget.msgs
    <2>1. left \in LeftT /\ left' = [left EXCEPT !.rsts = @ - 1]
        BY <1>3, <1>4
    <2>2. left' \in LeftT /\ left'.msgs = left.msgs
        BY <2>1 DEF LeftT
    <2> QED BY <1>4, <2>2
<1>6. link[c].prx = "open" => k.prx = "open" /\ (link[c].up # <<>> => k.up # <<>> /\ Head(k.up) = Head(link[c].up))
    BY <1>2
<1>7. Typed' /\ Sockets(PxState)' /\ Casting' /\ Pos' = Pos
    BY <1>2, <1>3, <1>4, <1>5, <1>6, ServerMoves
<1>8. \A d \in Conn : link'[d].srv = link[d].srv /\ link'[d].own = link[d].own /\ link'[d].prx = link[d].prx
    BY <1>2, <1>4
<1>9. LinksKept /\ EndsKept
    BY <1>8 DEF LinksKept, EndsKept, Kept
<1>10. Held' /\ Waiting'
    BY <1>3, <1>9, HeldKept, WaitingKept DEF Base
<1> QED BY <1>7, <1>10 DEF Base

\* Every step keeps what holds whatever happens.
LEMMA NextBase == ASSUME Base, [Next]_vars PROVE Base'
<1>1. CASE ProxyStep
    <2>1. ASSUME AcceptConnectDies \/ DoTransferDies PROVE Base'
        <3>1. left \in LeftT /\ Start(left)
            BY <2>1 DEF AcceptConnectDies, DoTransferDies, Base, Typed
        <3> QED BY <3>1, StartBase
    <2> QED BY <1>1, <2>1, EpollWaitBase, AcceptConnectNoSlotBase, AcceptFailsBase, AcceptConnectLateBase, AcceptConnectBase,
               EpollErrBase, EpollInBase, DoTransferBase, DoTransferDropsBase, RecvEndBase DEF ProxyStep
<1>2. CASE Restart
    <2>1. PICK l : l = [left EXCEPT !.kills = @ - 1]
        OBVIOUS
    <2>2. left \in LeftT
        BY DEF Base, Typed
    <2>3. l \in LeftT /\ l.msgs = left.msgs /\ Start(l)
        BY <1>2, <2>1, <2>2 DEF LeftT, Restart
    <2> QED BY <2>3, StartBase
<1>3. CASE \E i \in Id : ServerStep(i) \/ RegisterFails(i) \/ SendMessageToCenter(i) \/ Exit(i)
    BY <1>3, CheckConnectDials, RegisterFailsDials, DialBase, RecvDataBase, RecvDataEndBase, SendMessageBase, ExitBase DEF ServerStep
<1>4. CASE \E c \in Conn : ResetArrives(c)
    BY <1>4, ResetArrivesBase
<1>5. CASE UNCHANGED vars
    <2>1. PxState' = PxState /\ Pos' = Pos
        BY <1>5, SocketsIdle DEF vars
    <2>2. Typed' /\ Sockets(PxState)' /\ Held'
        BY <1>5, <2>1 DEF vars, Base, Typed, Held
    <2>3. Waiting'
        BY <1>5 DEF vars, Base, Waiting, Listener
    <2>4. Casting'
        BY <1>5, <2>1 DEF vars, Base, Casting, Reading, HasInput, Cur, Registered
    <2> QED BY <2>2, <2>3, <2>4 DEF Base
<1> QED BY <1>1, <1>2, <1>3, <1>4, <1>5 DEF Next

-----------------------------------------------------------------------------
(* Until sockets are mixed up: whose a position and a message is.          *)

\* A connection of which nothing more is open, or under way to its server.
LinkLess(l, k) ==
    /\ k.prx = "open" => l.prx = "open" /\ k.own = l.own
    /\ l.prx = "open" => k.prx = "open"
    /\ Range(k.down) \subseteq Range(l.down) /\ (Range(k.down) # {} => k.own = l.own)
LinksLess(st, s) == \A c \in Conn : LinkLess(st.link[c], s.link[c])
SameSlots(st, s) == s.slot = st.slot /\ s.free = st.free /\ s.zero = st.zero

\* A socket in use keeps what it stands for as long as descriptor 0 does, if that
\* is a connection.
LEMMA OwnFd ==
    ASSUME NEW st, NEW s, NEW i, NEW q, OwnSlot(st, i, q), s.slot[q].fd = st.slot[q].fd,
           st.slot[q].fd = 0 /\ st.zero \in Conn => s.zero = st.zero
    PROVE  /\ Denotes(s, q) = Denotes(st, q) /\ (st.slot[q].fd = 0 => st.zero \in Conn)
           /\ st.slot[q].fd = Closed => Denotes(st, q) = Closed
<1>1. Closed # 0
    BY CenterSizes
<1> QED BY <1>1 DEF OwnSlot, Denotes

\* Two servers' sockets stand for two connections.
LEMMA OwnFds ==
    ASSUME NEW st, NEW i, NEW j, NEW p, NEW q, OwnSlot(st, i, p), OwnSlot(st, j, q), i # j, Denotes(st, p) \in Conn
    PROVE  Denotes(st, q) # Denotes(st, p)
<1>1. Closed # 0 /\ Closed \notin Conn
    BY CenterSizes
<1> QED BY <1>1 DEF OwnSlot, Denotes

LEMMA SteadyLess ==
    ASSUME NEW P, NEW st \in St(P), NEW s \in St(P), NEW sv \in [Id -> P \cup {NULL}],
           Steady(st, sv), Sockets(st), SameSlots(st, s), LinksLess(st, s)
    PROVE  Steady(s, sv)
<1>1. s.slot = st.slot /\ s.free = st.free /\ s.zero = st.zero /\ DOMAIN st.slot = P
    BY DEF SameSlots, St
<1>2. FreeOnce(st) /\ OneEach(sv) /\ FreeOrNamed(st, sv)
    BY DEF Steady
<1>3. FreeOnce(s) /\ FreeOrNamed(s, sv)
    BY <1>1, <1>2 DEF FreeOnce, FreeOrNamed
<1>4. \A q : Denotes(s, q) = Denotes(st, q)
    BY <1>1 DEF Denotes
<1>5. OwnSlots(s, sv)
    <2> SUFFICES ASSUME NEW i \in Id, sv[i] # NULL PROVE OwnSlot(s, i, sv[i])
        BY DEF OwnSlots
    <2>1. OwnSlot(st, i, sv[i]) /\ sv[i] \in P
        BY DEF Steady, OwnSlots
    <2>2. PICK d : d = Denotes(st, sv[i])
        OBVIOUS
    <2>3. ASSUME d \in Conn, st.link[d].own = i PROVE s.link[d].own = i
        <3>1. st.link[d].prx = "open"
            BY <2>1, <2>2, <2>3, DenotesOpen
        <3> QED BY <2>3, <3>1 DEF LinksLess, LinkLess
    <2> QED BY <1>1, <1>4, <2>1, <2>2, <2>3 DEF OwnSlot
<1>6. OpenNamed(s, sv)
    <2> SUFFICES ASSUME NEW c \in Conn, s.link[c].prx = "open"
                 PROVE  sv[s.link[c].own] # NULL /\ Denotes(s, sv[s.link[c].own]) = c
        BY DEF OpenNamed
    <2>1. st.link[c].prx = "open" /\ s.link[c].own = st.link[c].own
        BY DEF LinksLess, LinkLess
    <2> QED BY <1>4, <2>1 DEF Steady, OpenNamed
<1>7. OwnDown(s)
    BY DEF Steady, OwnDown, LinksLess, LinkLess
<1> QED BY <1>2, <1>3, <1>5, <1>6, <1>7 DEF Steady

\* Messages for server i are kept at its position, or sent over its socket.
Fed(st, s, i, p) ==
    /\ s.free = st.free /\ s.zero = st.zero /\ s.slot[p].fd = st.slot[p].fd
    /\ (\A m \in Range(s.slot[p].back) : Dest(m) = i)
    /\ (\A q \in DOMAIN st.slot : q # p => s.slot[q] = st.slot[q])
    /\ \A c \in Conn : /\ s.link[c].prx = st.link[c].prx /\ s.link[c].own = st.link[c].own
                       /\ \A m \in Range(s.link[c].down) : Dest(m) = st.link[c].own

LEMMA SteadyFed ==
    ASSUME NEW P, NEW st \in St(P), NEW s \in St(P), NEW sv \in [Id -> P \cup {NULL}], NEW i \in Id, NEW p \in P, 0 \notin P,
           sv[i] = p, Steady(st, sv), Fed(st, s, i, p)
    PROVE  Steady(s, sv)
<1>1. s.free = st.free /\ s.zero = st.zero /\ DOMAIN st.slot = P /\ DOMAIN s.slot = P
    BY DEF Fed, St
<1>2. \A q \in P : s.slot[q].fd = st.slot[q].fd /\ (q # p => s.slot[q] = st.slot[q])
    BY <1>1 DEF Fed
<1>3. FreeOnce(st) /\ OneEach(sv) /\ FreeOrNamed(st, sv)
    BY DEF Steady
<1>4. Named(sv, p) /\ NULL \notin P
    BY CenterSizes DEF Named
<1>5. FreeOnce(s) /\ FreeOrNamed(s, sv)
    BY <1>1, <1>2, <1>3, <1>4 DEF FreeOnce, FreeOrNamed
<1>9. \A q \in P : Denotes(s, q) = Denotes(st, q)
    BY <1>1, <1>2 DEF Denotes
<1>6. OwnSlots(s, sv)
    <2> SUFFICES ASSUME NEW j \in Id, sv[j] # NULL PROVE OwnSlot(s, j, sv[j])
        BY DEF OwnSlots
    <2>1. OwnSlot(st, j, sv[j]) /\ sv[j] \in P
        BY DEF Steady, OwnSlots
    <2>2. \A m \in Range(s.slot[sv[j]].back) : Dest(m) = j
        <3>1. CASE j = i
            BY <3>1 DEF Fed
        <3>2. CASE j # i
            <4>1. sv[j] # p
                BY <1>3, <3>2 DEF OneEach
            <4> QED BY <1>2, <2>1, <4>1 DEF OwnSlot
        <3> QED BY <3>1, <3>2
    <2> QED BY <1>2, <1>9, <2>1, <2>2 DEF OwnSlot, Fed
<1>7. OpenNamed(s, sv)
    <2> SUFFICES ASSUME NEW c \in Conn, s.link[c].prx = "open"
                 PROVE  sv[s.link[c].own] # NULL /\ Denotes(s, sv[s.link[c].own]) = c
        BY DEF OpenNamed
    <2>1. st.link[c].prx = "open" /\ s.link[c].own = st.link[c].own /\ st.link[c].own \in Id
        BY DEF Fed, St, LinkT
    <2>2. sv[st.link[c].own] # NULL /\ Denotes(st, sv[st.link[c].own]) = c
        BY <2>1 DEF Steady, OpenNamed
    <2>3. sv[st.link[c].own] \in P
        BY <2>1, <2>2
    <2> QED BY <1>9, <2>1, <2>2, <2>3
<1>8. OwnDown(s)
    BY DEF OwnDown, Fed
<1> QED BY <1>3, <1>5, <1>6, <1>7, <1>8 DEF Steady

\* A server's socket is given up.
LEMMA SteadyDisconn ==
    ASSUME NEW P, NEW st \in St(P), NEW sv \in [Id -> P \cup {NULL}], NEW i \in Id, NEW p \in P, 0 \notin P,
           sv[i] = p, Sockets(st), Steady(st, sv)
    PROVE  Steady(SocketDisconn(st, p), sv)
<1>1. PICK s : s = SocketDisconn(st, p)
    OBVIOUS
<1>2. LinksOk(st) /\ FdsOpen(st)
    BY DEF Sockets
<1>3. /\ s \in St(P) /\ s.slot[p].fd = Closed /\ s.slot[p].back = st.slot[p].back /\ s.free = st.free
      /\ \A q \in P : q # p => s.slot[q] = st.slot[q]
      /\ s.zero = CloseFd(st, p).zero /\ s.link = CloseFd(st, p).link
    BY <1>1, <1>2, DisconnFields
<1>4. FreeOnce(st) /\ OneEach(sv) /\ FreeOrNamed(st, sv)
    BY DEF Steady
<1>5. Named(sv, p) /\ NULL \notin P /\ Closed # 0 /\ Closed \notin Conn /\ DOMAIN st.slot = P /\ DOMAIN s.slot = P
    BY <1>3, CenterSizes DEF Named, St
<1>6. PICK d : d = Denotes(st, p)
    OBVIOUS
<1>7. OwnSlot(st, i, p)
    BY <1>5 DEF Steady, OwnSlots
<1>9. /\ s.zero = IF st.slot[p].fd = 0 THEN Closed ELSE st.zero
      /\ \A c \in Conn : s.link[c] = IF c = d THEN ProxyEndClosed(st.link[c]) ELSE st.link[c]
    BY <1>2, <1>3, <1>6, CloseFdFields
<1>8. ASSUME NEW j \in Id, sv[j] # NULL, sv[j] # p
      PROVE  /\ s.slot[sv[j]] = st.slot[sv[j]] /\ Denotes(s, sv[j]) = Denotes(st, sv[j])
             /\ Denotes(st, sv[j]) \in Conn => Denotes(st, sv[j]) # d
    <2>1. OwnSlot(st, j, sv[j]) /\ sv[j] \in P /\ j # i /\ s.slot[sv[j]] = st.slot[sv[j]]
        BY <1>3, <1>8 DEF Steady, OwnSlots
    <2>2. Denotes(st, sv[j]) \in Conn => Denotes(st, sv[j]) # d
        BY <1>6, <1>7, <2>1, OwnFds
    <2>3. ASSUME st.slot[sv[j]].fd = 0, st.zero \in Conn PROVE s.zero = st.zero
        <3>1. Denotes(st, sv[j]) = st.zero
            BY <2>3 DEF Denotes
        <3>2. st.slot[p].fd # 0
            BY <1>6, <2>2, <2>3, <3>1 DEF Denotes
        <3> QED BY <1>9, <3>2
    <2>4. Denotes(s, sv[j]) = Denotes(st, sv[j])
        BY <2>1, <2>3, OwnFd
    <2> QED BY <2>1, <2>2, <2>4
<1>10. FreeOnce(s) /\ FreeOrNamed(s, sv)
    BY <1>3, <1>4, <1>5 DEF FreeOnce, FreeOrNamed
<1>11. st.link \in [Conn -> LinkT] /\ \A c \in Conn : LinkOk(st.link[c])
    BY <1>2 DEF St, LinksOk
<1>12. \A c \in Conn : /\ s.link[c].down = st.link[c].down /\ (s.link[c].prx = "open" => c # d /\ s.link[c] = st.link[c])
                       /\ (s.link[c].own = st.link[c].own \/ s.link[c].down = <<>>)
    <2> SUFFICES ASSUME NEW c \in Conn
                 PROVE  /\ s.link[c].down = st.link[c].down /\ (s.link[c].prx = "open" => c # d /\ s.link[c] = st.link[c])
                        /\ (s.link[c].own = st.link[c].own \/ s.link[c].down = <<>>)
        OBVIOUS
    <2>1. CASE c # d
        BY <1>9, <2>1
    <2>2. CASE c = d
        <3>1. PICK k : k = ProxyEndClosed(st.link[c])
            OBVIOUS
        <3>2. /\ s.link[c] = k /\ k.prx = "closed" /\ k.down = st.link[c].down
              /\ (st.link[c].srv => k.own = st.link[c].own) /\ k.srv = st.link[c].srv /\ LinkOk(k)
            BY <1>9, <1>11, <2>2, <3>1, ProxyEndFields
        <3> QED BY <3>2 DEF LinkOk
    <2> QED BY <2>1, <2>2
<1>13. OwnSlots(s, sv)
    <2> SUFFICES ASSUME NEW j \in Id, sv[j] # NULL PROVE OwnSlot(s, j, sv[j])
        BY DEF OwnSlots
    <2>1. OwnSlot(st, j, sv[j]) /\ sv[j] \in P
        BY DEF Steady, OwnSlots
    <2>2. CASE sv[j] = p
        BY <1>3, <1>5, <2>1, <2>2 DEF OwnSlot
    <2>3. CASE sv[j] # p
        BY <1>8, <1>9, <2>1, <2>3 DEF OwnSlot
    <2> QED BY <2>2, <2>3
<1>14. OpenNamed(s, sv)
    <2> SUFFICES ASSUME NEW c \in Conn, s.link[c].prx = "open"
                 PROVE  sv[s.link[c].own] # NULL /\ Denotes(s, sv[s.link[c].own]) = c
        BY DEF OpenNamed
    <2>1. c # d /\ s.link[c] = st.link[c] /\ st.link[c].own \in Id
        BY <1>11, <1>12 DEF LinkT
    <2>2. sv[st.link[c].own] # NULL /\ Denotes(st, sv[st.link[c].own]) = c
        BY <2>1 DEF Steady, OpenNamed
    <2>3. sv[st.link[c].own] # p /\ sv[st.link[c].own] \in P
        BY <1>6, <2>1, <2>2
    <2> QED BY <1>8, <2>1, <2>2, <2>3
<1>15. OwnDown(s)
    <2> SUFFICES ASSUME NEW c \in Conn, NEW m \in Range(s.link[c].down) PROVE Dest(m) = s.link[c].own
        BY DEF OwnDown
    <2>1. s.link[c].own = st.link[c].own
        BY <1>12, NoMessages
    <2> QED BY <1>12, <2>1 DEF Steady, OwnDown
<1> QED BY <1>1, <1>4, <1>10, <1>13, <1>14, <1>15 DEF Steady

\* What sending does to the messages: r.out goes to server i, r.back is kept.
Flow(st, s, i, p, r) ==
    /\ (\A q \in DOMAIN st.slot : q # p => s.slot[q] = st.slot[q]) /\ s.slot[p].back = r.back
    /\ \A c \in Conn : /\ s.link[c].own = st.link[c].own \/ s.link[c].down = <<>>
                       /\ \/ s.link[c].down = st.link[c].down
                          \/ st.link[c].own = i /\ s.link[c].down = st.link[c].down \o r.out
ForOne(r, i) == \A m \in Range(r.out) \cup Range(r.back) : Dest(m) = i

LEMMA PutSteady ==
    ASSUME NEW P, NEW st \in St(P), NEW sv \in [Id -> P \cup {NULL}], NEW i \in Id, NEW p \in P, 0 \notin P,
           sv[i] = p, Sockets(st), Steady(st, sv), NEW r \in ResultT, Len(r.back) <= BufCap, ForOne(r, i)
    PROVE  Steady(Put(st, p, r), sv) /\ Flow(st, Put(st, p, r), i, p, r)
<1>1. PICK t, d : t = Put(st, p, r) /\ d = Denotes(st, p)
    OBVIOUS
<1>2. SentFrom(P, st, p, t, r.back) /\ t.zero = st.zero /\ t.slot[p].fd = st.slot[p].fd
    BY <1>1, PutKeeps
<1>3. \A c \in Conn : t.link[c] = IF c = d THEN Downwards(st.link[c], r.out) ELSE st.link[c]
    BY <1>1, PutKeeps
<1>4. st.link \in [Conn -> LinkT] /\ (\A c \in Conn : LinkOk(st.link[c])) /\ DOMAIN st.slot = P /\ r.out \in Seq(M)
    BY DEF St, Sockets, LinksOk, ResultT
<1>5. OwnSlot(st, i, p)
    BY CenterSizes DEF Steady, OwnSlots
<1>6. d \in Conn => st.link[d].own = i
    BY <1>1, <1>5, CenterSizes DEF OwnSlot, Denotes
<1>7. d \in Conn => st.link[d].prx = "open"
    BY <1>1, DenotesOpen
<1>8. ASSUME NEW c \in Conn
      PROVE  /\ t.link[c].prx = st.link[c].prx /\ t.link[c].own = st.link[c].own
             /\ \/ t.link[c].down = st.link[c].down
                \/ st.link[c].own = i /\ t.link[c].down = st.link[c].down \o r.out
    <2>1. CASE c # d
        BY <1>3, <2>1
    <2>2. CASE c = d
        <3>1. PICK k : k = Downwards(st.link[c], r.out)
            OBVIOUS
        <3>2. st.link[c] \in LinkT /\ LinkOk(st.link[c]) /\ st.link[c].prx = "open" /\ st.link[c].own = i
            BY <1>4, <1>6, <1>7, <2>2
        <3>3. k.prx = "open" /\ k.own = st.link[c].own /\ k.down = IF st.link[c].srv THEN st.link[c].down \o r.out ELSE st.link[c].down
            BY <1>4, <3>1, <3>2, DownwardsFields
        <3> QED BY <1>3, <2>2, <3>1, <3>2, <3>3
    <2> QED BY <2>1, <2>2
<1>9. ASSUME NEW c \in Conn, NEW m \in Range(t.link[c].down) PROVE Dest(m) = st.link[c].own
    <2>1. \A x \in Range(st.link[c].down) : Dest(x) = st.link[c].own
        BY DEF Steady, OwnDown
    <2>2. CASE t.link[c].down = st.link[c].down
        BY <1>9, <2>1, <2>2
    <2>3. CASE st.link[c].own = i /\ t.link[c].down = st.link[c].down \o r.out
        <3>1. st.link[c].down \in Seq(M)
            BY <1>4 DEF LinkT
        <3>2. m \in Range(st.link[c].down) \cup Range(r.out)
            BY <1>4, <1>9, <2>3, <3>1, RangeConcat
        <3> QED BY <2>1, <2>3, <3>2 DEF ForOne
    <2> QED BY <1>8, <2>2, <2>3
<1>10. \A m \in Range(t.slot[p].back) : Dest(m) = i
    BY <1>2 DEF SentFrom, ForOne
<1>11. Fed(st, t, i, p)
    BY <1>2, <1>4, <1>8, <1>9, <1>10 DEF Fed, SentFrom
<1>12. t \in St(P)
    BY <1>2 DEF SentFrom
<1>13. Steady(t, sv)
    BY <1>11, <1>12, SteadyFed
<1>14. Flow(st, t, i, p, r)
    BY <1>2, <1>4, <1>8 DEF Flow, SentFrom
<1> QED BY <1>1, <1>13, <1>14

\* Giving up a socket leaves the messages alone.
LEMMA DisconnDown ==
    ASSUME NEW P, NEW st \in St(P), NEW p \in P, LinksOk(st), NEW c \in Conn
    PROVE  /\ SocketDisconn(st, p).link[c].down = st.link[c].down
           /\ SocketDisconn(st, p).link[c].own = st.link[c].own \/ SocketDisconn(st, p).link[c].down = <<>>
<1>1. PICK d, k : d = Denotes(st, p) /\ k = SocketDisconn(st, p).link[c]
    OBVIOUS
<1>2. k = IF c = d THEN ProxyEndClosed(st.link[c]) ELSE st.link[c]
    BY <1>1, DisconnFields, CloseFdFields
<1>3. st.link[c] \in LinkT /\ LinkOk(st.link[c])
    BY DEF St, LinksOk
<1>4. /\ ProxyEndClosed(st.link[c]).down = st.link[c].down /\ ProxyEndClosed(st.link[c]).srv = st.link[c].srv
      /\ (st.link[c].srv => ProxyEndClosed(st.link[c]).own = st.link[c].own)
    BY <1>3, ProxyEndFields
<1>5. ~st.link[c].srv => st.link[c].down = <<>>
    BY <1>3 DEF LinkOk
<1> QED BY <1>1, <1>2, <1>4, <1>5

LEMMA AfterSendSteady ==
    ASSUME NEW P, NEW st \in St(P), NEW sv \in [Id -> P \cup {NULL}], NEW i \in Id, NEW p \in P, 0 \notin P,
           sv[i] = p, Sockets(st), Steady(st, sv), NEW r \in ResultT, Len(r.back) <= BufCap, ForOne(r, i)
    PROVE  Steady(AfterSend(st, p, r), sv) /\ Flow(st, AfterSend(st, p, r), i, p, r)
<1>1. PICK t : t = Put(st, p, r)
    OBVIOUS
<1>2. AfterSend(st, p, r) = IF r.how = "error" THEN SocketDisconn(t, p) ELSE t
    BY <1>1, AfterSendKeeps
<1>3. Steady(t, sv) /\ Flow(st, t, i, p, r)
    BY <1>1, PutSteady
<1>4. SentFrom(P, st, p, t, r.back) /\ Sockets(t)
    BY <1>1, PutKeeps
<1>5. t \in St(P) /\ LinksOk(t)
    BY <1>4 DEF SentFrom, Sockets
<1>6. CASE r.how # "error"
    BY <1>2, <1>3, <1>6
<1>7. CASE r.how = "error"
    <2>1. PICK s : s = SocketDisconn(t, p)
        OBVIOUS
    <2>2. Steady(s, sv)
        BY <1>3, <1>4, <1>5, <2>1, SteadyDisconn
    <2>3. s.slot[p].back = t.slot[p].back /\ \A q \in P : q # p => s.slot[q] = t.slot[q]
        BY <1>5, <2>1, DisconnFields
    <2>4. \A c \in Conn : s.link[c].down = t.link[c].down /\ (s.link[c].own = t.link[c].own \/ s.link[c].down = <<>>)
        BY <1>5, <2>1, DisconnDown
    <2>5. DOMAIN st.slot = P
        BY DEF St
    <2>6. Flow(st, s, i, p, r)
        BY <1>3, <2>3, <2>4, <2>5 DEF Flow
    <2> QED BY <1>2, <1>7, <2>1, <2>2, <2>6
<1> QED BY <1>6, <1>7

\* What a send of m from position p, which is server i's, does to the state st.
WentOn(st, s, i, p, m) ==
    \E r \in ResultT : /\ Flow(st, s, i, p, r) /\ Parts(r, Range(st.slot[p].back) \cup {m})
                       /\ Ordered(st.slot[p].back) /\ Below(Range(st.slot[p].back), {m}) => InParts(r)

\* One message for server i.
LEMMA SendOneSteady ==
    ASSUME NEW P, NEW st \in St(P), NEW sv \in [Id -> P \cup {NULL}], NEW i \in Id, NEW p \in P, 0 \notin P,
           sv[i] = p, Sockets(st), Steady(st, sv), NEW m \in M, Dest(m) = i, NEW s \in SendOneData(st, p, m)
    PROVE  Steady(s, sv) /\ WentOn(st, s, i, p, m)
<1>1. PICK back : back = st.slot[p].back
    OBVIOUS
<1>2. back \in Seq(M) /\ Len(back) <= BufCap
    BY <1>1, DenotesType DEF Sockets, BacksFit, SlotT, St
<1>3. \A x \in Range(back) : Dest(x) = i
    BY <1>1, CenterSizes DEF Steady, OwnSlots, OwnSlot
<1>4. CASE st.slot[p].fd = Closed
    <2>1. PICK b, none, r : b = ReserveData(back, m) /\ none = <<>> /\ r = [out |-> none, back |-> b, how |-> "again"]
        OBVIOUS
    <2>2. /\ b \in Seq(M) /\ Len(b) <= BufCap /\ Range(b) \subseteq Range(back) \cup {m}
          /\ Ordered(back) /\ Below(Range(back), {m}) => Ordered(b)
        BY <1>2, <2>1, ReserveFacts
    <2>3. none \in Seq(M) /\ Range(none) = {} /\ Ordered(none)
        BY <2>1, NoMessages
    <2>4. r \in ResultT /\ r.out = none /\ r.back = b
        BY <2>1, <2>2, <2>3 DEF ResultT
    <2>5. s = Backed(st, p, b)
        BY <1>1, <1>4, <2>1 DEF SendOneData, Backed
    <2>6. SentFrom(P, st, p, s, b) /\ s.slot[p].fd = st.slot[p].fd /\ s.zero = st.zero /\ s.link = st.link
        BY <2>2, <2>5, BackedKeeps
    <2>7. Parts(r, Range(back) \cup {m})
        BY <2>2, <2>3, <2>4 DEF Parts
    <2>8. Ordered(back) /\ Below(Range(back), {m}) => InParts(r)
        BY <2>2, <2>3, <2>4 DEF InParts, Below
    <2>9. DOMAIN st.slot = P
        BY DEF St
    <2>10. Flow(st, s, i, p, r)
        BY <2>4, <2>6, <2>9 DEF Flow, SentFrom
    <2>11. Fed(st, s, i, p)
        <3>1. \A x \in Range(s.slot[p].back) : Dest(x) = i
            BY <1>3, <2>2, <2>6 DEF SentFrom
        <3>2. \A c \in Conn : \A x \in Range(st.link[c].down) : Dest(x) = st.link[c].own
            BY DEF Steady, OwnDown
        <3> QED BY <2>6, <2>9, <3>1, <3>2 DEF Fed, SentFrom
    <2>12. Steady(s, sv)
        <3>1. s \in St(P)
            BY <2>6 DEF SentFrom
        <3> QED BY <2>11, <3>1, SteadyFed
    <2>13. WentOn(st, s, i, p, m)
        BY <1>1, <2>4, <2>7, <2>8, <2>10 DEF WentOn
    <2> QED BY <2>12, <2>13
<1>5. CASE st.slot[p].fd # Closed
    <2>1. PICK hows : hows = Hows(st, p)
        OBVIOUS
    <2>2. hows \in SUBSET {"sent", "again", "error"}
        BY <2>1, HowsType
    <2>3. PICK r \in Sends(back, m, hows) : s = AfterSend(st, p, r)
        BY <1>1, <1>5, <2>1 DEF SendOneData
    <2>4. r \in ResultT /\ Parts(r, Range(back) \cup {m}) /\ (Ordered(back) /\ Below(Range(back), {m}) => InParts(r))
        BY <1>2, <2>2, SendsFacts
    <2>5. Len(r.back) <= BufCap /\ ForOne(r, i)
        BY <1>3, <2>4 DEF Parts, ForOne
    <2>6. Steady(s, sv) /\ Flow(st, s, i, p, r)
        BY <2>3, <2>4, <2>5, AfterSendSteady
    <2>7. WentOn(st, s, i, p, m)
        BY <1>1, <2>4, <2>6 DEF WentOn
    <2> QED BY <2>6, <2>7
<1> QED BY <1>4, <1>5

-----------------------------------------------------------------------------
(* Until then, too: the order of what has left the senders.                *)

LEMMA InPassed ==
    ASSUME NEW P, NEW st \in St(P)
    PROVE  \A m : m \in Passed(st) <=> \/ \E i \in Id : m \in Range(got[i])
                                       \/ \E c \in Conn : m \in Range(st.link[c].down)
                                       \/ \E p \in P : m \in Range(st.slot[p].back)
<1>1. DOMAIN st.slot = P
    BY DEF St
<1> QED BY <1>1 DEF Passed

\* Sending keeps the order, if what is new comes after all the server has got.
LEMMA DownstreamFlow ==
    ASSUME NEW P, NEW st \in St(P), NEW s \in St(P), NEW sv \in [Id -> P \cup {NULL}], NEW i \in Id, NEW p \in P, 0 \notin P,
           sv[i] = p, OneEach(sv), Downstream(st, sv), NEW r \in ResultT, Flow(st, s, i, p, r), NEW X,
           Parts(r, Range(st.slot[p].back) \cup X), InParts(r), Below(Range(got[i]), X),
           \A c \in Conn : st.link[c].own = i => Below(Range(st.link[c].down), X)
    PROVE  Downstream(s, sv) /\ Passed(s) \subseteq Passed(st) \cup X
<1>1. PICK back : back = st.slot[p].back
    OBVIOUS
<1>2. /\ DOMAIN st.slot = P /\ DOMAIN s.slot = P /\ p # NULL /\ r.out \in Seq(M) /\ r.back \in Seq(M)
      /\ \A c \in Conn : st.link[c].down \in Seq(M)
    BY CenterSizes DEF St, ResultT, LinkT
<1>3. Range(r.out) \subseteq Range(back) \cup X /\ Range(r.back) \subseteq Range(back) \cup X
    BY <1>1 DEF Parts
<1>4. Ordered(r.out) /\ Ordered(r.back) /\ Below(Range(r.out), Range(r.back))
    BY DEF InParts
<1>5. /\ s.slot[p].back = r.back /\ \A q \in P : q # p => s.slot[q] = st.slot[q]
    BY <1>2 DEF Flow
<1>6. Below(Range(got[i]), Range(r.out)) /\ Below(Range(got[i]), Range(r.back))
    <2>1. Below(Range(got[i]), Range(back))
        BY <1>1, <1>2 DEF Downstream
    <2> QED BY <1>3, <2>1 DEF Below
<1>7. \A c \in Conn : st.link[c].own = i =>
          Below(Range(st.link[c].down), Range(r.out)) /\ Below(Range(st.link[c].down), Range(r.back))
    <2> SUFFICES ASSUME NEW c \in Conn, st.link[c].own = i
                 PROVE  Below(Range(st.link[c].down), Range(r.out)) /\ Below(Range(st.link[c].down), Range(r.back))
        OBVIOUS
    <2>1. Below(Range(st.link[c].down), Range(back))
        BY <1>1, <1>2 DEF Downstream
    <2>2. Below(Range(st.link[c].down), X)
        OBVIOUS
    <2> QED BY <1>3, <2>1, <2>2 DEF Below
<1>8. \A c \in Conn : Ordered(st.link[c].down) /\ Below(Range(got[st.link[c].own]), Range(st.link[c].down))
    BY DEF Downstream
<1>9. ASSUME NEW c \in Conn
      PROVE  \/ s.link[c].down = <<>>
             \/ s.link[c].own = st.link[c].own /\ s.link[c].down = st.link[c].down
             \/ s.link[c].own = i /\ st.link[c].own = i /\ s.link[c].down = st.link[c].down \o r.out
    BY DEF Flow
<1>10. ASSUME NEW c \in Conn, st.link[c].own = i
       PROVE  /\ Ordered(st.link[c].down \o r.out)
              /\ Range(st.link[c].down \o r.out) = Range(st.link[c].down) \cup Range(r.out)
    <2>1. st.link[c].down \in Seq(M) /\ r.out \in Seq(M)
        BY <1>2
    <2>2. Ordered(st.link[c].down) /\ Ordered(r.out) /\ Below(Range(st.link[c].down), Range(r.out))
        BY <1>4, <1>7, <1>8, <1>10
    <2> QED BY <2>1, <2>2, OrderedConcat, RangeConcat
<1>11. ASSUME NEW c \in Conn
       PROVE  /\ Ordered(s.link[c].down) /\ Below(Range(got[s.link[c].own]), Range(s.link[c].down))
              /\ Range(s.link[c].down) \subseteq Range(st.link[c].down) \cup Range(r.out)
    <2>1. CASE s.link[c].down = <<>>
        BY <2>1, NoMessages DEF Below
    <2>2. CASE s.link[c].own = st.link[c].own /\ s.link[c].down = st.link[c].down
        BY <1>8, <2>2
    <2>3. CASE s.link[c].own = i /\ st.link[c].own = i /\ s.link[c].down = st.link[c].down \o r.out
        <3>1. /\ Ordered(s.link[c].down) /\ Range(s.link[c].down) = Range(st.link[c].down) \cup Range(r.out)
            BY <1>10, <2>3
        <3>2. Below(Range(got[i]), Range(st.link[c].down))
            BY <1>8, <2>3
        <3> QED BY <1>6, <2>3, <3>1, <3>2 DEF Below
    <2> QED BY <1>9, <2>1, <2>2, <2>3
<1>12. \A q \in P : Ordered(s.slot[q].back)
    BY <1>2, <1>4, <1>5 DEF Downstream
<1>13. ASSUME NEW j \in Id, sv[j] # NULL PROVE Below(Range(got[j]), Range(s.slot[sv[j]].back))
    <2>1. CASE j = i
        BY <1>5, <1>6, <2>1
    <2>2. CASE j # i
        <3>1. sv[j] # p /\ sv[j] \in P
            BY <1>2, <1>13, <2>2 DEF OneEach
        <3> QED BY <1>5, <1>13, <3>1 DEF Downstream
    <2> QED BY <2>1, <2>2
<1>14. ASSUME NEW c \in Conn, sv[s.link[c].own] # NULL
       PROVE  Below(Range(s.link[c].down), Range(s.slot[sv[s.link[c].own]].back))
    <2>1. CASE s.link[c].down = <<>>
        BY <2>1, NoMessages DEF Below
    <2>2. CASE s.link[c].own = st.link[c].own /\ s.link[c].down = st.link[c].down
        <3>1. CASE st.link[c].own = i
            BY <1>5, <1>7, <2>2, <3>1
        <3>2. CASE st.link[c].own # i
            <4>1. st.link[c].own \in Id
                BY DEF St, LinkT
            <4>2. sv[st.link[c].own] # p /\ sv[st.link[c].own] \in P
                BY <1>2, <1>14, <2>2, <3>2, <4>1 DEF OneEach
            <4>3. Below(Range(st.link[c].down), Range(st.slot[sv[st.link[c].own]].back))
                BY <1>14, <2>2 DEF Downstream
            <4> QED BY <1>5, <2>2, <4>2, <4>3
        <3> QED BY <3>1, <3>2
    <2>3. CASE s.link[c].own = i /\ st.link[c].own = i /\ s.link[c].down = st.link[c].down \o r.out
        <3>1. Range(s.link[c].down) = Range(st.link[c].down) \cup Range(r.out)
            BY <1>10, <2>3
        <3>2. Below(Range(st.link[c].down), Range(r.back))
            BY <1>7, <2>3
        <3> QED BY <1>4, <1>5, <2>3, <3>1, <3>2 DEF Below
    <2> QED BY <1>9, <2>1, <2>2, <2>3
<1>15. Downstream(s, sv)
    <2>1. \A j \in Id : Ordered(got[j])
        BY DEF Downstream
    <2> QED BY <1>2, <1>11, <1>12, <1>13, <1>14, <2>1 DEF Downstream
<1>16. Passed(s) \subseteq Passed(st) \cup X
    <2> SUFFICES ASSUME NEW m \in Passed(s) PROVE m \in Passed(st) \cup X
        OBVIOUS
    <2>1. \A x : x \in Range(back) => x \in Passed(st)
        BY <1>1, InPassed
    <2>2. CASE \E j \in Id : m \in Range(got[j])
        BY <2>2, InPassed
    <2>3. CASE \E c \in Conn : m \in Range(s.link[c].down)
        <3>1. PICK c \in Conn : m \in Range(s.link[c].down)
            BY <2>3
        <3>2. m \in Range(st.link[c].down) \cup Range(back) \cup X
            BY <1>3, <1>11, <3>1
        <3> QED BY <2>1, <3>2, InPassed
    <2>4. CASE \E q \in P : m \in Range(s.slot[q].back)
        <3>1. PICK q \in P : m \in Range(s.slot[q].back)
            BY <2>4
        <3>2. m \in Range(st.slot[q].back) \cup Range(back) \cup X
            BY <1>3, <1>5, <3>1
        <3> QED BY <2>1, <3>2, InPassed
    <2> QED BY <2>2, <2>3, <2>4, InPassed
<1> QED BY <1>15, <1>16

\* Backlogs change hands with their server, and messages may go.
Handed(st, s, sv, v) ==
    /\ \A c \in Conn : \/ s.link[c].down = <<>>
                       \/ s.link[c].own = st.link[c].own /\ s.link[c].down = st.link[c].down
    /\ \A q \in DOMAIN s.slot : s.slot[q].back = <<>> \/ \E b \in DOMAIN st.slot : s.slot[q].back = st.slot[b].back
    /\ \A j \in Id : v[j] # NULL => \/ s.slot[v[j]].back = <<>>
                                    \/ sv[j] # NULL /\ s.slot[v[j]].back = st.slot[sv[j]].back

LEMMA DownstreamHanded ==
    ASSUME NEW P, NEW st \in St(P), NEW s \in St(P), NEW sv, NEW v, Downstream(st, sv), Handed(st, s, sv, v)
    PROVE  Downstream(s, v) /\ Passed(s) \subseteq Passed(st)
<1>1. /\ DOMAIN st.slot = P /\ DOMAIN s.slot = P /\ Range(<<>>) = {} /\ Ordered(<<>>)
      /\ \A c \in Conn : s.link[c].own \in Id
    BY NoMessages DEF St, LinkT
<1>2. \A c \in Conn : \/ s.link[c].down = <<>>
                      \/ s.link[c].own = st.link[c].own /\ s.link[c].down = st.link[c].down
    BY DEF Handed
<1>3. \A q \in P : s.slot[q].back = <<>> \/ \E b \in P : s.slot[q].back = st.slot[b].back
    BY <1>1 DEF Handed
<1>4. \A j \in Id : v[j] # NULL => \/ s.slot[v[j]].back = <<>>
                                   \/ sv[j] # NULL /\ s.slot[v[j]].back = st.slot[sv[j]].back
    BY DEF Handed
<1>5. ASSUME NEW c \in Conn PROVE Ordered(s.link[c].down) /\ Below(Range(got[s.link[c].own]), Range(s.link[c].down))
    <2>1. CASE s.link[c].down = <<>>
        BY <1>1, <2>1 DEF Below
    <2>2. CASE s.link[c].own = st.link[c].own /\ s.link[c].down = st.link[c].down
        BY <2>2 DEF Downstream
    <2> QED BY <1>2, <2>1, <2>2
<1>6. \A q \in P : Ordered(s.slot[q].back)
    BY <1>1, <1>3 DEF Downstream
<1>7. ASSUME NEW j \in Id, v[j] # NULL PROVE Below(Range(got[j]), Range(s.slot[v[j]].back))
    <2>1. CASE s.slot[v[j]].back = <<>>
        BY <1>1, <2>1 DEF Below
    <2>2. CASE sv[j] # NULL /\ s.slot[v[j]].back = st.slot[sv[j]].back
        BY <2>2 DEF Downstream
    <2> QED BY <1>4, <1>7, <2>1, <2>2
<1>8. ASSUME NEW c \in Conn, v[s.link[c].own] # NULL
      PROVE  Below(Range(s.link[c].down), Range(s.slot[v[s.link[c].own]].back))
    <2>1. PICK j \in Id : j = s.link[c].own
        BY <1>1
    <2>2. CASE s.link[c].down = <<>> \/ s.slot[v[j]].back = <<>>
        BY <1>1, <2>1, <2>2 DEF Below
    <2>3. CASE j = st.link[c].own /\ s.link[c].down = st.link[c].down /\ sv[j] # NULL /\ s.slot[v[j]].back = st.slot[sv[j]].back
        <3>1. Below(Range(st.link[c].down), Range(st.slot[sv[j]].back))
            BY <2>3 DEF Downstream
        <3> QED BY <2>1, <2>3, <3>1
    <2> QED BY <1>2, <1>4, <1>8, <2>1, <2>2, <2>3
<1>9. Downstream(s, v)
    <2>1. \A j \in Id : Ordered(got[j])
        BY DEF Downstream
    <2> QED BY <1>1, <1>5, <1>6, <1>7, <1>8, <2>1 DEF Downstream
<1>10. Passed(s) \subseteq Passed(st)
    <2> SUFFICES ASSUME NEW m \in Passed(s) PROVE m \in Passed(st)
        OBVIOUS
    <2>1. CASE \E j \in Id : m \in Range(got[j])
        BY <2>1, InPassed
    <2>2. CASE \E c \in Conn : m \in Range(s.link[c].down)
        <3>1. \E c \in Conn : m \in Range(st.link[c].down)
            BY <1>1, <1>2, <2>2
        <3> QED BY <3>1, InPassed
    <2>3. CASE \E q \in P : m \in Range(s.slot[q].back)
        <3>1. \E q \in P : m \in Range(st.slot[q].back)
            BY <1>1, <1>3, <2>3
        <3> QED BY <3>1, InPassed
    <2> QED BY <2>1, <2>2, <2>3, InPassed
<1> QED BY <1>9, <1>10

-----------------------------------------------------------------------------
(* Until then, too: the order of what the proxy has not read.              *)

LEMMA InPending ==
    \A m : m \in Pending <=> \/ \E c \in Conn : m \in Range(link[c].up)
                             \/ \E i \in Id : m \in Range(sbuf[i])
BY DEF Pending

\* Connection c is no younger, and nothing is left to read of it that was not.
NoYounger(c, l, k) ==
    /\ k.prx # "closed" => k.own = l.own
    /\ k.prx = "queued" => l.prx = "queued"
    /\ k.prx = "open" => l.prx = "open" \/ (acc # <<>> /\ c = Head(acc))
    /\ k.srv => l.srv
UpLess(c, l, k) ==
    /\ k.up = <<>> \/ (k.own = l.own /\ (k.up = l.up \/ (l.up # <<>> /\ k.up = Tail(l.up))))
    /\ NoYounger(c, l, k)
NoneYounger == \A c \in Conn : NoYounger(c, link[c], link'[c])
UpsLess == \A c \in Conn : UpLess(c, link[c], link'[c])
QueueLess == acc' = acc \/ acc' = <<>> \/ (acc # <<>> /\ acc' = Tail(acc))
BufsLess == \A i \in Id : sbuf'[i] = sbuf[i] \/ sbuf'[i] = <<>>

LEMMA EarlierLess ==
    ASSUME Base, Waiting', NoneYounger, QueueLess,
           NEW c \in Conn, NEW d \in Conn, Earlier(d, c)'
    PROVE  Earlier(d, c)
<1>1. /\ d # c /\ link'[d].own = link'[c].own /\ link'[c].prx = "queued"
      /\ \/ link'[d].prx = "open"
         \/ \E k, l \in 1 .. Len(acc') : k < l /\ acc'[k] = d /\ acc'[l] = c
    BY DEF Earlier
<1>2. link[c].prx = "queued" /\ link'[c].own = link[c].own
    BY <1>1 DEF NoneYounger, NoYounger
<1>3. acc \in Seq(Conn) /\ Len(acc) \in Nat
    BY DEF Base, Typed
<1>4. CASE link'[d].prx = "open"
    <2>1. link'[d].own = link[d].own /\ (link[d].prx = "open" \/ (acc # <<>> /\ d = Head(acc)))
        BY <1>4 DEF NoneYounger, NoYounger
    <2>2. CASE link[d].prx = "open"
        BY <1>1, <1>2, <2>1, <2>2 DEF Earlier
    <2>3. CASE acc # <<>> /\ d = Head(acc)
        <3>1. c \in Range(acc)
            BY <1>2 DEF Base, Waiting
        <3>2. PICK l \in 1 .. Len(acc) : acc[l] = c
            BY <1>3, <3>1, RangeOf
        <3>3. acc[1] = d
            BY <1>3, <2>3
        <3>4. l # 1
            BY <1>1, <3>2, <3>3
        <3>5. 1 \in 1 .. Len(acc) /\ 1 < l
            BY <1>3, <3>2, <3>4
        <3> QED BY <1>1, <1>2, <2>1, <3>2, <3>3, <3>5 DEF Earlier
    <2> QED BY <2>1, <2>2, <2>3
<1>5. CASE \E k, l \in 1 .. Len(acc') : k < l /\ acc'[k] = d /\ acc'[l] = c
    <2>1. PICK k, l \in 1 .. Len(acc') : k < l /\ acc'[k] = d /\ acc'[l] = c
        BY <1>5
    <2>2. link'[d].prx = "queued"
        BY <2>1 DEF Waiting
    <2>3. link'[d].own = link[d].own
        BY <2>2 DEF NoneYounger, NoYounger
    <2>4. CASE acc' = acc
        BY <1>1, <1>2, <2>1, <2>3, <2>4 DEF Earlier
    <2>5. CASE acc # <<>> /\ acc' = Tail(acc)
        <3>1. Len(acc') = Len(acc) - 1 /\ \A j \in 1 .. Len(acc') : acc'[j] = acc[j + 1]
            BY <1>3, <2>5, HeadTailProperties
        <3>2. k + 1 \in 1 .. Len(acc) /\ l + 1 \in 1 .. Len(acc) /\ k + 1 < l + 1
            BY <1>3, <2>1, <3>1
        <3>3. acc[k + 1] = d /\ acc[l + 1] = c
            BY <2>1, <3>1
        <3> QED BY <1>1, <1>2, <2>3, <3>2, <3>3 DEF Earlier
    <2>6. acc' # <<>>
        BY <2>1
    <2> QED BY <2>4, <2>5, <2>6 DEF QueueLess
<1> QED BY <1>1, <1>4, <1>5

\* A part of what is to be read.
LEMMA UpPart ==
    ASSUME NEW c, NEW l \in LinkT, NEW k, UpLess(c, l, k), Ordered(l.up)
    PROVE  Ordered(k.up) /\ Range(k.up) \subseteq Range(l.up) /\ (Range(k.up) # {} => k.own = l.own)
<1>1. l.up \in Seq(M)
    BY DEF LinkT
<1>2. CASE k.up = <<>>
    BY <1>2, NoMessages
<1>3. CASE k.own = l.own /\ k.up = l.up
    BY <1>3
<1>4. CASE k.own = l.own /\ l.up # <<>> /\ k.up = Tail(l.up)
    <2>1. Ordered(Tail(l.up)) /\ Range(Tail(l.up)) \subseteq Range(l.up)
        BY <1>1, <1>4, OrderedTail, RangeTail
    <2> QED BY <1>4, <2>1
<1> QED BY <1>2, <1>3, <1>4 DEF UpLess

LEMMA UpstreamLess ==
    ASSUME Base, Waiting', Upstream, UpsLess, BufsLess, QueueLess
    PROVE  Upstream' /\ Pending' \subseteq Pending
<1>1. link \in [Conn -> LinkT] /\ \A c \in Conn : link[c].own \in Id
    BY PxFields DEF Base, Typed, St, LinkT
<1>2. /\ \A c \in Conn : /\ Ordered(link[c].up) /\ \A m \in Range(link[c].up) : m.src = link[c].own
                         /\ Below(Range(link[c].up), Range(sbuf[link[c].own]))
      /\ \A i \in Id : Ordered(sbuf[i]) /\ \A m \in Range(sbuf[i]) : m.src = i
    BY DEF Upstream
<1>3. \A c \in Conn : /\ Ordered(link'[c].up) /\ Range(link'[c].up) \subseteq Range(link[c].up)
                      /\ Range(link'[c].up) # {} => link'[c].own = link[c].own
    <2> SUFFICES ASSUME NEW c \in Conn
                 PROVE  /\ Ordered(link'[c].up) /\ Range(link'[c].up) \subseteq Range(link[c].up)
                        /\ Range(link'[c].up) # {} => link'[c].own = link[c].own
        OBVIOUS
    <2>1. UpLess(c, link[c], link'[c]) /\ Ordered(link[c].up) /\ link[c] \in LinkT
        BY <1>1, <1>2 DEF UpsLess
    <2> QED BY <2>1, UpPart
<1>4. \A i \in Id : Ordered(sbuf'[i]) /\ Range(sbuf'[i]) \subseteq Range(sbuf[i])
    BY <1>2, NoMessages DEF BufsLess
<1>5. ASSUME NEW c \in Conn
      PROVE  /\ \A m \in Range(link'[c].up) : m.src = link'[c].own
             /\ Below(Range(link'[c].up), Range(sbuf'[link'[c].own]))
    <2>1. CASE Range(link'[c].up) = {}
        BY <2>1 DEF Below
    <2>2. CASE Range(link'[c].up) # {}
        <3>1. link'[c].own = link[c].own /\ link[c].own \in Id
            BY <1>1, <1>3, <2>2
        <3>2. Range(sbuf'[link[c].own]) \subseteq Range(sbuf[link[c].own])
            BY <1>4, <3>1
        <3> QED BY <1>2, <1>3, <3>1, <3>2 DEF Below
    <2> QED BY <2>1, <2>2
<1>6. ASSUME NEW c \in Conn, NEW d \in Conn, Earlier(d, c)'
      PROVE  ~link'[d].srv /\ Below(Range(link'[d].up), Range(link'[c].up))
    <2>1. Earlier(d, c)
        <3>1. NoneYounger
            BY DEF UpsLess, UpLess, NoneYounger
        <3> QED BY <1>6, <3>1, EarlierLess
    <2>2. ~link[d].srv /\ Below(Range(link[d].up), Range(link[c].up))
        BY <2>1 DEF Upstream
    <2>3. link'[d].srv => link[d].srv
        BY DEF UpsLess, UpLess, NoYounger
    <2> QED BY <1>3, <2>2, <2>3 DEF Below
<1>7. Upstream'
    <2>1. \A i \in Id : \A m \in Range(sbuf'[i]) : m.src = i
        BY <1>2, <1>4
    <2> QED BY <1>3, <1>4, <1>5, <1>6, <2>1 DEF Upstream
<1>8. \A m : m \in Pending' <=> \/ \E c \in Conn : m \in Range(link'[c].up)
                                \/ \E i \in Id : m \in Range(sbuf'[i])
    BY DEF Pending
<1> QED BY <1>3, <1>4, <1>7, <1>8, InPending

\* Nothing but X goes on, and all that is left comes after it.
LEMMA BetweenLess ==
    ASSUME Base, left'.msgs \in Nat, left'.msgs <= left.msgs, Between, Numbered, NEW X, X \subseteq Pending,
           Passed(PxState)' \subseteq Passed(PxState) \cup X, Pending' \subseteq Pending, Below(X, Pending'),
           \A m \in Passed(PxState) \cup Pending : m.n \in Nat
    PROVE  Between' /\ Numbered'
<1>1. Budget.msgs \in Nat /\ left.msgs \in Nat
    BY CenterSizes DEF Base, Typed, LeftT
<1>2. Between'
    BY DEF Between, Below
<1>3. Numbered'
    <2> SUFFICES ASSUME NEW m \in Passed(PxState)' \cup Pending' PROVE m.n < Budget.msgs - left'.msgs
        BY DEF Numbered
    <2>1. m \in Passed(PxState) \cup Pending
        OBVIOUS
    <2>2. m.n < Budget.msgs - left.msgs /\ m.n \in Nat
        BY <2>1 DEF Numbered
    <2> QED BY <1>1, <2>2
<1> QED BY <1>2, <1>3

\* All of it is messages.
LEMMA MessageTypes ==
    ASSUME Base PROVE \A m \in Passed(PxState) \cup Pending : m \in M /\ m.n \in Nat
<1>1. PxState \in St(Pos) /\ link \in [Conn -> LinkT] /\ sbuf \in [Id -> Seq(M)] /\ got \in [Id -> Seq(M)]
    BY PxFields DEF Base, Typed, St
<1>2. /\ \A c \in Conn : PxState.link[c].down \in Seq(M) /\ link[c].up \in Seq(M)
      /\ \A p \in Pos : PxState.slot[p].back \in Seq(M)
    BY <1>1, PxFields DEF St, LinkT, SlotT
<1>3. \A q \in Seq(M) : \A m \in Range(q) : m \in M
    BY RangeOf
<1>4. ASSUME NEW m \in Passed(PxState) \cup Pending PROVE m \in M
    <2>1. \/ \E i \in Id : m \in Range(got[i]) \/ m \in Range(sbuf[i])
          \/ \E c \in Conn : m \in Range(PxState.link[c].down) \/ m \in Range(link[c].up)
          \/ \E p \in Pos : m \in Range(PxState.slot[p].back)
        BY <1>1, InPassed, InPending
    <2> QED BY <1>1, <1>2, <1>3, <2>1
<1>5. \A m \in M : m.n \in Nat
    BY CenterSizes DEF M, MsgT
<1> QED BY <1>4, <1>5

\* A step that may hand on the messages X and adds none.
LEMMA MovesOn ==
    ASSUME Base, Waiting', Flowing, NEW s, PxState' = s, NEW v, svrs' = v, got' = got, Downstream(s, v), UpsLess, BufsLess,
           QueueLess, left'.msgs \in Nat, left'.msgs <= left.msgs,
           NEW X, X \subseteq Pending, Passed(s) \subseteq Passed(PxState) \cup X,
           Pending' \subseteq Pending => Below(X, Pending')
    PROVE  Flowing'
<1>1. Upstream' /\ Pending' \subseteq Pending
    BY UpstreamLess DEF Flowing
<1>2. Downstream(PxState, svrs)'
    BY DEF Downstream
<1>3. Passed(PxState)' = Passed(s)
    BY DEF Passed
<1>4. Between' /\ Numbered'
    BY <1>1, <1>3, MessageTypes, BetweenLess DEF Flowing
<1> QED BY <1>1, <1>2, <1>4 DEF Flowing

\* So it is when messages are handed on with their server, at most.
LEMMA HandsOn ==
    ASSUME Base, Base', Flowing, NEW s, s \in St(Pos), PxState' = s, NEW v, svrs' = v, got' = got,
           Handed(PxState, s, svrs, v), UpsLess, BufsLess,
           QueueLess, left'.msgs <= left.msgs
    PROVE  Flowing'
<1>1. PxState \in St(Pos) /\ left'.msgs \in Nat /\ Waiting'
    BY DEF Base, Typed, LeftT
<1>2. Downstream(s, v) /\ Passed(s) \subseteq Passed(PxState)
    BY <1>1, DownstreamHanded DEF Flowing
<1>3. PICK X : X = {}
    OBVIOUS
<1>4. X \subseteq Pending /\ Passed(s) \subseteq Passed(PxState) \cup X /\ Below(X, Pending')
    BY <1>2, <1>3 DEF Below
<1> QED BY <1>1, <1>2, <1>4, MovesOn

\* Nothing of it changes.
LEMMA OrderIdle ==
    ASSUME Base, Base', Placed, Flowing, UNCHANGED <<slot, freeL, svrs, zero, link, sbuf, got, acc>>, left' = left,
           cur' # NULL => Named(svrs, cur')
    PROVE  Placed' /\ Flowing'
<1>1. PxState' = PxState /\ PxState \in St(Pos)
    BY SocketsIdle DEF Base, Typed
<1>2. Handed(PxState, PxState, svrs, svrs)
    BY DEF Handed
<1>3. UpsLess /\ BufsLess
    BY DEF UpsLess, UpLess, NoYounger, BufsLess
<1>4. left'.msgs <= left.msgs /\ QueueLess
    BY DEF Base, Typed, LeftT, QueueLess
<1>5. Flowing'
    BY <1>1, <1>2, <1>3, <1>4, HandsOn
<1>6. Steady(PxState, svrs)' /\ RouteRight'
    BY <1>1 DEF Placed, RouteRight
<1> QED BY <1>5, <1>6 DEF Placed

LEMMA EpollWaitOrder == ASSUME Base, Placed, Flowing, EpollWait PROVE Placed' /\ Flowing'
<1>1. Base' /\ cur' = NULL /\ UNCHANGED <<slot, freeL, svrs, zero, link, sbuf, got, acc>> /\ left' = left
    BY EpollWaitBase DEF EpollWait
<1> QED BY <1>1, OrderIdle

LEMMA AcceptConnectNoSlotOrder == ASSUME Base, Placed, Flowing, AcceptConnectNoSlot PROVE Placed' /\ Flowing'
<1>1. Base' /\ cur' = NULL /\ UNCHANGED <<slot, freeL, svrs, zero, link, sbuf, got, acc>> /\ left' = left
    BY AcceptConnectNoSlotBase DEF AcceptConnectNoSlot, Dealt
<1> QED BY <1>1, OrderIdle

\* An event of a socket that is not free is its server's.
LEMMA EpollInOrder == ASSUME Base, Placed, Flowing, NEW p \in Pos, EpollIn(p), ~stale' PROVE Placed' /\ Flowing'
<1>1. Base' /\ cur' = p /\ UNCHANGED <<slot, freeL, svrs, zero, link, sbuf, got, acc>> /\ left' = left
    BY EpollInBase DEF EpollIn, Dealt
<1>2. \A k \in 1 .. Len(freeL) : freeL[k] # p
    BY DEF EpollIn
<1>3. freeL \in Seq(Pos)
    BY PxFields DEF Base, Typed, St
<1>4. p \notin Range(freeL)
    BY <1>2, <1>3, RangeOf
<1>5. Named(svrs, p)
    BY <1>4, PxFields DEF Placed, Steady, FreeOrNamed, Pos
<1> QED BY <1>1, <1>5, OrderIdle

\* What the proxy does to an accepted connection, and to one it accepts.
LEMMA DidLess ==
    ASSUME NEW c, NEW l, NEW k, LinkOk(l), Did(l, k) PROVE UpLess(c, l, k)
BY DEF LinkOk, Did, UpLess, NoYounger

LEMMA AcceptLess ==
    ASSUME Base, freeL # <<>>, acc # <<>>, AllDid(Accepted, PxState')
    PROVE  UpsLess
<1>1. PICK p, c : p = Head(freeL) /\ c = Head(acc)
    OBVIOUS
<1>2. Typed /\ Sockets(PxState) /\ Waiting /\ link'= PxState'.link
    BY DEF Base, PxState
<1>3. Opened(link[c], p, Accepted.link[c]) /\ \A d \in Conn : d # c => Accepted.link[d] = link[d]
    BY <1>1, <1>2, AcceptedFields
<1>4. \A d \in Conn : LinkOk(link[d]) /\ Did(Accepted.link[d], link'[d])
    BY <1>2, PxFields DEF Sockets, LinksOk, AllDid
<1> SUFFICES ASSUME NEW d \in Conn PROVE UpLess(d, link[d], link'[d])
    BY DEF UpsLess
<1>5. CASE d # c
    BY <1>3, <1>4, <1>5, DidLess
<1>6. CASE d = c
    BY <1>1, <1>3, <1>4, <1>6 DEF Opened, Did, UpLess, NoYounger
<1> QED BY <1>5, <1>6

\* A fresh proxy: all positions are free, and nobody is registered.
LEMMA StartOrder ==
    ASSUME Base, Placed, Flowing, NEW l \in LeftT, l.msgs = left.msgs, Start(l)
    PROVE  Placed' /\ Flowing'
<1>1. /\ Base' /\ Pos' = Pos /\ \A p \in Pos : slot'[p] = Empty
      /\ \A c \in Conn : link'[c] = ProxyEndClosed(link[c])
    BY StartBase
<1>2. PICK s, v : s = PxState' /\ v = svrs'
    OBVIOUS
<1>3. /\ freeL' = [p \in Pos |-> p] /\ zero' = Stdin /\ cur' = NULL /\ acc' = <<>> /\ left' = l
      /\ UNCHANGED <<sbuf, got>> /\ \A i \in Id : v[i] = NULL
    BY <1>2 DEF Start
<1>4. s \in St(Pos) /\ s.slot = slot' /\ s.free = freeL' /\ s.zero = zero' /\ s.link = link' /\ DOMAIN s.slot = Pos
    BY <1>1, <1>2 DEF Base, Typed, St, PxState
<1>5. \A c \in Conn : link[c] \in LinkT /\ LinkOk(link[c])
    BY PxFields DEF Base, Typed, St, Sockets, LinksOk
<1>6. \A c \in Conn : /\ link'[c].prx = "closed" /\ link'[c].up = <<>> /\ link'[c].down = link[c].down
                      /\ (link'[c].srv => link[c].srv) /\ (link[c].srv => link'[c].own = link[c].own)
                      /\ (link'[c].down = <<>> \/ link'[c].own = link[c].own)
    <2> SUFFICES ASSUME NEW c \in Conn
                 PROVE  /\ link'[c].prx = "closed" /\ link'[c].up = <<>> /\ link'[c].down = link[c].down
                        /\ (link'[c].srv => link[c].srv) /\ (link[c].srv => link'[c].own = link[c].own)
                        /\ (link'[c].down = <<>> \/ link'[c].own = link[c].own)
        OBVIOUS
    <2>1. /\ link'[c].prx = "closed" /\ link'[c].up = <<>> /\ link'[c].down = link[c].down
          /\ link'[c].srv = link[c].srv /\ (link[c].srv => link'[c].own = link[c].own)
        BY <1>1, <1>5, ProxyEndFields
    <2>2. ~link[c].srv => link[c].down = <<>>
        BY <1>5 DEF LinkOk
    <2> QED BY <2>1, <2>2
<1>7. Steady(s, v)
    <2>1. \E n \in Nat : Pos = 1 .. n
        BY CenterSizes DEF Base, Typed
    <2>2. freeL' \in Seq(Pos) /\ Len(freeL') \in Nat /\ 1 .. Len(freeL') = Pos /\ NULL \notin Pos
        <3>1. PICK n \in Nat : Pos = 1 .. n
            BY <2>1
        <3> QED BY <1>3, <3>1, CenterSizes
    <2>3. FreeOnce(s)
        BY <1>3, <1>4, <2>2 DEF FreeOnce
    <2>4. \A p \in Pos : p \in Range(freeL')
        BY <1>3, <2>2, RangeOf
    <2>5. \A p \in Pos : ~Named(v, p)
        BY <1>3, <2>2 DEF Named
    <2>6. FreeOrNamed(s, v)
        BY <1>1, <1>4, <2>4, <2>5 DEF FreeOrNamed
    <2>7. OneEach(v) /\ OwnSlots(s, v)
        BY <1>3 DEF OneEach, OwnSlots
    <2>8. OpenNamed(s, v)
        BY <1>4, <1>6 DEF OpenNamed
    <2>9. OwnDown(s)
        <3> SUFFICES ASSUME NEW c \in Conn, NEW m \in Range(s.link[c].down) PROVE Dest(m) = s.link[c].own
            BY DEF OwnDown
        <3>1. s.link[c].own = link[c].own /\ s.link[c].down = link[c].down
            BY <1>4, <1>6, NoMessages
        <3> QED BY <3>1, PxFields DEF Placed, Steady, OwnDown
    <2> QED BY <2>3, <2>6, <2>7, <2>8, <2>9 DEF Steady
<1>8. Handed(PxState, s, svrs, v)
    <2>1. \A q \in Pos : s.slot[q].back = <<>>
        BY <1>1, <1>4 DEF Empty
    <2> QED BY <1>3, <1>4, <1>6, <2>1, PxFields DEF Handed
<1>9. UpsLess /\ BufsLess
    <2>1. UpsLess
        BY <1>6 DEF UpsLess, UpLess, NoYounger
    <2> QED BY <1>3, <2>1 DEF BufsLess
<1>10. Flowing'
    <2>1. Base' /\ left'.msgs <= left.msgs /\ QueueLess /\ got' = got
        BY <1>1, <1>3 DEF LeftT, QueueLess
    <2> QED BY <1>2, <1>4, <1>8, <1>9, <2>1, HandsOn
<1>11. Placed'
    <2>1. Steady(PxState, svrs)'
        BY <1>2, <1>7
    <2>2. RouteRight'
        BY <1>3 DEF Placed, RouteRight
    <2> QED BY <1>3, <2>1, <2>2 DEF Placed
<1> QED BY <1>10, <1>11

LEMMA AcceptConnectDiesOrder == ASSUME Base, Placed, Flowing, AcceptConnectDies PROVE Placed' /\ Flowing'
<1>1. left \in LeftT /\ Start(left)
    BY DEF Base, Typed, AcceptConnectDies
<1> QED BY <1>1, StartOrder

LEMMA DoTransferDiesOrder == ASSUME Base, Placed, Flowing, DoTransferDies PROVE Placed' /\ Flowing'
<1>1. left \in LeftT /\ Start(left)
    BY DEF Base, Typed, DoTransferDies
<1> QED BY <1>1, StartOrder

LEMMA RestartOrder == ASSUME Base, Placed, Flowing, Restart PROVE Placed' /\ Flowing'
<1>1. PICK l : l = [left EXCEPT !.kills = @ - 1]
    OBVIOUS
<1>2. left \in LeftT
    BY DEF Base, Typed
<1>3. l \in LeftT /\ l.msgs = left.msgs
    BY <1>1, <1>2 DEF LeftT
<1>4. Start(l)
    BY <1>1 DEF Restart
<1> QED BY <1>3, <1>4, StartOrder

\* Until sockets are mixed up: the first free position.
LEMMA FirstFree ==
    ASSUME Base, Placed, freeL # <<>>, NEW p, p = Head(freeL)
    PROVE  /\ p \in Pos /\ slot[p] = Empty /\ freeL \in Seq(Pos)
           /\ \A k, l \in 1 .. Len(Tail(freeL)) : Tail(freeL)[k] = Tail(freeL)[l] => k = l
           /\ Range(freeL) = Range(Tail(freeL)) \cup {p} /\ p \notin Range(Tail(freeL)) /\ Tail(freeL) \in Seq(Pos)
<1>1. freeL \in Seq(Pos)
    BY PxFields DEF Base, Typed, St
<1>2. \A k, l \in 1 .. Len(freeL) : freeL[k] = freeL[l] => k = l
    BY PxFields DEF Placed, Steady, FreeOnce
<1>3. /\ \A k, l \in 1 .. Len(Tail(freeL)) : Tail(freeL)[k] = Tail(freeL)[l] => k = l
      /\ p \notin Range(Tail(freeL))
    BY <1>1, <1>2, OnceTail
<1>4. p \in Pos /\ p \in Range(freeL) /\ Tail(freeL) \in Seq(Pos) /\ Range(Tail(freeL)) \subseteq Range(freeL)
    BY <1>1, RangeTail
<1>5. \A x \in Range(freeL) : x = p \/ x \in Range(Tail(freeL))
    BY <1>1, RangeSplit
<1>6. slot[p] = Empty
    BY <1>4, PxFields DEF Placed, Steady, FreeOrNamed, Pos
<1>7. Range(freeL) = Range(Tail(freeL)) \cup {p}
    BY <1>4, <1>5
<1> QED BY <1>1, <1>3, <1>4, <1>6, <1>7

\* An accepted connection has a descriptor of its own there.
LEMMA AcceptedSteady ==
    ASSUME Base, Placed, freeL # <<>>, acc # <<>>, NEW p, p = Head(freeL), NEW c, c = Head(acc)
    PROVE  /\ p \in Pos /\ c \in Conn /\ link[c].prx = "queued" /\ link[c].down = <<>> /\ link[c].own \in Id
           /\ Accepted \in St(Pos) /\ Sockets(Accepted) /\ Accepted.free = Tail(freeL)
           /\ Accepted.zero = (IF zero = Closed THEN c ELSE zero)
           /\ Accepted.slot[p].fd = (IF zero = Closed THEN 0 ELSE c)
           /\ Denotes(Accepted, p) = c /\ Accepted.slot[p].back = <<>> /\ slot[p] = Empty
           /\ \A q \in Pos : q # p => Accepted.slot[q] = slot[q]
           /\ Opened(link[c], p, Accepted.link[c]) /\ \A d \in Conn : d # c => Accepted.link[d] = link[d]
           /\ Range(freeL) = Range(Tail(freeL)) \cup {p} /\ p \notin Range(Tail(freeL)) /\ Tail(freeL) \in Seq(Pos)
           /\ FreeOnce(Accepted)
<1>1. Typed /\ Sockets(PxState) /\ Waiting
    BY DEF Base
<1>2. /\ p \in Pos /\ c \in Conn /\ link[c].prx = "queued"
      /\ Accepted \in St(Pos) /\ Sockets(Accepted) /\ Accepted.free = Tail(freeL)
      /\ Accepted.zero = IF zero = Closed THEN c ELSE zero
      /\ Accepted.slot[p].fd = IF zero = Closed THEN 0 ELSE c
      /\ Accepted.slot[p].back = slot[p].back /\ \A q \in Pos : q # p => Accepted.slot[q] = slot[q]
      /\ Opened(link[c], p, Accepted.link[c]) /\ \A d \in Conn : d # c => Accepted.link[d] = link[d]
    BY <1>1, AcceptedFields
<1>3. Denotes(Accepted, p) = c
    BY <1>2, CenterSizes DEF Denotes
<1>4. link[c] \in LinkT /\ LinkOk(link[c])
    BY <1>1, <1>2, PxFields DEF Typed, St, Sockets, LinksOk
<1>5. link[c].down = <<>> /\ link[c].own \in Id
    BY <1>2, <1>4 DEF LinkOk, LinkT
<1>6. /\ slot[p] = Empty
      /\ \A k, l \in 1 .. Len(Tail(freeL)) : Tail(freeL)[k] = Tail(freeL)[l] => k = l
      /\ Range(freeL) = Range(Tail(freeL)) \cup {p} /\ p \notin Range(Tail(freeL)) /\ Tail(freeL) \in Seq(Pos)
    BY FirstFree
<1>7. slot[p].back = <<>>
    BY <1>6 DEF Empty
<1>8. FreeOnce(Accepted)
    BY <1>2, <1>6 DEF FreeOnce
<1> QED BY <1>2, <1>3, <1>5, <1>6, <1>7, <1>8

\* What is known of the descriptors then.
Fd(q) == Denotes(PxState, q)
Ours(j) ==
    /\ svrs[j] \in Pos /\ OwnSlot(PxState, j, svrs[j])
    /\ slot[svrs[j]].fd = 0 => zero \in Conn
    /\ slot[svrs[j]].fd = Closed \/ (Fd(svrs[j]) \in Conn /\ link[Fd(svrs[j])].own = j)
    /\ \A m \in Range(slot[svrs[j]].back) : Dest(m) = j

LEMMA PlacedFacts ==
    ASSUME Base, Placed
    PROVE  /\ PxState \in St(Pos) /\ svrs \in [Id -> Pos \cup {NULL}] /\ 0 \notin Pos /\ NULL \notin Pos
           /\ OneEach(svrs)
           /\ \A q \in Pos : /\ q \in Range(freeL) <=> ~Named(svrs, q)
                             /\ q \in Range(freeL) => slot[q] = Empty
                             /\ Fd(q) \in Conn => link[Fd(q)].prx = "open"
           /\ \A j \in Id : svrs[j] # NULL => Ours(j)
           /\ \A d \in Conn : /\ link[d] \in LinkT /\ link[d].own \in Id
                              /\ link[d].prx = "open" => svrs[link[d].own] # NULL /\ Fd(svrs[link[d].own]) = d
                              /\ \A m \in Range(link[d].down) : Dest(m) = link[d].own
<1>1. PxState \in St(Pos) /\ svrs \in [Id -> Pos \cup {NULL}] /\ DOMAIN PxState.slot = Pos /\ 0 \notin Pos /\ NULL \notin Pos
    BY CenterSizes DEF Base, Typed, St
<1>2. \A d \in Conn : link[d] \in LinkT /\ link[d].own \in Id
    BY <1>1, PxFields DEF St, LinkT
<1>3. \A q \in Pos : Fd(q) \in Conn => link[Fd(q)].prx = "open"
    BY <1>1, PxFields, DenotesOpen DEF Base, Fd
<1>4. OneEach(svrs) /\ FreeOrNamed(PxState, svrs) /\ OwnSlots(PxState, svrs) /\ OpenNamed(PxState, svrs)
      /\ OwnDown(PxState)
    BY PxFields DEF Placed, Steady
<1>5. \A q \in Pos : (q \in Range(freeL) <=> ~Named(svrs, q)) /\ (q \in Range(freeL) => slot[q] = Empty)
    BY <1>1, <1>4, PxFields DEF FreeOrNamed
<1>6. ASSUME NEW j \in Id, svrs[j] # NULL PROVE Ours(j)
    <2>1. svrs[j] \in Pos /\ OwnSlot(PxState, j, svrs[j])
        BY <1>1, <1>4, <1>6 DEF OwnSlots
    <2>2. slot[svrs[j]].fd = 0 => zero \in Conn
        BY <2>1, PxFields, CenterSizes DEF OwnSlot, Denotes
    <2> QED BY <2>1, <2>2, PxFields DEF OwnSlot, Ours, Fd
<1>7. \A d \in Conn : /\ link[d].prx = "open" => svrs[link[d].own] # NULL /\ Fd(svrs[link[d].own]) = d
                      /\ \A m \in Range(link[d].down) : Dest(m) = link[d].own
    BY <1>4, PxFields DEF OpenNamed, OwnDown, Fd
<1> QED BY <1>1, <1>2, <1>3, <1>4, <1>5, <1>6, <1>7

\* A server's socket stands for what it did, if descriptor 0 does.
LEMMA OursFd ==
    ASSUME Base, Placed, NEW j \in Id, svrs[j] # NULL, NEW s, s.slot[svrs[j]].fd = slot[svrs[j]].fd,
           slot[svrs[j]].fd = 0 => s.zero = zero
    PROVE  Denotes(s, svrs[j]) = Fd(svrs[j])
BY PxFields DEF Denotes, Fd

\* A position that is given back: no connection that was open is closed, and
\* descriptor 0 is a connection's no less than it was.
Same(l, k) == k = l \/ (l.prx # "open" /\ k.prx = "closed" /\ k.down = <<>>)
LEMMA GivenBackSteady ==
    ASSUME Base, Placed, freeL # <<>>, NEW p, p = Head(freeL), NEW s \in St(Pos), \A q \in Pos : s.slot[q] = slot[q],
           s.free = Append(Tail(freeL), p), zero \in Conn => s.zero = zero, \A d \in Conn : Same(link[d], s.link[d])
    PROVE  Steady(s, svrs) /\ Handed(PxState, s, svrs, svrs)
<1>1. /\ p \in Pos /\ Range(freeL) = Range(Tail(freeL)) \cup {p} /\ p \notin Range(Tail(freeL)) /\ Tail(freeL) \in Seq(Pos)
      /\ \A k, l \in 1 .. Len(Tail(freeL)) : Tail(freeL)[k] = Tail(freeL)[l] => k = l
    BY FirstFree
<1>2. PICK f : f = Tail(freeL)
    OBVIOUS
<1>3. Range(s.free) = Range(freeL) /\ FreeOnce(s)
    <2>1. f \in Seq(Pos) /\ p \in Pos /\ p \notin Range(f) /\ s.free = Append(f, p)
        BY <1>1, <1>2
    <2>2. \A i, j \in 1 .. Len(f) : f[i] = f[j] => i = j
        BY <1>1, <1>2
    <2>3. \A i, j \in 1 .. Len(Append(f, p)) : Append(f, p)[i] = Append(f, p)[j] => i = j
        BY <2>1, <2>2, OnceAppend
    <2>4. Range(Append(f, p)) = Range(f) \cup {p}
        BY <2>1, RangeAppend
    <2>5. PICK g : g = Append(f, p)
        OBVIOUS
    <2>6. s.free = g /\ \A i, j \in 1 .. Len(g) : g[i] = g[j] => i = j
        BY <2>1, <2>3, <2>5
    <2>7. FreeOnce(s)
        BY <2>6 DEF FreeOnce
    <2>8. Range(s.free) = Range(f) \cup {p}
        BY <2>4, <2>5, <2>6
    <2> QED BY <1>1, <1>2, <2>7, <2>8
<1>4. DOMAIN s.slot = Pos /\ DOMAIN PxState.slot = Pos
    BY PlacedFacts DEF St
<1>5. /\ \A q \in Pos : (q \in Range(freeL) <=> ~Named(svrs, q)) /\ (q \in Range(freeL) => slot[q] = Empty)
      /\ \A q \in Pos : Fd(q) \in Conn => link[Fd(q)].prx = "open"
      /\ OneEach(svrs) /\ svrs \in [Id -> Pos \cup {NULL}]
    BY PlacedFacts
<1>6. FreeOrNamed(s, svrs)
    BY <1>3, <1>4, <1>5 DEF FreeOrNamed
<1>7. ASSUME NEW j \in Id, svrs[j] # NULL PROVE Ours(j) /\ s.slot[svrs[j]] = slot[svrs[j]] /\ Denotes(s, svrs[j]) = Fd(svrs[j])
    <2>1. Ours(j)
        BY <1>7, PlacedFacts
    <2>2. svrs[j] \in Pos /\ (slot[svrs[j]].fd = 0 => s.zero = zero)
        BY <2>1 DEF Ours
    <2>3. s.slot[svrs[j]] = slot[svrs[j]]
        BY <2>2
    <2>4. Denotes(s, svrs[j]) = Fd(svrs[j])
        BY <1>7, <2>2, <2>3, OursFd
    <2> QED BY <2>1, <2>3, <2>4
<1>8. OwnSlots(s, svrs)
    <2> SUFFICES ASSUME NEW j \in Id, svrs[j] # NULL PROVE OwnSlot(s, j, svrs[j])
        BY DEF OwnSlots
    <2>1. PICK d : d = Fd(svrs[j])
        OBVIOUS
    <2>2. /\ svrs[j] \in Pos /\ s.slot[svrs[j]] = slot[svrs[j]] /\ Denotes(s, svrs[j]) = d
          /\ slot[svrs[j]].fd = Closed \/ (d \in Conn /\ link[d].own = j)
          /\ \A m \in Range(slot[svrs[j]].back) : Dest(m) = j
        BY <1>7, <2>1 DEF Ours
    <2>3. d \in Conn => link[d].prx = "open"
        BY <1>5, <2>1, <2>2
    <2>4. d \in Conn => s.link[d] = link[d]
        BY <2>3 DEF Same
    <2> QED BY <2>2, <2>4 DEF OwnSlot
<1>9. OpenNamed(s, svrs)
    <2> SUFFICES ASSUME NEW d \in Conn, s.link[d].prx = "open"
                 PROVE  svrs[s.link[d].own] # NULL /\ Denotes(s, svrs[s.link[d].own]) = d
        BY DEF OpenNamed
    <2>1. s.link[d] = link[d]
        BY DEF Same
    <2>2. link[d].own \in Id /\ svrs[link[d].own] # NULL /\ Fd(svrs[link[d].own]) = d
        BY <2>1, PlacedFacts
    <2> QED BY <1>7, <2>1, <2>2
<1>10. OwnDown(s)
    <2> SUFFICES ASSUME NEW d \in Conn, NEW m \in Range(s.link[d].down) PROVE Dest(m) = s.link[d].own
        BY DEF OwnDown
    <2>1. s.link[d] = link[d]
        BY NoMessages DEF Same
    <2> QED BY <2>1, PlacedFacts
<1>11. Steady(s, svrs)
    BY <1>3, <1>5, <1>6, <1>8, <1>9, <1>10 DEF Steady
<1>12. \A d \in Conn : s.link[d].down = <<>> \/ s.link[d] = link[d]
    BY DEF Same
<1>13. Handed(PxState, s, svrs, svrs)
    BY <1>4, <1>5, <1>12, PxFields DEF Handed
<1> QED BY <1>11, <1>13

\* So it is when a connection does not register in time.
LEMMA LateSteady ==
    ASSUME Base, Placed, freeL # <<>>, acc # <<>>, NEW p, p = Head(freeL), NEW s, s = SocketRelease(Accepted, p)
    PROVE  Steady(s, svrs) /\ Handed(PxState, s, svrs, svrs)
<1>1. PICK c : c = Head(acc)
    OBVIOUS
<1>2. PICK a : a = Accepted
    OBVIOUS
<1>3. /\ p \in Pos /\ c \in Conn /\ link[c].prx = "queued" /\ link[c].down = <<>>
      /\ a \in St(Pos) /\ Sockets(a) /\ a.free = Tail(freeL) /\ slot[p] = Empty /\ Denotes(a, p) = c
      /\ a.zero = (IF zero = Closed THEN c ELSE zero) /\ a.slot[p].fd = (IF zero = Closed THEN 0 ELSE c)
      /\ \A q \in Pos : q # p => a.slot[q] = slot[q]
      /\ Opened(link[c], p, a.link[c]) /\ \A d \in Conn : d # c => a.link[d] = link[d]
    BY <1>1, <1>2, AcceptedSteady
<1>4. LinksOk(a) /\ \A d \in Conn : a.link[d] \in LinkT /\ LinkOk(a.link[d])
    BY <1>3 DEF Sockets, LinksOk, St
<1>5. /\ s \in St(Pos) /\ s.slot[p] = Empty /\ (\A q \in Pos : q # p => s.slot[q] = a.slot[q])
      /\ s.free = Append(a.free, p) /\ s.zero = CloseFd(a, p).zero /\ s.link = CloseFd(a, p).link
    BY <1>2, <1>3, <1>4, ReleaseFields
<1>6. /\ s.zero = IF a.slot[p].fd = 0 THEN Closed ELSE a.zero
      /\ \A d \in Conn : s.link[d] = IF d = c THEN ProxyEndClosed(a.link[d]) ELSE a.link[d]
    BY <1>3, <1>4, <1>5, CloseFdFields
<1>7. s.zero = zero
    BY <1>3, <1>6, CenterSizes
<1>8. s.link[c].prx = "closed" /\ s.link[c].down = <<>>
    <2>1. a.link[c].down = <<>>
        BY <1>3 DEF Opened
    <2> QED BY <1>3, <1>4, <1>6, <2>1, ProxyEndFields
<1>9. \A d \in Conn : Same(link[d], s.link[d])
    BY <1>3, <1>6, <1>8 DEF Same
<1>10. (\A q \in Pos : s.slot[q] = slot[q]) /\ s.free = Append(Tail(freeL), p)
    BY <1>3, <1>5
<1> QED BY <1>5, <1>7, <1>9, <1>10, GivenBackSteady

\* And when accept fails, unless a connection has descriptor 0.
LEMMA FailsSteady ==
    ASSUME Base, Placed, freeL # <<>>, zero \notin Conn, NEW p, p = Head(freeL), NEW s, s = SocketRelease(Spared, p)
    PROVE  Steady(s, svrs) /\ Handed(PxState, s, svrs, svrs)
<1>1. PICK w, a, f : w = PxState /\ a = Spared /\ f = Tail(freeL)
    OBVIOUS
<1>2. w \in St(Pos) /\ Sockets(w)
    BY <1>1 DEF Base, Typed
<1>3. p \in Pos /\ f \in Seq(Pos) /\ slot[p] = Empty
    BY <1>1, FirstFree
<1>4. a = [w EXCEPT !.free = f]
    BY <1>1 DEF Spared
<1>5. a \in St(Pos) /\ a.slot = w.slot /\ a.zero = w.zero /\ a.link = w.link /\ a.free = f
    BY <1>2, <1>3, <1>4 DEF St
<1>6. LinksOk(a)
    BY <1>2, <1>5 DEF Sockets, LinksOk
<1>7. a.slot = slot /\ a.zero = zero /\ a.link = link
    BY <1>1, <1>5, PxFields
<1>8. Denotes(a, p) = zero
    BY <1>3, <1>7 DEF Denotes, Empty
<1>9. /\ s \in St(Pos) /\ s.slot[p] = Empty /\ (\A q \in Pos : q # p => s.slot[q] = a.slot[q])
      /\ s.free = Append(a.free, p) /\ s.link = CloseFd(a, p).link
    BY <1>1, <1>3, <1>5, <1>6, ReleaseFields
<1>10. \A d \in Conn : s.link[d] = link[d]
    BY <1>3, <1>5, <1>6, <1>7, <1>8, <1>9, CloseFdFields
<1>11. (\A q \in Pos : s.slot[q] = slot[q]) /\ s.free = Append(Tail(freeL), p)
    BY <1>1, <1>3, <1>5, <1>7, <1>9
<1>12. \A d \in Conn : Same(link[d], s.link[d])
    BY <1>10 DEF Same
<1> QED BY <1>9, <1>11, <1>12, GivenBackSteady

LEMMA AcceptFailsOrder == ASSUME Base, Base', Placed, Flowing, AcceptFails, ~stale' PROVE Placed' /\ Flowing'
<1>1. PICK p, s : p = Head(freeL) /\ s = SocketRelease(Spared, p)
    OBVIOUS
<1>2. /\ freeL # <<>> /\ s \in St(Pos) /\ Sockets(s) /\ AllDid(PxState, s) /\ PxState' = s
      /\ left' \in LeftT /\ left'.msgs = left.msgs /\ Pos' = Pos
    BY <1>1, AcceptFailsState
<1>3. UNCHANGED <<svrs, cur, acc, sbuf, got>> /\ cur = NULL /\ zero \notin Conn
    BY DEF AcceptFails, Dealt
<1>4. Steady(s, svrs) /\ Handed(PxState, s, svrs, svrs)
    BY <1>1, <1>2, <1>3, FailsSteady
<1>5. UpsLess
    <2> SUFFICES ASSUME NEW c \in Conn PROVE UpLess(c, link[c], link'[c])
        BY DEF UpsLess
    <2>1. link' = s.link
        BY <1>2 DEF PxState
    <2>2. LinkOk(link[c]) /\ Did(link[c], link'[c])
        BY <1>2, <2>1, PxFields DEF Base, Sockets, LinksOk, AllDid
    <2> QED BY <2>2, DidLess
<1>6. BufsLess /\ QueueLess /\ left'.msgs <= left.msgs
    BY <1>2, <1>3 DEF BufsLess, QueueLess, LeftT
<1>7. Flowing'
    BY <1>2, <1>3, <1>4, <1>5, <1>6, HandsOn
<1>8. Steady(PxState, svrs)' /\ RouteRight'
    BY <1>2, <1>3, <1>4 DEF Placed, RouteRight
<1> QED BY <1>3, <1>7, <1>8 DEF Placed

LEMMA AcceptConnectLateOrder == ASSUME Base, Placed, Flowing, AcceptConnectLate PROVE Placed' /\ Flowing'
<1>1. PICK p, s, l : p = Head(freeL) /\ s = SocketRelease(Accepted, p) /\ l = [left EXCEPT !.late = @ - 1]
    OBVIOUS
<1>2. /\ freeL # <<>> /\ Dealt(Listener) /\ acc' = Tail(acc) /\ cur' = cur /\ svrs' = svrs /\ Become(s, l)
    BY <1>1 DEF AcceptConnectLate
<1>3. acc # <<>> /\ s \in St(Pos) /\ AllDid(Accepted, s)
    BY <1>1, AcceptConnectLateState
<1>4. left \in LeftT
    BY DEF Base, Typed
<1>5. l \in LeftT /\ l.msgs = left.msgs
    BY <1>1, <1>4 DEF LeftT
<1>6. PxState' = s /\ left'.msgs = left.msgs
    BY <1>2, <1>3, <1>5, BecomeFields
<1>7. Base' /\ got' = got /\ sbuf' = sbuf
    BY <1>2, AcceptConnectLateBase DEF Dealt
<1>8. Steady(s, svrs) /\ Handed(PxState, s, svrs, svrs)
    BY <1>1, <1>2, <1>3, LateSteady
<1>9. UpsLess /\ BufsLess /\ QueueLess
    <2>1. UpsLess
        BY <1>2, <1>3, <1>6, AcceptLess
    <2> QED BY <1>2, <1>3, <1>7, <2>1 DEF BufsLess, QueueLess
<1>10. left'.msgs <= left.msgs
    BY <1>4, <1>6 DEF LeftT
<1>11. Flowing'
    BY <1>2, <1>3, <1>6, <1>7, <1>8, <1>9, <1>10, HandsOn
<1>12. Steady(PxState, svrs)' /\ RouteRight'
    BY <1>2, <1>6, <1>7, <1>8 DEF Placed, RouteRight
<1>13. cur' # NULL => Named(svrs', cur')
    BY <1>2 DEF Placed
<1> QED BY <1>11, <1>12, <1>13 DEF Placed

\* A server registers: its new socket takes the place of the one before.
Took(s, i, p, c) ==
    /\ Denotes(s, p) = c /\ FreeOnce(s)
    /\ \A j \in Id : j # i /\ svrs[j] # NULL => Denotes(s, svrs[j]) = Fd(svrs[j])
    /\ s.link[c].prx = "open" /\ s.link[c].own = i /\ s.link[c].down = <<>>
    /\ \A d \in Conn : d # c => /\ s.link[d].prx = "open" => s.link[d] = link[d] /\ link[d].own # i
                                /\ \/ s.link[d].down = <<>>
                                   \/ s.link[d].own = link[d].own /\ s.link[d].down = link[d].down
                                /\ link[d].prx = "open" /\ link[d].own # i => s.link[d] = link[d]
    /\ IF svrs[i] = NULL
       THEN /\ s.slot[p].back = <<>> /\ Range(s.free) = Range(freeL) \ {p}
            /\ \A q \in Pos : q # p => s.slot[q] = slot[q]
       ELSE /\ s.slot[p].back = slot[svrs[i]].back /\ Range(s.free) = (Range(freeL) \ {p}) \cup {svrs[i]}
            /\ s.slot[svrs[i]] = Empty
            /\ \A q \in Pos : q # p /\ q # svrs[i] => s.slot[q] = slot[q]

LEMMA TookSteady ==
    ASSUME Base, Placed, NEW p \in Pos, NEW c \in Conn, NEW i \in Id, NEW s \in St(Pos), Took(s, i, p, c),
           p \in Range(freeL), link[c].prx = "queued", NEW v, v = [svrs EXCEPT ![i] = p]
    PROVE  Steady(s, v) /\ Handed(PxState, s, svrs, v)
<1>1. /\ PxState \in St(Pos) /\ svrs \in [Id -> Pos \cup {NULL}] /\ 0 \notin Pos /\ NULL \notin Pos /\ OneEach(svrs)
      /\ \A q \in Pos : /\ q \in Range(freeL) <=> ~Named(svrs, q)
                        /\ q \in Range(freeL) => slot[q] = Empty
                        /\ Fd(q) \in Conn => link[Fd(q)].prx = "open"
    BY PlacedFacts
<1>2. v \in [Id -> Pos \cup {NULL}] /\ v[i] = p /\ \A j \in Id : j # i => v[j] = svrs[j]
    BY <1>1
<1>3. \A j \in Id : svrs[j] # p
    BY <1>1 DEF Named
<1>4. OneEach(v)
    BY <1>1, <1>2, <1>3 DEF OneEach
<1>5. DOMAIN s.slot = Pos /\ DOMAIN PxState.slot = Pos
    BY <1>1 DEF St
<1>6. \A j \in Id : j # i /\ svrs[j] # NULL => svrs[j] \in Pos /\ svrs[j] # p /\ svrs[j] # svrs[i] /\ s.slot[svrs[j]] = slot[svrs[j]]
    <2> SUFFICES ASSUME NEW j \in Id, j # i, svrs[j] # NULL
                 PROVE  svrs[j] \in Pos /\ svrs[j] # p /\ svrs[j] # svrs[i] /\ s.slot[svrs[j]] = slot[svrs[j]]
        OBVIOUS
    <2>1. svrs[j] \in Pos /\ svrs[j] # p /\ svrs[j] # svrs[i]
        BY <1>1, <1>3 DEF OneEach
    <2>2. CASE svrs[i] = NULL
        BY <2>1, <2>2 DEF Took
    <2>3. CASE svrs[i] # NULL
        BY <2>1, <2>3 DEF Took
    <2> QED BY <2>1, <2>2, <2>3
<1>7. ASSUME NEW q \in Pos PROVE (q \in Range(s.free) <=> ~Named(v, q)) /\ (q \in Range(s.free) => s.slot[q] = Empty)
    <2>1. CASE svrs[i] = NULL
        <3>1. q \in Range(s.free) <=> q \in Range(freeL) /\ q # p
            BY <2>1 DEF Took
        <3>2. Named(v, q) <=> q = p \/ Named(svrs, q)
            BY <1>1, <1>2, <2>1 DEF Named
        <3>3. q # p => s.slot[q] = slot[q]
            BY <2>1 DEF Took
        <3> QED BY <1>1, <3>1, <3>2, <3>3
    <2>2. CASE svrs[i] # NULL
        <3>1. q \in Range(s.free) <=> (q \in Range(freeL) /\ q # p) \/ q = svrs[i]
            BY <2>2 DEF Took
        <3>2. Named(v, q) <=> q = p \/ (Named(svrs, q) /\ q # svrs[i])
            BY <1>1, <1>2, <1>3, <2>2 DEF Named, OneEach
        <3>3. (q = svrs[i] => s.slot[q] = Empty) /\ (q # p /\ q # svrs[i] => s.slot[q] = slot[q]) /\ svrs[i] # p
            BY <1>3, <2>2 DEF Took
        <3> QED BY <1>1, <3>1, <3>2, <3>3
    <2> QED BY <2>1, <2>2
<1>8. FreeOrNamed(s, v)
    BY <1>5, <1>7 DEF FreeOrNamed
<1>9. ASSUME NEW j \in Id, v[j] # NULL PROVE OwnSlot(s, j, v[j])
    <2>1. CASE j = i
        <3>1. Denotes(s, p) = c /\ s.link[c].own = i
            BY DEF Took
        <3>2. \A m \in Range(s.slot[p].back) : Dest(m) = i
            <4>1. CASE svrs[i] = NULL
                BY <4>1, NoMessages DEF Took
            <4>2. CASE svrs[i] # NULL
                <5>1. \A m \in Range(slot[svrs[i]].back) : Dest(m) = i
                    BY <4>2, PlacedFacts DEF Ours
                <5> QED BY <4>2, <5>1 DEF Took
            <4> QED BY <4>1, <4>2
        <3> QED BY <1>2, <2>1, <3>1, <3>2 DEF OwnSlot
    <2>2. CASE j # i
        <3>1. v[j] = svrs[j] /\ svrs[j] # NULL
            BY <1>2, <1>9, <2>2
        <3>5. PICK d : d = Fd(svrs[j])
            OBVIOUS
        <3>2. /\ svrs[j] \in Pos /\ (slot[svrs[j]].fd = Closed \/ (d \in Conn /\ link[d].own = j))
              /\ \A m \in Range(slot[svrs[j]].back) : Dest(m) = j
            BY <3>1, <3>5, PlacedFacts DEF Ours
        <3>3. s.slot[svrs[j]] = slot[svrs[j]] /\ Denotes(s, svrs[j]) = d
            BY <1>6, <2>2, <3>1, <3>5 DEF Took
        <3>4. ASSUME d \in Conn, link[d].own = j PROVE s.link[d].own = j
            <4>2. link[d].prx = "open"
                BY <1>1, <3>2, <3>4, <3>5
            <4>3. d # c => s.link[d] = link[d]
                BY <2>2, <3>4, <4>2 DEF Took
            <4>4. d # c
                BY <4>2
            <4> QED BY <3>4, <4>3, <4>4
        <3> QED BY <3>1, <3>2, <3>3, <3>4 DEF OwnSlot
    <2> QED BY <2>1, <2>2
<1>10. ASSUME NEW d \in Conn, s.link[d].prx = "open"
       PROVE  v[s.link[d].own] # NULL /\ Denotes(s, v[s.link[d].own]) = d
    <2>1. CASE d = c
        BY <1>1, <1>2, <2>1 DEF Took
    <2>2. CASE d # c
        <3>1. s.link[d] = link[d] /\ link[d].own # i
            BY <1>10, <2>2 DEF Took
        <3>2. link[d].own \in Id /\ svrs[link[d].own] # NULL /\ Fd(svrs[link[d].own]) = d
            BY <1>10, <3>1, PlacedFacts
        <3>3. v[link[d].own] = svrs[link[d].own] /\ Denotes(s, svrs[link[d].own]) = Fd(svrs[link[d].own])
            BY <1>2, <3>1, <3>2 DEF Took
        <3> QED BY <3>1, <3>2, <3>3
    <2> QED BY <2>1, <2>2
<1>11. ASSUME NEW d \in Conn, NEW m \in Range(s.link[d].down) PROVE Dest(m) = s.link[d].own
    <2>1. d # c
        BY <1>11, NoMessages DEF Took
    <2>2. s.link[d].own = link[d].own /\ s.link[d].down = link[d].down
        BY <1>11, <2>1, NoMessages DEF Took
    <2> QED BY <1>11, <2>2, PlacedFacts
<1>12. OwnSlots(s, v) /\ OpenNamed(s, v) /\ OwnDown(s)
    BY <1>9, <1>10, <1>11 DEF OwnSlots, OpenNamed, OwnDown
<1>13. Steady(s, v)
    BY <1>4, <1>8, <1>12 DEF Steady, Took
<1>14. \A d \in Conn : \/ s.link[d].down = <<>>
                       \/ s.link[d].own = link[d].own /\ s.link[d].down = link[d].down
    BY DEF Took
<1>15. ASSUME NEW q \in Pos PROVE s.slot[q].back = <<>> \/ \E b \in Pos : s.slot[q].back = slot[b].back
    <2>1. CASE svrs[i] = NULL
        BY <2>1 DEF Took
    <2>2. CASE svrs[i] # NULL
        <3>1. svrs[i] \in Pos
            BY <1>1, <2>2
        <3> QED BY <2>2, <3>1 DEF Took, Empty
    <2> QED BY <2>1, <2>2
<1>16. ASSUME NEW j \in Id, v[j] # NULL
       PROVE  s.slot[v[j]].back = <<>> \/ (svrs[j] # NULL /\ s.slot[v[j]].back = slot[svrs[j]].back)
    <2>1. CASE j = i
        BY <1>2, <2>1 DEF Took
    <2>2. CASE j # i
        <3>1. v[j] = svrs[j] /\ svrs[j] # NULL
            BY <1>2, <1>16, <2>2
        <3> QED BY <1>6, <2>2, <3>1
    <2> QED BY <2>1, <2>2
<1>17. Handed(PxState, s, svrs, v)
    BY <1>5, <1>14, <1>15, <1>16, PxFields DEF Handed
<1> QED BY <1>13, <1>17

\* So it is for a server that is new to the proxy, and for one that comes back.
LEMMA NewTook ==
    ASSUME Base, Placed, freeL # <<>>, acc # <<>>, NEW p, p = Head(freeL), NEW c, c = Head(acc),
           NEW i, i = link[c].own, svrs[i] = NULL
    PROVE  Took(Accepted, i, p, c)
<1>1. PICK a : a = Accepted
    OBVIOUS
<1>2. /\ p \in Pos /\ c \in Conn /\ link[c].prx = "queued" /\ link[c].down = <<>>
      /\ a \in St(Pos) /\ a.free = Tail(freeL) /\ Denotes(a, p) = c
      /\ a.zero = (IF zero = Closed THEN c ELSE zero) /\ slot[p] = Empty /\ a.slot[p].back = <<>> /\ (\A q \in Pos : q # p => a.slot[q] = slot[q])
      /\ Opened(link[c], p, a.link[c]) /\ (\A d \in Conn : d # c => a.link[d] = link[d])
      /\ Range(freeL) = Range(Tail(freeL)) \cup {p} /\ p \notin Range(Tail(freeL)) /\ FreeOnce(a)
    BY <1>1, AcceptedSteady
<1>3. \A d \in Conn : link[d].prx = "open" => link[d].own # i
    BY PlacedFacts
<1>4. a.link[c].prx = "open" /\ a.link[c].own = i /\ a.link[c].down = <<>>
    BY <1>2 DEF Opened
<1>5. Range(a.free) = Range(freeL) \ {p}
    BY <1>2
<1>6. ASSUME NEW j \in Id, svrs[j] # NULL PROVE Denotes(a, svrs[j]) = Fd(svrs[j])
    <2>1. Ours(j)
        BY <1>6, PlacedFacts
    <2>2. svrs[j] \in Pos /\ svrs[j] # p
        BY <1>2, <1>6, <2>1, PlacedFacts DEF Ours, Named
    <2>3. slot[svrs[j]].fd = 0 => a.zero = zero
        BY <1>2, <2>1, CenterSizes DEF Ours
    <2> QED BY <1>2, <1>6, <2>2, <2>3, OursFd
<1> QED BY <1>1, <1>2, <1>3, <1>4, <1>5, <1>6 DEF Took

LEMMA AgainTook ==
    ASSUME Base, Placed, freeL # <<>>, acc # <<>>, NEW p, p = Head(freeL), NEW c, c = Head(acc),
           NEW i, i = link[c].own, NEW b, svrs[i] = b, b # NULL, NEW s, s = Joining(Accepted, p, b)
    PROVE  s \in St(Pos) /\ Sockets(s) /\ Took(s, i, p, c)
<1>1. PICK a : a = Accepted
    OBVIOUS
<1>2. /\ p \in Pos /\ c \in Conn /\ link[c].prx = "queued" /\ link[c].down = <<>> /\ i \in Id
      /\ a \in St(Pos) /\ Sockets(a) /\ a.free = Tail(freeL) /\ Denotes(a, p) = c
      /\ a.zero = (IF zero = Closed THEN c ELSE zero) /\ a.slot[p].fd = (IF zero = Closed THEN 0 ELSE c)
      /\ (\A q \in Pos : q # p => a.slot[q] = slot[q])
      /\ Opened(link[c], p, a.link[c]) /\ (\A d \in Conn : d # c => a.link[d] = link[d])
      /\ Range(freeL) = Range(Tail(freeL)) \cup {p} /\ p \notin Range(Tail(freeL)) /\ Tail(freeL) \in Seq(Pos)
      /\ FreeOnce(a)
    BY <1>1, AcceptedSteady
<1>13. PICK e : e = Fd(b)
    OBVIOUS
<1>27. Ours(i)
    BY <1>2, PlacedFacts
<1>3. b \in Pos /\ (slot[b].fd = 0 => zero \in Conn) /\ (e \in Conn => link[e].own = i /\ link[e].prx = "open")
    <2>1. slot[b].fd = Closed => e = Closed
        BY <1>13, PxFields, CenterSizes DEF Fd, Denotes
    <2>2. b \in Pos /\ (e \in Conn => link[e].prx = "open")
        BY <1>13, <1>27, PlacedFacts DEF Ours
    <2> QED BY <1>13, <1>27, <2>1, <2>2, CenterSizes DEF Ours
<1>4. b \notin Range(freeL) /\ b # p
    BY <1>2, <1>3, PlacedFacts DEF Named
<1>5. PICK back : back = a.slot[b].back
    OBVIOUS
<1>6. back = slot[b].back /\ back \in Seq(M) /\ Len(back) <= BufCap
    BY <1>2, <1>3, <1>4, <1>5 DEF St, SlotT, Sockets, BacksFit
<1>7. PICK t : t = Backed(a, p, back)
    OBVIOUS
<1>8. SentFrom(Pos, a, p, t, back) /\ Sockets(t) /\ t.slot[p].fd = a.slot[p].fd /\ t.zero = a.zero /\ t.link = a.link
    BY <1>2, <1>6, <1>7, BackedKeeps
<1>9. t \in St(Pos) /\ LinksOk(t) /\ t.free = Tail(freeL) /\ t.slot[p].back = back /\ t.slot[b] = slot[b]
    BY <1>2, <1>3, <1>4, <1>8 DEF SentFrom, Sockets
<1>10. s = SocketRelease(t, b)
    BY <1>1, <1>5, <1>7 DEF Joining
<1>11. /\ s \in St(Pos) /\ s.slot[b] = Empty /\ (\A q \in Pos : q # b => s.slot[q] = t.slot[q])
       /\ s.free = Append(t.free, b) /\ s.zero = CloseFd(t, b).zero /\ s.link = CloseFd(t, b).link
    BY <1>3, <1>9, <1>10, ReleaseFields
<1>12. Sockets(s)
    BY <1>3, <1>8, <1>9, <1>10, ReleaseKeeps
<1>14. Denotes(t, b) = e
    <2>1. slot[b].fd = 0 => t.zero = zero
        BY <1>2, <1>3, <1>8, CenterSizes
    <2> QED BY <1>2, <1>9, <1>13, <2>1, OursFd
<1>15. /\ s.zero = IF slot[b].fd = 0 THEN Closed ELSE a.zero
       /\ \A d \in Conn : s.link[d] = IF d = e THEN ProxyEndClosed(a.link[d]) ELSE a.link[d]
    BY <1>2, <1>3, <1>8, <1>9, <1>11, <1>14, CloseFdFields
<1>16. e # c
    BY <1>2, <1>3
<1>17. s.link[c].prx = "open" /\ s.link[c].own = i /\ s.link[c].down = <<>>
    BY <1>2, <1>15, <1>16 DEF Opened
<1>18. \A d \in Conn : d # c /\ d # e => s.link[d] = link[d]
    BY <1>2, <1>15
<1>19. e \in Conn => /\ s.link[e].prx = "closed" /\ link[e].own = i
                     /\ s.link[e].down = <<>> \/ (s.link[e].own = link[e].own /\ s.link[e].down = link[e].down)
    <2> SUFFICES ASSUME e \in Conn
                 PROVE  /\ s.link[e].prx = "closed" /\ link[e].own = i
                        /\ s.link[e].down = <<>> \/ (s.link[e].own = link[e].own /\ s.link[e].down = link[e].down)
        OBVIOUS
    <2>1. link[e] \in LinkT /\ LinkOk(link[e]) /\ s.link[e] = ProxyEndClosed(link[e])
        BY <1>2, <1>8, <1>9, <1>15, <1>16 DEF LinksOk, St
    <2>2. /\ s.link[e].prx = "closed" /\ s.link[e].down = link[e].down
          /\ (link[e].srv => s.link[e].own = link[e].own)
        BY <2>1, ProxyEndFields
    <2>3. ~link[e].srv => link[e].down = <<>>
        BY <2>1 DEF LinkOk
    <2> QED BY <1>3, <2>2, <2>3
<1>20. \A d \in Conn : link[d].prx = "open" /\ link[d].own = i => d = e
    BY <1>13, PlacedFacts
<1>21. ASSUME NEW d \in Conn, d # c
       PROVE  /\ s.link[d].prx = "open" => s.link[d] = link[d] /\ link[d].own # i
              /\ \/ s.link[d].down = <<>>
                 \/ s.link[d].own = link[d].own /\ s.link[d].down = link[d].down
              /\ link[d].prx = "open" /\ link[d].own # i => s.link[d] = link[d]
    <2>1. CASE d = e
        BY <1>19, <2>1
    <2>2. CASE d # e
        BY <1>18, <1>20, <1>21, <2>2
    <2> QED BY <2>1, <2>2
<1>22. PICK f : f = Tail(freeL)
    OBVIOUS
<1>23. f \in Seq(Pos) /\ b \notin Range(f) /\ s.free = Append(f, b)
    BY <1>2, <1>4, <1>9, <1>11, <1>22
<1>24. FreeOnce(s)
    <2>1. \A k, l \in 1 .. Len(f) : f[k] = f[l] => k = l
        BY <1>2, <1>22 DEF FreeOnce
    <2>2. \A k, l \in 1 .. Len(Append(f, b)) : Append(f, b)[k] = Append(f, b)[l] => k = l
        BY <1>3, <1>23, <2>1, OnceAppend
    <2>3. PICK g : g = Append(f, b)
        OBVIOUS
    <2>4. s.free = g /\ \A k, l \in 1 .. Len(g) : g[k] = g[l] => k = l
        BY <1>23, <2>2, <2>3
    <2> QED BY <2>4 DEF FreeOnce
<1>25. Range(s.free) = (Range(freeL) \ {p}) \cup {b}
    <2>1. Range(Append(f, b)) = Range(f) \cup {b}
        BY <1>3, <1>23, RangeAppend
    <2> QED BY <1>2, <1>22, <1>23, <2>1
<1>26. s.slot[p].fd = a.slot[p].fd /\ s.slot[p].back = slot[b].back /\ \A q \in Pos : q # p /\ q # b => s.slot[q] = slot[q]
    BY <1>2, <1>4, <1>6, <1>8, <1>9, <1>11 DEF SentFrom
<1>28. Denotes(s, p) = c
    BY <1>2, <1>3, <1>15, <1>26, CenterSizes DEF Denotes
<1>29. ASSUME NEW j \in Id, j # i, svrs[j] # NULL PROVE Denotes(s, svrs[j]) = Fd(svrs[j])
    <2>1. Ours(j) /\ OneEach(svrs)
        BY <1>29, PlacedFacts
    <2>2. svrs[j] \in Pos /\ svrs[j] # p /\ svrs[j] # b
        BY <1>2, <1>29, <2>1, PlacedFacts DEF Ours, Named, OneEach
    <2>3. slot[svrs[j]].fd = 0 => s.zero = zero
        <3> SUFFICES ASSUME slot[svrs[j]].fd = 0 PROVE s.zero = zero
            OBVIOUS
        <3>1. zero \in Conn /\ Fd(svrs[j]) = zero
            BY <2>1, PxFields DEF Ours, Fd, Denotes
        <3>2. link[zero].own = j
            BY <2>1, <3>1, CenterSizes DEF Ours
        <3>3. slot[b].fd # 0
            BY <1>3, <1>13, <1>29, <3>1, <3>2, PxFields DEF Fd, Denotes
        <3> QED BY <1>2, <1>15, <3>1, <3>3, CenterSizes
    <2> QED BY <1>26, <1>29, <2>2, <2>3, OursFd
<1> QED BY <1>11, <1>12, <1>17, <1>21, <1>24, <1>25, <1>26, <1>28, <1>29 DEF Took

\* The backlog a server inherits goes out in order.
LEMMA FlushOrder ==
    ASSUME NEW P, NEW s \in St(P), NEW v \in [Id -> P \cup {NULL}], NEW i \in Id, NEW p \in P, 0 \notin P, v[i] = p,
           Sockets(s), Steady(s, v), Downstream(s, v), NEW hows \in SUBSET {"sent", "again", "error"},
           NEW r \in SendBufData(s.slot[p].back, hows), NEW t, t = AfterSend(s, p, r)
    PROVE  t \in St(P) /\ Steady(t, v) /\ Downstream(t, v) /\ Passed(t) \subseteq Passed(s)
<1>1. PICK back : back = s.slot[p].back
    OBVIOUS
<1>2. back \in Seq(M) /\ Len(back) <= BufCap /\ DOMAIN s.slot = P
    BY <1>1, DenotesType DEF Sockets, BacksFit, SlotT, St
<1>3. Ordered(back) /\ \A m \in Range(back) : Dest(m) = i
    BY <1>1, <1>2, CenterSizes DEF Downstream, Steady, OwnSlots, OwnSlot
<1>4. r \in ResultT /\ Parts(r, Range(back)) /\ InParts(r)
    BY <1>1, <1>2, <1>3, SendBufFacts
<1>5. Len(r.back) <= BufCap /\ ForOne(r, i)
    BY <1>3, <1>4 DEF Parts, ForOne
<1>6. Steady(t, v) /\ Flow(s, t, i, p, r)
    BY <1>4, <1>5, AfterSendSteady
<1>7. t \in St(P)
    BY <1>4, <1>5, AfterSendKeeps DEF SentFrom
<1>8. PICK X : X = {}
    OBVIOUS
<1>9. /\ Parts(r, Range(s.slot[p].back) \cup X) /\ Below(Range(got[i]), X)
      /\ \A c \in Conn : s.link[c].own = i => Below(Range(s.link[c].down), X)
    BY <1>1, <1>4, <1>8 DEF Parts, Below
<1>10. OneEach(v)
    BY DEF Steady
<1>11. Downstream(t, v) /\ Passed(t) \subseteq Passed(s) \cup X
    BY <1>4, <1>6, <1>7, <1>9, <1>10, DownstreamFlow
<1> QED BY <1>6, <1>7, <1>8, <1>11

LEMMA AcceptConnectOrder == ASSUME Base, Placed, Flowing, AcceptConnect PROVE Placed' /\ Flowing'
<1>1. PICK p, c : p = Head(freeL) /\ c = Head(acc)
    OBVIOUS
<1>2. PICK i : i = link[c].own
    OBVIOUS
<1>3. acc # <<>> /\ p \in Pos /\ i \in Id /\ svrs[i] # p
    BY <1>1, <1>2, AcceptConnectState
<1>4. PICK st \in St(Pos) :
          /\ Sockets(st) /\ AllDid(Accepted, st) /\ Become(st, left)
          /\ IF svrs[i] = NULL THEN st = Accepted ELSE svrs[i] \in Pos /\ st \in Register(Accepted, p, svrs[i])
    BY <1>1, <1>2, AcceptConnectState
<1>5. PICK v : v = [svrs EXCEPT ![i] = p]
    OBVIOUS
<1>6. freeL # <<>> /\ acc' = Tail(acc) /\ svrs' = v /\ cur = NULL /\ cur' = NULL /\ UNCHANGED <<sbuf, got>>
    BY <1>1, <1>2, <1>5 DEF AcceptConnect, Dealt
<1>7. left \in LeftT /\ PxState \in St(Pos) /\ svrs \in [Id -> Pos \cup {NULL}] /\ 0 \notin Pos
    BY PlacedFacts DEF Base, Typed
<1>8. v \in [Id -> Pos \cup {NULL}] /\ v[i] = p
    BY <1>3, <1>5, <1>7
<1>9. PxState' = st /\ left'.msgs = left.msgs
    BY <1>4, <1>7, BecomeFields
<1>10. c \in Conn /\ link[c].prx = "queued" /\ p \in Range(freeL)
    BY <1>1, <1>3, <1>6, AcceptedSteady
<1>11. Downstream(PxState, svrs)
    BY DEF Flowing
<1>12. Steady(st, v) /\ Downstream(st, v) /\ Passed(st) \subseteq Passed(PxState)
    <2>1. CASE svrs[i] = NULL
        <3>1. Took(st, i, p, c)
            BY <1>1, <1>2, <1>3, <1>4, <1>6, <2>1, NewTook
        <3>2. Steady(st, v) /\ Handed(PxState, st, svrs, v)
            BY <1>3, <1>4, <1>5, <1>10, <3>1, TookSteady
        <3> QED BY <1>4, <1>7, <1>11, <3>2, DownstreamHanded
    <2>2. CASE svrs[i] # NULL
        <3>1. PICK b, s : b = svrs[i] /\ s = Joining(Accepted, p, b)
            OBVIOUS
        <3>2. b # NULL /\ b \in Pos /\ st \in Register(Accepted, p, b)
            BY <1>4, <2>2, <3>1
        <3>3. s \in St(Pos) /\ Sockets(s) /\ Took(s, i, p, c)
            BY <1>1, <1>2, <1>3, <1>6, <3>1, <3>2, AgainTook
        <3>4. Steady(s, v) /\ Handed(PxState, s, svrs, v)
            BY <1>3, <1>5, <1>10, <3>3, TookSteady
        <3>5. Downstream(s, v) /\ Passed(s) \subseteq Passed(PxState)
            BY <1>7, <1>11, <3>3, <3>4, DownstreamHanded
        <3>6. PICK hows : hows = Hows(s, p)
            OBVIOUS
        <3>7. hows \in SUBSET {"sent", "again", "error"}
            BY <3>6, HowsType
        <3>8. Accepted \in St(Pos) /\ Sockets(Accepted)
            BY <1>1, <1>3, <1>6, AcceptedSteady
        <3>9. PICK r \in SendBufData(s.slot[p].back, hows) : st = AfterSend(s, p, r)
            BY <1>3, <3>1, <3>2, <3>6, <3>8, RegisterKeeps
        <3>10. Steady(st, v) /\ Downstream(st, v) /\ Passed(st) \subseteq Passed(s)
            <4>1. i \in Id /\ p \in Pos /\ 0 \notin Pos /\ v \in [Id -> Pos \cup {NULL}] /\ v[i] = p
                BY <1>3, <1>7, <1>8
            <4>2. s \in St(Pos) /\ Sockets(s) /\ Steady(s, v) /\ Downstream(s, v)
                BY <3>3, <3>4, <3>5
            <4> QED BY <3>7, <3>9, <4>1, <4>2, FlushOrder
        <3> QED BY <3>5, <3>10
    <2> QED BY <2>1, <2>2
<1>13. Base'
    BY AcceptConnectBase
<1>14. UpsLess /\ BufsLess /\ QueueLess
    <2>1. UpsLess
        BY <1>3, <1>4, <1>6, <1>9, AcceptLess
    <2> QED BY <1>3, <1>6, <2>1 DEF BufsLess, QueueLess
<1>15. PICK X : X = {}
    OBVIOUS
<1>16. X \subseteq Pending /\ Passed(st) \subseteq Passed(PxState) \cup X /\ Below(X, Pending')
    BY <1>12, <1>15 DEF Below
<1>17. Waiting' /\ left'.msgs \in Nat /\ left'.msgs <= left.msgs /\ got' = got
    BY <1>6, <1>7, <1>9, <1>13 DEF Base, LeftT
<1>18. Flowing'
    BY <1>6, <1>9, <1>12, <1>14, <1>16, <1>17, MovesOn
<1>19. Steady(PxState, svrs)' /\ RouteRight'
    BY <1>6, <1>9, <1>12 DEF Placed, RouteRight
<1> QED BY <1>6, <1>18, <1>19 DEF Placed

\* The message at hand comes before everything else that is to be read.
LEMMA CurBefore ==
    ASSUME Base, Placed, Flowing, cur # NULL, HasInput, NEW c, c = Reading
    PROVE  /\ Cur \in Pending /\ \A x \in Range(Tail(link[c].up)) : Follows(Cur, x)
           /\ \A d \in Conn : d # c => \A x \in Range(link[d].up) : Follows(Cur, x)
           /\ \A j \in Id : \A x \in Range(sbuf[j]) : Follows(Cur, x)
<1>1. PICK m : m = Cur
    OBVIOUS
<1>2. c \in Conn /\ link[c].prx = "open" /\ link[c].up \in Seq(M) /\ link[c].up # <<>> /\ m = Head(link[c].up)
    BY <1>1, ReadingFacts
<1>3. m \in Range(link[c].up)
    BY <1>2, RangeTail
<1>4. m \in Pending
    BY <1>2, <1>3, InPending
<1>5. Upstream
    BY DEF Flowing
<1>6. Ordered(link[c].up) /\ m.src = link[c].own /\ Below(Range(link[c].up), Range(sbuf[link[c].own]))
    BY <1>2, <1>3, <1>5 DEF Upstream
<1>7. \A x \in Range(Tail(link[c].up)) : Follows(m, x)
    <2>1. Below({Head(link[c].up)}, Range(Tail(link[c].up)))
        BY <1>2, <1>6, OrderedTail
    <2> QED BY <1>2, <2>1 DEF Below
<1>8. ASSUME NEW d \in Conn, d # c, NEW x \in Range(link[d].up) PROVE Follows(m, x)
    <2>1. x.src = link[d].own
        BY <1>5 DEF Upstream
    <2>2. CASE link[d].own # link[c].own
        BY <1>6, <2>1, <2>2 DEF Follows
    <2>3. CASE link[d].own = link[c].own
        <3>1. link[d] \in LinkT /\ LinkOk(link[d])
            BY PxFields DEF Base, Typed, St, Sockets, LinksOk
        <3>2. link[d].prx # "closed"
            BY <1>8, <3>1, NoMessages DEF LinkOk
        <3>3. link[d].prx # "open"
            BY <1>2, <1>8, <2>3, PlacedFacts
        <3>4. link[d].prx = "queued"
            BY <3>1, <3>2, <3>3 DEF LinkT
        <3>5. Earlier(c, d)
            BY <1>2, <1>8, <2>3, <3>4 DEF Earlier
        <3>6. Below(Range(link[c].up), Range(link[d].up))
            BY <1>2, <1>5, <3>5 DEF Upstream
        <3> QED BY <1>3, <1>8, <3>6 DEF Below
    <2> QED BY <2>2, <2>3
<1>9. ASSUME NEW j \in Id, NEW x \in Range(sbuf[j]) PROVE Follows(m, x)
    <2>1. x.src = j
        BY <1>5 DEF Upstream
    <2>2. CASE j = link[c].own
        BY <1>3, <1>6, <1>9, <2>2 DEF Below
    <2>3. CASE j # link[c].own
        BY <1>6, <2>1, <2>3 DEF Follows
    <2> QED BY <2>2, <2>3
<1> QED BY <1>1, <1>4, <1>7, <1>8, <1>9

\* What is left to read of a connection, after the proxy took off its head.
LEMMA UppedLess ==
    ASSUME Base, NEW c \in Conn, NEW st, st \in St(Pos), Sockets(st), AllDid(PxState, st), NEW u \in Seq(M),
           u = st.link[c].up \/ (st.link[c].up # <<>> /\ u = Tail(st.link[c].up)), NEW s, s = Upped(st, c, u), PxState' = s
    PROVE  UpsLess /\ s \in St(Pos) /\ SameSlots(st, s) /\ LinksLess(st, s) /\ Handed(st, s, svrs, svrs)
<1>1. /\ \A d \in Conn : LinkOk(link[d]) /\ Did(link[d], st.link[d]) /\ LinkOk(st.link[d])
      /\ link' = s.link /\ st.link[c].up \in Seq(M)
    BY PxFields DEF Base, Sockets, LinksOk, AllDid, PxState, St, LinkT
<1>2. st.link[c].prx = "closed" => u = <<>>
    BY <1>1 DEF LinkOk
<1>3. /\ s \in St(Pos) /\ Sockets(s) /\ s.slot = st.slot /\ s.zero = st.zero /\ s.free = st.free
      /\ s.link[c].up = u
      /\ \A d \in Conn : /\ d # c => s.link[d] = st.link[d]
                         /\ s.link[d].srv = st.link[d].srv /\ s.link[d].own = st.link[d].own
                         /\ s.link[d].prx = st.link[d].prx /\ s.link[d].down = st.link[d].down
    BY <1>2, UppedKeeps
<1>4. ASSUME NEW d \in Conn PROVE UpLess(d, link[d], link'[d])
    <2>1. CASE d # c
        BY <1>1, <1>3, <2>1, DidLess
    <2>2. CASE d = c
        <3>1. UpLess(c, link[c], st.link[c]) /\ Did(link[c], st.link[c])
            BY <1>1, DidLess
        <3>2. CASE u = <<>>
            BY <1>1, <1>3, <2>2, <3>1, <3>2 DEF UpLess, NoYounger
        <3>3. CASE u # <<>>
            <4>1. st.link[c].prx # "closed" /\ st.link[c].up # <<>>
                BY <1>2, <3>3
            <4>2. st.link[c].own = link[c].own /\ st.link[c].up = link[c].up
                BY <3>1, <4>1 DEF Did
            <4> QED BY <1>1, <1>3, <2>2, <3>1, <4>1, <4>2 DEF UpLess, NoYounger
        <3> QED BY <3>2, <3>3
    <2> QED BY <2>1, <2>2
<1>5. SameSlots(st, s) /\ LinksLess(st, s)
    BY <1>3 DEF SameSlots, LinksLess, LinkLess
<1>6. Handed(st, s, svrs, svrs)
    BY <1>3 DEF Handed
<1> QED BY <1>3, <1>4, <1>5, <1>6 DEF UpsLess

LEMMA DoTransferOrder == ASSUME Base, Placed, Flowing, DoTransfer PROVE Placed' /\ Flowing'
<1>1. PICK c, m, i, q : c = Reading /\ m = Cur /\ i = Dest(m) /\ q = svrs[i]
    OBVIOUS
<1>2. q \in Pos /\ cur # NULL /\ HasInput
    BY <1>1, DoTransferState DEF DoTransfer
<1>3. PICK st \in SendOneData(PxState, q, m) : \E u \in Seq(M) :
          /\ u = (IF cnt + 1 = Copies /\ st.link[c].up # <<>> THEN Tail(st.link[c].up) ELSE st.link[c].up)
          /\ st \in St(Pos) /\ Sockets(st) /\ AllDid(PxState, st) /\ SentFrom(Pos, PxState, q, st, st.slot[q].back)
          /\ Become(Upped(st, c, u), left)
    BY <1>1, DoTransferState
<1>4. PICK u \in Seq(M) :
          /\ u = (IF cnt + 1 = Copies /\ st.link[c].up # <<>> THEN Tail(st.link[c].up) ELSE st.link[c].up)
          /\ st \in St(Pos) /\ Sockets(st) /\ AllDid(PxState, st)
          /\ Become(Upped(st, c, u), left)
    BY <1>3
<1>5. c \in Conn /\ m \in M /\ i \in Id /\ link[c].up \in Seq(M) /\ link[c].up # <<>> /\ m = Head(link[c].up)
    BY <1>1, <1>2, ReadingFacts
<1>6. /\ m \in Pending /\ \A x \in Range(Tail(link[c].up)) : Follows(m, x)
      /\ \A d \in Conn : d # c => \A x \in Range(link[d].up) : Follows(m, x)
      /\ \A j \in Id : \A x \in Range(sbuf[j]) : Follows(m, x)
    BY <1>1, <1>2, CurBefore
<1>7. PICK s : s = Upped(st, c, u)
    OBVIOUS
<1>8. left \in LeftT /\ PxState \in St(Pos) /\ svrs \in [Id -> Pos \cup {NULL}] /\ 0 \notin Pos /\ Sockets(PxState)
    BY PlacedFacts DEF Base, Typed
<1>9. s \in St(Pos) /\ s.link[c].up = u
    <2>1. LinkOk(st.link[c])
        BY <1>4, <1>5 DEF Sockets, LinksOk
    <2>2. st.link[c].prx = "closed" => u = <<>>
        BY <1>4, <2>1 DEF LinkOk
    <2>3. st \in St(Pos) /\ Sockets(st)
        BY <1>4
    <2> QED BY <1>5, <1>7, <2>2, <2>3, UppedKeeps
<1>10. PxState' = s /\ left'.msgs = left.msgs
    BY <1>4, <1>7, <1>8, <1>9, BecomeFields
<1>11. u = st.link[c].up \/ (st.link[c].up # <<>> /\ u = Tail(st.link[c].up))
    BY <1>4
<1>12. UpsLess /\ SameSlots(st, s) /\ LinksLess(st, s) /\ Handed(st, s, svrs, svrs)
    BY <1>4, <1>5, <1>7, <1>10, <1>11, UppedLess
<1>13. UNCHANGED <<svrs, acc, sbuf, got, cur>>
    BY DEF DoTransfer
<1>14. Steady(PxState, svrs) /\ Downstream(PxState, svrs) /\ Between /\ OneEach(svrs)
    BY DEF Placed, Flowing, Steady
<1>15. Steady(st, svrs) /\ WentOn(PxState, st, i, q, m)
    <2>1. PICK w : w = PxState
        OBVIOUS
    <2>2. w \in St(Pos) /\ svrs \in [Id -> Pos \cup {NULL}] /\ i \in Id /\ q \in Pos /\ 0 \notin Pos /\ svrs[i] = q
        BY <1>1, <1>2, <1>5, <1>8, <2>1
    <2>3. Sockets(w) /\ Steady(w, svrs) /\ m \in M /\ Dest(m) = i /\ st \in SendOneData(w, q, m)
        BY <1>1, <1>3, <1>5, <1>8, <1>14, <2>1
    <2>4. Steady(st, svrs) /\ WentOn(w, st, i, q, m)
        BY <2>2, <2>3, SendOneSteady
    <2> QED BY <2>1, <2>4
<1>16. PICK r \in ResultT : /\ Flow(PxState, st, i, q, r) /\ Parts(r, Range(PxState.slot[q].back) \cup {m})
                            /\ Ordered(PxState.slot[q].back) /\ Below(Range(PxState.slot[q].back), {m}) => InParts(r)
    BY <1>15 DEF WentOn
<1>17. /\ Below(Range(PxState.slot[q].back), {m}) /\ Below(Range(got[i]), {m})
       /\ \A d \in Conn : Below(Range(PxState.link[d].down), {m})
    <2>1. Below(Passed(PxState), {m})
        BY <1>6, <1>14 DEF Between, Below
    <2>2. /\ Range(PxState.slot[q].back) \subseteq Passed(PxState) /\ Range(got[i]) \subseteq Passed(PxState)
          /\ \A d \in Conn : Range(PxState.link[d].down) \subseteq Passed(PxState)
        BY <1>2, <1>5, <1>8, InPassed
    <2> QED BY <2>1, <2>2 DEF Below
<1>18. InParts(r)
    <2>1. Ordered(PxState.slot[q].back)
        BY <1>2, <1>8, <1>14 DEF Downstream, St
    <2> QED BY <1>16, <1>17, <2>1
<1>19. PICK X : X = {m}
    OBVIOUS
<1>20. Downstream(st, svrs) /\ Passed(st) \subseteq Passed(PxState) \cup X
    <2>1. /\ Parts(r, Range(PxState.slot[q].back) \cup X) /\ Below(Range(got[i]), X) /\ svrs[i] = q
          /\ \A d \in Conn : PxState.link[d].own = i => Below(Range(PxState.link[d].down), X)
        BY <1>1, <1>16, <1>17, <1>19
    <2>2. PICK w : w = PxState
        OBVIOUS
    <2>3. /\ w \in St(Pos) /\ st \in St(Pos) /\ svrs \in [Id -> Pos \cup {NULL}] /\ i \in Id /\ q \in Pos /\ 0 \notin Pos
          /\ svrs[i] = q /\ OneEach(svrs) /\ Downstream(w, svrs) /\ Flow(w, st, i, q, r)
        BY <1>2, <1>4, <1>5, <1>8, <1>14, <1>16, <2>1, <2>2
    <2>4. /\ Parts(r, Range(w.slot[q].back) \cup X) /\ InParts(r) /\ Below(Range(got[i]), X)
          /\ \A d \in Conn : w.link[d].own = i => Below(Range(w.link[d].down), X)
        BY <1>18, <2>1, <2>2
    <2>5. Downstream(st, svrs) /\ Passed(st) \subseteq Passed(w) \cup X
        BY <2>3, <2>4, DownstreamFlow
    <2> QED BY <2>2, <2>5
<1>21. Downstream(s, svrs) /\ Passed(s) \subseteq Passed(PxState) \cup X
    <2>1. Downstream(s, svrs) /\ Passed(s) \subseteq Passed(st)
        BY <1>4, <1>9, <1>12, <1>20, DownstreamHanded
    <2> QED BY <1>20, <2>1
<1>22. Steady(s, svrs)
    BY <1>4, <1>8, <1>9, <1>12, <1>15, SteadyLess
<1>23. m.route # "broadcast" => cnt + 1 = Copies
    <2> SUFFICES ASSUME m.route # "broadcast" PROVE cnt + 1 = Copies
        OBVIOUS
    <2>1. ~(cnt > 0) /\ cnt \in Nat
        BY <1>1, <1>5 DEF Base, Typed, Casting
    <2>2. Copies = 1
        BY <1>1 DEF Copies
    <2> QED BY <2>1, <2>2
<1>24. link' = s.link /\ link'[c].up = u /\ \A d \in Conn : Range(link'[d].up) \subseteq Range(link[d].up)
    <2>1. link' = s.link
        BY <1>10 DEF PxState
    <2>2. s.link[c].up = u
        BY <1>9
    <2>3. ASSUME NEW d \in Conn PROVE Range(link'[d].up) \subseteq Range(link[d].up)
        <3>1. link[d] \in LinkT /\ Ordered(link[d].up) /\ UpLess(d, link[d], link'[d])
            BY <1>8, <1>12, PxFields DEF St, UpsLess, Flowing, Upstream
        <3> QED BY <3>1, UpPart
    <2> QED BY <2>1, <2>2, <2>3
<1>25. ASSUME NEW x \in Range(u) PROVE Follows(m, x)
    <2>1. st.link[c].up = link[c].up \/ st.link[c].up = <<>>
        BY <1>4, <1>5, PxFields DEF AllDid, Did
    <2>2. st.link[c].up = link[c].up
        BY <1>4, <1>25, <2>1, NoMessages
    <2>3. CASE u = Tail(link[c].up)
        BY <1>6, <1>25, <2>3
    <2>4. CASE u = link[c].up /\ cnt + 1 # Copies
        <3>1. m.route = "broadcast"
            BY <1>23, <2>4
        <3>2. x = m \/ x \in Range(Tail(link[c].up))
            BY <1>5, <1>25, <2>4, RangeSplit
        <3> QED BY <1>6, <3>1, <3>2 DEF Follows
    <2> QED BY <1>4, <1>5, <2>2, <2>3, <2>4
<1>26. Below(X, Pending')
    <2> SUFFICES ASSUME NEW x \in Pending' PROVE Follows(m, x)
        BY <1>19 DEF Below
    <2>1. (\E d \in Conn : x \in Range(link'[d].up)) \/ (\E j \in Id : x \in Range(sbuf[j]))
        BY <1>13 DEF Pending
    <2>2. CASE \E j \in Id : x \in Range(sbuf[j])
        BY <1>6, <2>2
    <2>3. CASE \E d \in Conn : x \in Range(link'[d].up)
        <3>1. PICK d \in Conn : x \in Range(link'[d].up)
            BY <2>3
        <3>2. CASE d = c
            BY <1>24, <1>25, <3>1, <3>2
        <3>3. CASE d # c
            BY <1>6, <1>24, <3>1, <3>3
        <3> QED BY <3>2, <3>3
    <2> QED BY <2>1, <2>2, <2>3
<1>27. Flowing'
    <2>1. Waiting' /\ left'.msgs \in Nat /\ left'.msgs <= left.msgs
        BY <1>8, <1>10, DoTransferBase DEF Base, LeftT
    <2>2. BufsLess /\ QueueLess /\ svrs' = svrs /\ got' = got
        BY <1>13 DEF BufsLess, QueueLess
    <2>3. X \subseteq Pending
        BY <1>6, <1>19
    <2> QED BY <1>10, <1>12, <1>21, <1>26, <2>1, <2>2, <2>3, MovesOn
<1>28. Steady(PxState, svrs)' /\ RouteRight' /\ (cur' # NULL => Named(svrs', cur'))
    BY <1>10, <1>13, <1>22 DEF Placed, RouteRight
<1> QED BY <1>27, <1>28 DEF Placed

LEMMA DoTransferDropsOrder == ASSUME Base, Placed, Flowing, DoTransferDrops PROVE Placed' /\ Flowing'
<1>1. PICK c, u, s : c = Reading /\ u = Tail(link[c].up) /\ s = Upped(PxState, c, u)
    OBVIOUS
<1>2. c \in Conn /\ u \in Seq(M) /\ PxState' = s
    BY <1>1, DropsState
<1>3. cur # NULL /\ HasInput /\ link[c].up # <<>>
    BY <1>1, ReadingFacts DEF DoTransferDrops
<1>4. UNCHANGED <<svrs, acc, sbuf, got, cur, left>>
    BY DEF DoTransferDrops
<1>5. PxState \in St(Pos) /\ Sockets(PxState) /\ svrs \in [Id -> Pos \cup {NULL}] /\ left \in LeftT
    BY DEF Base, Typed
<1>6. UpsLess /\ s \in St(Pos) /\ SameSlots(PxState, s) /\ LinksLess(PxState, s) /\ Handed(PxState, s, svrs, svrs)
    <2>1. PICK w : w = PxState
        OBVIOUS
    <2>2. /\ w \in St(Pos) /\ Sockets(w) /\ AllDid(PxState, w) /\ w.link[c].up # <<>> /\ u = Tail(w.link[c].up)
          /\ s = Upped(w, c, u)
        BY <1>1, <1>3, <1>5, <2>1, DidSame, PxFields
    <2>3. UpsLess /\ s \in St(Pos) /\ SameSlots(w, s) /\ LinksLess(w, s) /\ Handed(w, s, svrs, svrs)
        BY <1>2, <2>2, UppedLess
    <2> QED BY <2>1, <2>3
<1>7. Steady(s, svrs)
    <2>1. Steady(PxState, svrs)
        BY DEF Placed
    <2> QED BY <1>5, <1>6, <2>1, SteadyLess
<1>8. BufsLess /\ QueueLess /\ left'.msgs <= left.msgs /\ svrs' = svrs /\ got' = got
    BY <1>4, <1>5 DEF BufsLess, QueueLess, LeftT
<1>9. Flowing'
    BY <1>2, <1>6, <1>8, DoTransferDropsBase, HandsOn
<1>10. Steady(PxState, svrs)' /\ RouteRight' /\ (cur' # NULL => Named(svrs', cur'))
    BY <1>2, <1>4, <1>7 DEF Placed, RouteRight
<1> QED BY <1>9, <1>10 DEF Placed

LEMMA RecvEndOrder == ASSUME Base, Placed, Flowing, RecvEnd PROVE Placed' /\ Flowing'
<1>1. cur # NULL /\ cur' = NULL /\ UNCHANGED <<svrs, acc, sbuf, got>> /\ Base'
    BY RecvEndBase DEF RecvEnd
<1>2. CASE UNCHANGED <<slot, freeL, zero, link, left>>
    BY <1>1, <1>2, OrderIdle
<1>3. CASE Become(SocketDisconn(PxState, cur), left)
    <2>1. PICK w, s : w = PxState /\ s = SocketDisconn(w, cur)
        OBVIOUS
    <2>2. w \in St(Pos) /\ Sockets(w) /\ Steady(w, svrs) /\ cur \in Pos /\ LinksOk(w) /\ left \in LeftT
        BY <1>1, <2>1 DEF Base, Typed, Placed, Sockets
    <2>3. PICK i \in Id : svrs[i] = cur
        BY <1>1 DEF Placed, Named
    <2>4. svrs \in [Id -> Pos \cup {NULL}] /\ 0 \notin Pos
        BY PlacedFacts
    <2>5. Steady(s, svrs)
        BY <2>1, <2>2, <2>3, <2>4, SteadyDisconn
    <2>6. /\ s \in St(Pos) /\ s.slot[cur].back = w.slot[cur].back
          /\ \A q \in Pos : q # cur => s.slot[q] = w.slot[q]
        BY <2>1, <2>2, DisconnFields
    <2>7. AllDid(w, s)
        BY <2>1, <2>2, DisconnKeeps
    <2>8. PxState' = s /\ left'.msgs = left.msgs
        BY <1>3, <2>1, <2>2, <2>6, BecomeFields
    <2>9. \A c \in Conn : s.link[c].down = w.link[c].down /\ (s.link[c].own = w.link[c].own \/ s.link[c].down = <<>>)
        BY <2>1, <2>2, DisconnDown
    <2>10. \A q \in Pos : s.slot[q].back = w.slot[q].back
        BY <2>6
    <2>11. DOMAIN s.slot = Pos /\ DOMAIN w.slot = Pos
        BY <2>2, <2>6 DEF St
    <2>12. Handed(w, s, svrs, svrs)
        BY <2>4, <2>9, <2>10, <2>11 DEF Handed
    <2>13. UpsLess
        <3> SUFFICES ASSUME NEW c \in Conn PROVE UpLess(c, link[c], link'[c])
            BY DEF UpsLess
        <3>1. link' = s.link /\ w.link = link
            BY <2>1, <2>8 DEF PxState
        <3>2. LinkOk(link[c]) /\ Did(link[c], link'[c])
            BY <2>2, <2>7, <3>1 DEF LinksOk, AllDid
        <3> QED BY <3>2, DidLess
    <2>14. BufsLess /\ QueueLess /\ left'.msgs <= left.msgs /\ svrs' = svrs /\ got' = got
        BY <1>1, <2>2, <2>8 DEF BufsLess, QueueLess, LeftT
    <2>15. Flowing'
        BY <1>1, <2>1, <2>6, <2>8, <2>12, <2>13, <2>14, HandsOn
    <2>16. Steady(PxState, svrs)' /\ RouteRight'
        BY <1>1, <2>5, <2>8 DEF Placed, RouteRight
    <2> QED BY <1>1, <2>15, <2>16 DEF Placed
<1> QED BY <1>2, <1>3 DEF RecvEnd

\* A step of a server changes one connection, and nothing at the proxy.
LEMMA ServerSteady ==
    ASSUME Base, Base', Placed, NEW c \in Conn, NEW k, link' = [link EXCEPT ![c] = k], UnchangedProxy, LinkLess(link[c], k)
    PROVE  /\ Steady(PxState, svrs)' /\ (cur' # NULL => Named(svrs', cur')) /\ Pos' = Pos /\ PxState' \in St(Pos)
           /\ link'[c] = k /\ \A d \in Conn : d # c => link'[d] = link[d]
<1>1. PICK w, s : w = PxState /\ s = PxState'
    OBVIOUS
<1>2. /\ w.slot = slot /\ w.free = freeL /\ w.zero = zero /\ w.link = link
      /\ s.slot = slot' /\ s.free = freeL' /\ s.zero = zero' /\ s.link = link'
    BY <1>1 DEF PxState
<1>3. UNCHANGED <<slot, freeL, zero, svrs, cur>> /\ Pos' = Pos
    BY DEF UnchangedProxy, Pos
<1>4. w \in St(Pos) /\ s \in St(Pos) /\ Sockets(w) /\ svrs \in [Id -> Pos \cup {NULL}] /\ link \in [Conn -> LinkT]
    BY <1>1, <1>2, <1>3 DEF Base, Typed, St
<1>5. link'[c] = k /\ \A d \in Conn : d # c => link'[d] = link[d]
    BY <1>4
<1>6. SameSlots(w, s)
    BY <1>2, <1>3 DEF SameSlots
<1>7. LinksLess(w, s)
    BY <1>2, <1>5 DEF LinksLess, LinkLess
<1>8. Steady(w, svrs)
    BY <1>1 DEF Placed
<1>9. Steady(s, svrs)
    BY <1>4, <1>6, <1>7, <1>8, SteadyLess
<1> QED BY <1>1, <1>3, <1>4, <1>5, <1>9 DEF Placed

LEMMA ServerOrder ==
    ASSUME Base, Base', Placed, Flowing, NEW c \in Conn, NEW k, link' = [link EXCEPT ![c] = k], UnchangedProxy,
           acc' = acc, got' = got, BufsLess, left'.msgs <= left.msgs, LinkLess(link[c], k), UpLess(c, link[c], k),
           k.down = <<>> \/ (k.own = link[c].own /\ k.down = link[c].down)
    PROVE  Placed' /\ Flowing'
<1>1. /\ Steady(PxState, svrs)' /\ (cur' # NULL => Named(svrs', cur')) /\ PxState' \in St(Pos)
      /\ link'[c] = k /\ \A d \in Conn : d # c => link'[d] = link[d]
    BY ServerSteady
<1>2. UpsLess
    BY <1>1 DEF UpsLess, UpLess, NoYounger
<1>3. PICK s : s = PxState'
    OBVIOUS
<1>4. s.slot = slot /\ s.link = link' /\ svrs' = svrs
    BY <1>3 DEF UnchangedProxy, PxState
<1>5. Handed(PxState, s, svrs, svrs)
    BY <1>1, <1>4, PxFields DEF Handed
<1>6. QueueLess
    BY DEF QueueLess
<1>7. Flowing'
    BY <1>1, <1>2, <1>3, <1>4, <1>5, <1>6, HandsOn
<1> QED BY <1>1, <1>7 DEF Placed, RouteRight

LEMMA RecvDataEndOrder == ASSUME Base, Placed, Flowing, NEW i \in Id, RecvDataEnd(i) PROVE Placed' /\ Flowing'
<1>1. PICK c : c = sfd[i]
    OBVIOUS
<1>2. /\ sfd[i] # Closed /\ link[c].prx = "closed" /\ link' = [link EXCEPT ![c] = NoLink] /\ UnchangedProxy
      /\ acc' = acc /\ got' = got /\ sbuf' = sbuf /\ left' = left
    BY <1>1 DEF RecvDataEnd
<1>3. c \in Conn /\ left.msgs \in Nat
    BY <1>1, <1>2, ServerFacts
<1>4. PICK k : k = NoLink
    OBVIOUS
<1>5. /\ k.prx = "closed" /\ k.up = <<>> /\ k.down = <<>> /\ k.srv = FALSE /\ link' = [link EXCEPT ![c] = k]
    BY <1>2, <1>4, NoLinkFields
<1>6. LinkLess(link[c], k) /\ UpLess(c, link[c], k)
    BY <1>2, <1>5, NoMessages DEF LinkLess, UpLess, NoYounger
<1>7. Base' /\ BufsLess /\ left'.msgs <= left.msgs
    BY <1>2, <1>3, RecvDataEndBase DEF BufsLess
<1> QED BY <1>2, <1>3, <1>5, <1>6, <1>7, ServerOrder

LEMMA ExitOrder == ASSUME Base, Placed, Flowing, NEW i \in Id, Exit(i) PROVE Placed' /\ Flowing'
<1>1. PICK c, k : c = sfd[i] /\ k = ServerEndClosed(link[c])
    OBVIOUS
<1>2. /\ sfd[i] # Closed /\ UnchangedProxy /\ acc' = acc /\ got' = got
      /\ sbuf' = [sbuf EXCEPT ![i] = <<>>] /\ left' = [left EXCEPT !.exits = @ - 1]
    BY DEF Exit
<1>3. link' = [link EXCEPT ![c] = k]
    BY <1>1 DEF Exit
<1>4. c \in Conn /\ link[c] \in LinkT /\ LinkOk(link[c]) /\ left \in LeftT /\ sbuf \in [Id -> Seq(M)]
    BY <1>1, <1>2, ServerFacts
<1>5. /\ k.srv = FALSE /\ k.prx = link[c].prx /\ k.up = link[c].up /\ k.down = <<>>
      /\ link[c].prx # "closed" => k.own = link[c].own
    BY <1>1, <1>4, ServerEndFields
<1>6. link[c].prx = "closed" => link[c].up = <<>>
    BY <1>4 DEF LinkOk
<1>7. LinkLess(link[c], k)
    BY <1>5, NoMessages DEF LinkLess
<1>8. UpLess(c, link[c], k)
    BY <1>5, <1>6 DEF UpLess, NoYounger
<1>9. left'.msgs <= left.msgs
    BY <1>2, <1>4 DEF LeftT
<1>10. BufsLess
    BY <1>2, <1>4 DEF BufsLess
<1> QED BY <1>2, <1>3, <1>4, <1>5, <1>7, <1>8, <1>9, <1>10, ExitBase, ServerOrder

LEMMA ResetArrivesOrder == ASSUME Base, Placed, Flowing, NEW c \in Conn, ResetArrives(c) PROVE Placed' /\ Flowing'
<1>1. PICK k : k = [link[c] EXCEPT !.rst = TRUE]
    OBVIOUS
<1>2. /\ link' = [link EXCEPT ![c] = k] /\ k.prx = link[c].prx /\ k.up = link[c].up
      /\ k.srv = link[c].srv /\ k.own = link[c].own /\ k.down = link[c].down
    BY <1>1, ResetState
<1>3. UnchangedProxy /\ acc' = acc /\ got' = got /\ sbuf' = sbuf /\ left' = [left EXCEPT !.rsts = @ - 1]
    BY DEF ResetArrives
<1>4. left \in LeftT
    BY DEF Base, Typed
<1>5. LinkLess(link[c], k) /\ UpLess(c, link[c], k)
    BY <1>2 DEF LinkLess, UpLess, NoYounger
<1>6. left'.msgs <= left.msgs
    BY <1>3, <1>4 DEF LeftT
<1>7. BufsLess /\ Base'
    BY <1>3, ResetArrivesBase DEF BufsLess
<1> QED BY <1>2, <1>3, <1>5, <1>6, <1>7, ServerOrder

\* A server takes all there is on the one connection that brings it anything.
LEMMA RecvDataOrder == ASSUME Base, Placed, Flowing, NEW i \in Id, RecvData(i) PROVE Placed' /\ Flowing'
<1>1. PICK c, k, g : TookDown(i, c, k, g)
    BY RecvDataState
<1>2. /\ c = sfd[i] /\ c \in Conn /\ link[c].own = i /\ link' = [link EXCEPT ![c] = k]
      /\ k.prx = link[c].prx /\ k.up = link[c].up /\ k.srv = link[c].srv /\ k.own = link[c].own /\ k.down = <<>>
      /\ link[c].down \in Seq(M) /\ g = got[i] \o link[c].down /\ g \in Seq(M) /\ got' = [got EXCEPT ![i] = g]
    BY <1>1 DEF TookDown
<1>3. UnchangedProxy /\ acc' = acc /\ sbuf' = sbuf /\ left' = left /\ Base'
    BY RecvDataBase DEF RecvData
<1>4. LinkLess(link[c], k) /\ UpLess(c, link[c], k)
    BY <1>2, NoMessages DEF LinkLess, UpLess, NoYounger
<1>5. /\ Steady(PxState, svrs)' /\ (cur' # NULL => Named(svrs', cur')) /\ Pos' = Pos /\ PxState' \in St(Pos)
      /\ link'[c] = k /\ \A d \in Conn : d # c => link'[d] = link[d]
    BY <1>2, <1>3, <1>4, ServerSteady
<1>6. /\ got \in [Id -> Seq(M)] /\ link \in [Conn -> LinkT] /\ (\A d \in Conn : LinkOk(link[d])) /\ left.msgs \in Nat
    BY ServerFacts
<1>7. got'[i] = g /\ (\A j \in Id : j # i => got'[j] = got[j]) /\ Range(g) = Range(got[i]) \cup Range(link[c].down)
    BY <1>2, <1>6, RangeConcat
<1>8. Downstream(PxState, svrs) /\ Upstream /\ Between /\ Numbered
    BY DEF Flowing
<1>9. /\ Ordered(got[i]) /\ Ordered(link[c].down) /\ Below(Range(got[i]), Range(link[c].down))
      /\ \A m \in Range(link[c].down) : Dest(m) = i
    BY <1>2, <1>8, PxFields, PlacedFacts DEF Downstream
<1>10. Ordered(g)
    BY <1>2, <1>6, <1>9, OrderedConcat
<1>11. \A d \in Conn : d # c /\ link[d].own = i => link[d].down = <<>>
    <2> SUFFICES ASSUME NEW d \in Conn, d # c, link[d].own = i PROVE link[d].down = <<>>
        OBVIOUS
    <2>1. link[d].srv => sfd[i] = d
        BY DEF Base, Held
    <2>2. ~link[d].srv /\ LinkOk(link[d])
        BY <1>2, <1>6, <2>1
    <2> QED BY <2>2 DEF LinkOk
<1>12. PICK s : s = PxState'
    OBVIOUS
<1>13. s.slot = slot /\ s.link = link' /\ svrs' = svrs /\ DOMAIN slot = Pos
    BY <1>3, <1>12 DEF UnchangedProxy, PxState, Pos
<1>14. RouteRight'
    <2> SUFFICES ASSUME NEW j \in Id, NEW n \in 1 .. Len(got'[j]) PROVE Dest(got'[j][n]) = j
        BY DEF RouteRight
    <2>1. \A x \in Range(got[j]) : Dest(x) = j
        BY <1>6, RangeOf DEF Placed, RouteRight
    <2>2. CASE j # i
        BY <1>7, <2>2 DEF Placed, RouteRight
    <2>3. CASE j = i
        <3>1. got'[j] = g /\ n \in 1 .. Len(g) /\ g \in Seq(M)
            BY <1>2, <1>7, <2>3
        <3>2. g[n] \in Range(g)
            BY <3>1, RangeOf
        <3> QED BY <1>7, <1>9, <2>1, <2>3, <3>1, <3>2
    <2> QED BY <2>2, <2>3
<1>15. ASSUME NEW d \in Conn
       PROVE  Ordered(link'[d].down) /\ Below(Range(got'[link'[d].own]), Range(link'[d].down))
    <2>1. CASE link'[d].down = <<>>
        BY <2>1, NoMessages DEF Below
    <2>2. CASE link'[d].down # <<>>
        <3>1. d # c /\ link'[d] = link[d] /\ link[d].own # i
            BY <1>2, <1>5, <1>11, <2>2
        <3>2. link[d].own \in Id
            BY <1>6 DEF LinkT
        <3>3. got'[link[d].own] = got[link[d].own]
            BY <1>7, <3>1, <3>2
        <3> QED BY <1>8, <3>1, <3>3, PxFields DEF Downstream
    <2> QED BY <2>1, <2>2
<1>16. \A j \in Id : Ordered(got'[j])
    BY <1>7, <1>8, <1>10 DEF Downstream
<1>17. ASSUME NEW j \in Id, svrs[j] # NULL PROVE Below(Range(got'[j]), Range(slot[svrs[j]].back))
    <2>1. Below(Range(got[j]), Range(slot[svrs[j]].back))
        BY <1>8, <1>17, PxFields DEF Downstream
    <2>2. CASE j # i
        BY <1>7, <2>1, <2>2
    <2>3. CASE j = i
        <3>1. Below(Range(link[c].down), Range(slot[svrs[i]].back))
            BY <1>2, <1>8, <1>17, <2>3, PxFields DEF Downstream
        <3> QED BY <1>7, <2>1, <2>3, <3>1 DEF Below
    <2> QED BY <2>2, <2>3
<1>18. ASSUME NEW d \in Conn, svrs[link'[d].own] # NULL
       PROVE  Below(Range(link'[d].down), Range(slot[svrs[link'[d].own]].back))
    <2>1. CASE d = c
        BY <1>2, <1>5, <2>1, NoMessages DEF Below
    <2>2. CASE d # c
        BY <1>5, <1>8, <1>18, <2>2, PxFields DEF Downstream
    <2> QED BY <2>1, <2>2
<1>19. Downstream(PxState, svrs)'
    <2>1. \A p \in Pos : Ordered(slot[p].back)
        BY <1>8, <1>13, PxFields DEF Downstream
    <2>2. \A p \in DOMAIN s.slot : Ordered(s.slot[p].back)
        BY <1>13, <2>1
    <2>3. /\ \A d \in Conn : Ordered(s.link[d].down) /\ Below(Range(got'[s.link[d].own]), Range(s.link[d].down))
          /\ \A j \in Id : svrs'[j] # NULL => Below(Range(got'[j]), Range(s.slot[svrs'[j]].back))
          /\ \A d \in Conn : svrs'[s.link[d].own] # NULL =>
                Below(Range(s.link[d].down), Range(s.slot[svrs'[s.link[d].own]].back))
        BY <1>13, <1>15, <1>17, <1>18
    <2> QED BY <1>12, <1>16, <2>2, <2>3 DEF Downstream
<1>20. Upstream' /\ Pending' \subseteq Pending
    <2>1. UpsLess
        BY <1>4, <1>5 DEF UpsLess, UpLess, NoYounger
    <2>2. BufsLess /\ QueueLess /\ Waiting'
        BY <1>3 DEF BufsLess, QueueLess, Base
    <2> QED BY <1>8, <2>1, <2>2, UpstreamLess
<1>21. Passed(PxState)' \subseteq Passed(PxState)
    <2> SUFFICES ASSUME NEW m \in Passed(PxState)' PROVE m \in Passed(PxState)
        OBVIOUS
    <2>1. \/ \E j \in Id : m \in Range(got'[j])
          \/ \E d \in Conn : m \in Range(s.link[d].down)
          \/ \E p \in Pos : m \in Range(s.slot[p].back)
        BY <1>12, <1>13 DEF Passed
    <2>2. \A x : x \in Passed(PxState) <=> \/ \E j \in Id : x \in Range(got[j])
                                           \/ \E d \in Conn : x \in Range(link[d].down)
                                           \/ \E p \in Pos : x \in Range(slot[p].back)
        BY PxFields, InPassed DEF Base, Typed
    <2>3. CASE \E j \in Id : m \in Range(got'[j])
        <3>1. PICK j \in Id : m \in Range(got'[j])
            BY <2>3
        <3>2. m \in Range(got[j]) \/ m \in Range(link[c].down)
            BY <1>7, <3>1
        <3> QED BY <1>2, <2>2, <3>2
    <2>4. CASE \E d \in Conn : m \in Range(s.link[d].down)
        <3>1. PICK d \in Conn : m \in Range(link'[d].down)
            BY <1>13, <2>4
        <3>2. d # c
            BY <1>2, <1>5, <3>1, NoMessages
        <3> QED BY <1>5, <2>2, <3>1, <3>2
    <2>5. CASE \E p \in Pos : m \in Range(s.slot[p].back)
        BY <1>13, <2>2, <2>5
    <2> QED BY <2>1, <2>3, <2>4, <2>5
<1>22. Between' /\ Numbered'
    <2>1. PICK X : X = {}
        OBVIOUS
    <2>2. /\ X \subseteq Pending /\ Passed(PxState)' \subseteq Passed(PxState) \cup X /\ Below(X, Pending')
          /\ left'.msgs \in Nat /\ left'.msgs <= left.msgs
        BY <1>3, <1>6, <1>21, <2>1 DEF Below
    <2> QED BY <1>8, <1>20, <2>2, MessageTypes, BetweenLess
<1> QED BY <1>5, <1>14, <1>19, <1>20, <1>22 DEF Placed, Flowing

\* A new message is the last of its server's.
LEMMA NewestLast ==
    ASSUME Base, Flowing, NEW m \in M, m.n = Budget.msgs - left.msgs
    PROVE  \A x \in Passed(PxState) \cup Pending : Follows(x, m)
<1> SUFFICES ASSUME NEW x \in Passed(PxState) \cup Pending PROVE Follows(x, m)
    OBVIOUS
<1>1. x.n < Budget.msgs - left.msgs
    BY DEF Flowing, Numbered
<1> QED BY <1>1 DEF Follows

\* It is counted.
LEMMA NewestCounted ==
    ASSUME Base, Placed, Flowing, NEW m \in M, m.n = Budget.msgs - left.msgs, left'.msgs = left.msgs - 1,
           Passed(PxState)' \subseteq Passed(PxState), Pending' \subseteq Pending \cup {m}
    PROVE  Between' /\ Numbered'
<1>1. Budget.msgs \in Nat /\ left.msgs \in Nat
    BY CenterSizes DEF Base, Typed, LeftT
<1>2. \A x \in Passed(PxState) \cup Pending : Follows(x, m)
    BY NewestLast
<1>3. Between'
    BY <1>2 DEF Flowing, Between, Below
<1>4. Numbered'
    <2> SUFFICES ASSUME NEW x \in Passed(PxState)' \cup Pending' PROVE x.n < Budget.msgs - left'.msgs
        BY DEF Numbered
    <2>1. CASE x = m
        BY <1>1, <2>1
    <2>2. CASE x \in Passed(PxState) \cup Pending
        <3>1. x.n < Budget.msgs - left.msgs /\ x.n \in Nat
            BY <2>2, MessageTypes DEF Flowing, Numbered
        <3> QED BY <1>1, <3>1
    <2> QED BY <2>1, <2>2
<1> QED BY <1>3, <1>4

\* It goes behind all that server i has under way: into its backlog, or over its
\* connection, which is the youngest.
LEMMA ClosedUpstream ==
    ASSUME Base, Flowing, NEW i \in Id, NEW m \in M, m.src = i, m.n = Budget.msgs - left.msgs, link' = link, acc' = acc,
           sbuf' = [sbuf EXCEPT ![i] = ReserveData(@, m)]
    PROVE  Upstream' /\ Pending' \subseteq Pending \cup {m}
<1>1. sbuf \in [Id -> Seq(M)] /\ Len(sbuf[i]) <= BufCap /\ link \in [Conn -> LinkT]
    BY ServerFacts
<1>2. PICK b : b = ReserveData(sbuf[i], m)
    OBVIOUS
<1>3. sbuf'[i] = b /\ \A j \in Id : j # i => sbuf'[j] = sbuf[j]
    BY <1>1, <1>2
<1>4. \A x \in Pending : Follows(x, m)
    BY NewestLast
<1>5. Upstream
    BY DEF Flowing
<1>6. Ordered(sbuf[i]) /\ (\A x \in Range(sbuf[i]) : x.src = i) /\ Below(Range(sbuf[i]), {m})
    BY <1>4, <1>5, InPending DEF Upstream, Below
<1>7. Range(b) \subseteq Range(sbuf[i]) \cup {m} /\ Ordered(b)
    BY <1>1, <1>2, <1>6, ReserveFacts
<1>8. \A c \in Conn : Below(Range(link[c].up), {m})
    BY <1>4, InPending DEF Below
<1>9. ASSUME NEW c \in Conn PROVE Below(Range(link[c].up), Range(sbuf'[link[c].own]))
    <2>1. Below(Range(link[c].up), Range(sbuf[link[c].own])) /\ link[c].own \in Id
        BY <1>1, <1>5 DEF Upstream, LinkT
    <2>2. CASE link[c].own = i
        BY <1>3, <1>7, <1>8, <2>1, <2>2 DEF Below
    <2>3. CASE link[c].own # i
        BY <1>3, <2>1, <2>3
    <2> QED BY <2>2, <2>3
<1>10. \A j \in Id : Ordered(sbuf'[j]) /\ \A x \in Range(sbuf'[j]) : x.src = j
    BY <1>3, <1>5, <1>6, <1>7 DEF Upstream
<1>11. \A c, d \in Conn : Earlier(d, c)' => Earlier(d, c)
    BY DEF Earlier
<1>12. Upstream'
    BY <1>5, <1>9, <1>10, <1>11 DEF Upstream
<1>13. ASSUME NEW x \in Pending' PROVE x \in Pending \cup {m}
    <2>1. (\E c \in Conn : x \in Range(link[c].up)) \/ \E j \in Id : x \in Range(sbuf'[j])
        BY <1>13 DEF Pending
    <2> QED BY <1>3, <1>7, <2>1, InPending
<1> QED BY <1>12, <1>13

LEMMA OpenUpstream ==
    ASSUME Base, Waiting', Flowing, NEW i \in Id, NEW m \in M, m.src = i, m.n = Budget.msgs - left.msgs, acc' = acc,
           NEW c, NEW r, NEW k, SentUp(i, m, c, r, k)
    PROVE  Upstream' /\ Pending' \subseteq Pending \cup {m}
<1>1. /\ sbuf \in [Id -> Seq(M)] /\ link \in [Conn -> LinkT] /\ sfd[i] = c /\ c \in Conn /\ r \in ResultT /\ c # Closed
      /\ link[c].srv /\ link[c].own = i /\ LinkOk(link[c]) /\ link[c].up \in Seq(M) /\ r.out \in Seq(M) /\ r.back \in Seq(M)
    <2>1. sfd[i] = c /\ c \in Conn /\ r \in ResultT
        BY DEF SentUp
    <2>2. c # Closed
        BY <2>1, CenterSizes
    <2>3. /\ sbuf \in [Id -> Seq(M)] /\ link \in [Conn -> LinkT] /\ link[c] \in LinkT
          /\ link[c].srv /\ link[c].own = i /\ LinkOk(link[c])
        BY <2>1, <2>2, ServerFacts
    <2> QED BY <2>1, <2>2, <2>3 DEF LinkT, ResultT
<1>2. /\ link'[c] = k /\ (\A d \in Conn : d # c => link'[d] = link[d])
      /\ sbuf'[i] = r.back /\ \A j \in Id : j # i => sbuf'[j] = sbuf[j]
    BY <1>1 DEF SentUp
<1>3. \A x \in Pending : Follows(x, m)
    BY NewestLast
<1>4. Upstream
    BY DEF Flowing
<1>5. Ordered(sbuf[i]) /\ (\A x \in Range(sbuf[i]) : x.src = i) /\ Below(Range(sbuf[i]), {m})
    BY <1>3, <1>4, InPending DEF Upstream, Below
<1>6. /\ Range(r.out) \subseteq Range(sbuf[i]) \cup {m} /\ Range(r.back) \subseteq Range(sbuf[i]) \cup {m}
      /\ Ordered(r.out) /\ Ordered(r.back) /\ Below(Range(r.out), Range(r.back))
    <2>1. Parts(r, Range(sbuf[i]) \cup {m}) /\ (Ordered(sbuf[i]) /\ Below(Range(sbuf[i]), {m}) => InParts(r))
        BY DEF SentUp
    <2> QED BY <1>5, <2>1 DEF Parts, InParts
<1>7. ASSUME NEW d \in Conn, link[d].own = i
      PROVE  Below(Range(link[d].up), Range(r.out)) /\ Below(Range(link[d].up), Range(r.back))
    <2>1. Below(Range(link[d].up), Range(sbuf[i]))
        BY <1>4, <1>7 DEF Upstream
    <2>2. Below(Range(link[d].up), {m})
        BY <1>3, InPending DEF Below
    <2> QED BY <1>6, <2>1, <2>2 DEF Below
<1>8. PICK u : u = k.up
    OBVIOUS
<1>9. /\ Ordered(u) /\ (\A x \in Range(u) : x.src = i) /\ Range(u) \subseteq Range(link[c].up) \cup Range(r.out)
      /\ Below(Range(u), Range(r.back))
    <2>1. CASE link[c].prx = "closed"
        <3>1. u = <<>>
            BY <1>1, <1>8, <2>1 DEF SentUp, LinkOk
        <3> QED BY <3>1, NoMessages DEF Below
    <2>2. CASE link[c].prx # "closed"
        <3>1. u = link[c].up \o r.out
            BY <1>8, <2>2 DEF SentUp
        <3>2. Range(u) = Range(link[c].up) \cup Range(r.out)
            BY <1>1, <3>1, RangeConcat
        <3>3. Ordered(link[c].up) /\ (\A x \in Range(link[c].up) : x.src = i)
            BY <1>1, <1>4 DEF Upstream
        <3>4. Ordered(u)
            BY <1>1, <1>6, <1>7, <3>1, <3>3, OrderedConcat
        <3>5. Below(Range(u), Range(r.back))
            BY <1>1, <1>6, <1>7, <3>2 DEF Below
        <3>6. \A x \in Range(u) : x.src = i
            BY <1>5, <1>6, <3>2, <3>3
        <3> QED BY <3>2, <3>4, <3>5, <3>6
    <2> QED BY <2>1, <2>2
<1>10. /\ k.prx = link[c].prx /\ (k.srv => link[c].srv) /\ (k.own = i \/ link[c].prx = "closed")
    BY <1>1 DEF SentUp
<1>11. u # <<>> => k.own = i
    BY <1>1, <1>8, <1>10 DEF SentUp, LinkOk
<1>12. NoneYounger
    BY <1>1, <1>2, <1>10 DEF NoneYounger, NoYounger
<1>13. ASSUME NEW d \in Conn
       PROVE  /\ Ordered(link'[d].up) /\ (\A x \in Range(link'[d].up) : x.src = link'[d].own)
              /\ Below(Range(link'[d].up), Range(sbuf'[link'[d].own]))
    <2>1. CASE d = c /\ u = <<>>
        BY <1>2, <1>8, <2>1, NoMessages DEF Below
    <2>2. CASE d = c /\ u # <<>>
        BY <1>2, <1>8, <1>9, <1>11, <2>2
    <2>3. CASE d # c
        <3>1. /\ link'[d] = link[d] /\ Ordered(link[d].up) /\ (\A x \in Range(link[d].up) : x.src = link[d].own)
              /\ Below(Range(link[d].up), Range(sbuf[link[d].own])) /\ link[d].own \in Id
            BY <1>1, <1>2, <1>4, <2>3 DEF Upstream, LinkT
        <3>2. CASE link[d].own = i
            BY <1>2, <1>7, <3>1, <3>2
        <3>3. CASE link[d].own # i
            BY <1>2, <3>1, <3>3
        <3> QED BY <3>2, <3>3
    <2> QED BY <2>1, <2>2, <2>3
<1>14. \A j \in Id : Ordered(sbuf'[j]) /\ \A x \in Range(sbuf'[j]) : x.src = j
    BY <1>2, <1>4, <1>5, <1>6 DEF Upstream
<1>15. ASSUME NEW e \in Conn, NEW d \in Conn, Earlier(d, e)'
       PROVE  ~link'[d].srv /\ Below(Range(link'[d].up), Range(link'[e].up))
    <2>1. Earlier(d, e)
        BY <1>12, <1>15, EarlierLess DEF QueueLess
    <2>2. ~link[d].srv /\ Below(Range(link[d].up), Range(link[e].up)) /\ link[d].own = link[e].own
        BY <2>1 DEF Upstream, Earlier, Flowing
    <2>3. d # c /\ link'[d] = link[d]
        BY <1>1, <1>2, <2>2
    <2>4. CASE e # c
        BY <1>2, <2>2, <2>3, <2>4
    <2>5. CASE e = c
        <3>1. Below(Range(link[d].up), Range(r.out))
            BY <1>1, <1>7, <2>2, <2>5
        <3> QED BY <1>2, <1>8, <1>9, <2>2, <2>3, <2>5, <3>1 DEF Below
    <2> QED BY <2>4, <2>5
<1>16. Upstream'
    BY <1>13, <1>14, <1>15 DEF Upstream
<1>17. ASSUME NEW x \in Pending' PROVE x \in Pending \cup {m}
    <2>1. (\E d \in Conn : x \in Range(link'[d].up)) \/ \E j \in Id : x \in Range(sbuf'[j])
        BY <1>17 DEF Pending
    <2>2. \A y : y \in Range(link[c].up) \/ y \in Range(sbuf[i]) => y \in Pending
        BY <1>1, InPending
    <2>3. CASE \E j \in Id : x \in Range(sbuf'[j])
        BY <1>2, <1>6, <2>2, <2>3, InPending
    <2>4. CASE \E d \in Conn : x \in Range(link'[d].up)
        <3>1. PICK d \in Conn : x \in Range(link'[d].up)
            BY <2>4
        <3>2. CASE d = c
            BY <1>2, <1>6, <1>8, <1>9, <2>2, <3>1, <3>2
        <3>3. CASE d # c
            BY <1>2, <3>1, <3>3, InPending
        <3> QED BY <3>2, <3>3
    <2> QED BY <2>1, <2>3, <2>4
<1> QED BY <1>16, <1>17

LEMMA SendMessageOrder ==
    ASSUME Base, Placed, Flowing, NEW i \in Id, SendMessageToCenter(i) PROVE Placed' /\ Flowing'
<1>1. PICK m \in M : m.src = i /\ m.n = Budget.msgs - left.msgs /\ (SendWhenClosed(i, m) \/ SendWhenOpen(i, m))
    BY SendState
<1>2. left.msgs > 0 /\ UnchangedProxy /\ UNCHANGED <<acc, got>>
    BY DEF SendMessageToCenter
<1>3. Base' /\ left'.msgs = left.msgs - 1
    BY <1>1, <1>2, SendBase
<1>4. PICK s : s = PxState'
    OBVIOUS
<1>5. s.slot = slot /\ s.free = freeL /\ s.zero = zero /\ s.link = link' /\ svrs' = svrs /\ cur' = cur /\ Pos' = Pos
    BY <1>2, <1>4 DEF UnchangedProxy, PxState, Pos
<1>6. s \in St(Pos) /\ Waiting' /\ PxState \in St(Pos) /\ svrs \in [Id -> Pos \cup {NULL}] /\ Sockets(PxState)
    BY <1>3, <1>4, <1>5 DEF Base, Typed
<1>7. /\ Upstream' /\ Pending' \subseteq Pending \cup {m} /\ LinksLess(PxState, s)
      /\ \A d \in Conn : link'[d].down = <<>> \/ (link'[d].own = link[d].own /\ link'[d].down = link[d].down)
    <2>1. CASE SendWhenClosed(i, m)
        <3>1. link' = link /\ sbuf' = [sbuf EXCEPT ![i] = ReserveData(@, m)] /\ acc' = acc
            BY <1>2, <2>1 DEF SendWhenClosed
        <3>2. Upstream' /\ Pending' \subseteq Pending \cup {m}
            BY <1>1, <3>1, ClosedUpstream
        <3>3. LinksLess(PxState, s)
            BY <1>5, <3>1, PxFields DEF LinksLess, LinkLess
        <3> QED BY <3>1, <3>2, <3>3
    <2>2. CASE SendWhenOpen(i, m)
        <3>1. PICK c, r, k : SentUp(i, m, c, r, k)
            BY <2>2, SendOpenState
        <3>2. Upstream' /\ Pending' \subseteq Pending \cup {m}
            BY <1>1, <1>2, <1>6, <3>1, OpenUpstream
        <3>3. link \in [Conn -> LinkT] /\ c \in Conn
            BY <3>1, ServerFacts DEF SentUp
        <3>4. /\ link'[c] = k /\ (\A d \in Conn : d # c => link'[d] = link[d]) /\ k.prx = link[c].prx
              /\ \/ k.own = link[c].own /\ k.down = link[c].down
                 \/ k.down = <<>> /\ link[c].prx = "closed"
            BY <3>1, <3>3 DEF SentUp
        <3>5. LinkLess(link[c], k)
            BY <3>4, NoMessages DEF LinkLess
        <3>6. LinksLess(PxState, s)
            BY <1>5, <3>4, <3>5, PxFields DEF LinksLess, LinkLess
        <3> QED BY <3>2, <3>4, <3>6
    <2> QED BY <1>1, <2>1, <2>2
<1>8. Steady(s, svrs)
    <2>1. Steady(PxState, svrs) /\ SameSlots(PxState, s)
        BY <1>5, <1>6, PxFields DEF Placed, SameSlots
    <2> QED BY <1>6, <1>7, <2>1, SteadyLess
<1>9. Handed(PxState, s, svrs, svrs)
    BY <1>5, <1>7, PxFields DEF Handed
<1>10. Downstream(s, svrs) /\ Passed(s) \subseteq Passed(PxState)
    <2>1. Downstream(PxState, svrs)
        BY DEF Flowing
    <2> QED BY <1>6, <1>9, <2>1, DownstreamHanded
<1>11. Downstream(PxState, svrs)' /\ Passed(PxState)' \subseteq Passed(PxState)
    <2>1. Passed(PxState)' = Passed(s)
        BY <1>2, <1>4 DEF Passed
    <2>2. Downstream(PxState, svrs)'
        BY <1>2, <1>4, <1>5, <1>10 DEF Downstream
    <2> QED BY <1>10, <2>1, <2>2
<1>12. Between' /\ Numbered'
    BY <1>1, <1>3, <1>7, <1>11, NewestCounted
<1>13. Steady(PxState, svrs)' /\ RouteRight' /\ (cur' # NULL => Named(svrs', cur'))
    BY <1>2, <1>4, <1>5, <1>8 DEF Placed, RouteRight
<1> QED BY <1>7, <1>11, <1>12, <1>13 DEF Placed, Flowing

\* A server connects anew: all it has under way on older connections comes before
\* its backlog, which is the first it sends.
LEMMA DialUpstream ==
    ASSUME Base, Waiting', Upstream, NEW i \in Id, NEW c, NEW k, Dials(i, c, k)
    PROVE  Upstream' /\ Pending' \subseteq Pending
<1>1. /\ sbuf \in [Id -> Seq(M)] /\ link \in [Conn -> LinkT] /\ acc \in Seq(Conn)
      /\ \A d \in Conn : link[d] \in LinkT /\ link[d].own \in Id
    BY ServerFacts DEF LinkT
<1>2. c \in Conn /\ link[c] = NoLink /\ sfd[i] = Closed /\ link' = [link EXCEPT ![c] = k]
    BY DEF Dials
<1>3. /\ link'[c] = k /\ (\A d \in Conn : d # c => link'[d] = link[d])
      /\ (k.up = sbuf[i] /\ sbuf'[i] = <<>>) \/ (k.up = <<>> /\ sbuf'[i] = sbuf[i])
      /\ \A j \in Id : j # i => sbuf'[j] = sbuf[j]
    BY <1>1, <1>2 DEF Dials
<1>4. k.own = i /\ k.prx # "open" /\ (k.up = sbuf[i] \/ k.up = <<>>)
    BY DEF Dials
<1>5. Ordered(sbuf[i]) /\ (\A m \in Range(sbuf[i]) : m.src = i)
    BY DEF Upstream
<1>6. \A j \in Id : Ordered(sbuf'[j]) /\ \A m \in Range(sbuf'[j]) : m.src = j
    BY <1>3, NoMessages DEF Upstream
<1>7. ASSUME NEW d \in Conn
      PROVE  /\ Ordered(link'[d].up) /\ (\A m \in Range(link'[d].up) : m.src = link'[d].own)
             /\ Below(Range(link'[d].up), Range(sbuf'[link'[d].own]))
    <2>1. CASE d = c
        BY <1>3, <1>4, <1>5, <1>6, <2>1, NoMessages DEF Below
    <2>2. CASE d # c
        <3>1. /\ link'[d] = link[d] /\ Ordered(link[d].up) /\ (\A m \in Range(link[d].up) : m.src = link[d].own)
              /\ Below(Range(link[d].up), Range(sbuf[link[d].own])) /\ link[d].own \in Id
            BY <1>1, <1>3, <2>2 DEF Upstream
        <3>2. CASE link[d].own = i
            BY <1>3, <3>1, <3>2, NoMessages DEF Below
        <3>3. CASE link[d].own # i
            BY <1>3, <3>1, <3>3
        <3> QED BY <3>2, <3>3
    <2> QED BY <2>1, <2>2
<1>8. c \notin Range(acc)
    <2>1. link[c].prx = "closed"
        BY <1>2, NoLinkFields
    <2>2. \A n \in 1 .. Len(acc) : acc[n] # c
        BY <2>1 DEF Base, Waiting
    <2> QED BY <1>1, <2>2, RangeOf
<1>9. Len(acc) \in Nat /\ \/ acc' = acc /\ k.prx = "closed"
                          \/ /\ Len(acc') = Len(acc) + 1 /\ acc'[Len(acc) + 1] = c
                             /\ \A n \in 1 .. Len(acc) : acc'[n] = acc[n]
    <2>1. (k.prx = "queued" /\ acc' = Append(acc, c)) \/ (k.prx = "closed" /\ acc' = acc)
        BY DEF Dials
    <2> QED BY <1>1, <1>2, <2>1, AppendProperties
<1>10. ASSUME NEW e \in Conn, NEW d \in Conn, Earlier(d, e)'
       PROVE  ~link'[d].srv /\ Below(Range(link'[d].up), Range(link'[e].up))
    <2>1. /\ d # e /\ link'[d].own = link'[e].own /\ link'[e].prx = "queued"
          /\ \/ link'[d].prx = "open"
             \/ \E n, l \in 1 .. Len(acc') : n < l /\ acc'[n] = d /\ acc'[l] = e
        BY <1>10 DEF Earlier
    <2>2. ASSUME NEW n \in 1 .. Len(acc'), NEW l \in 1 .. Len(acc'), n < l, acc'[n] = d, acc'[l] = e
          PROVE  n \in 1 .. Len(acc) /\ acc[n] = d /\ (l \in 1 .. Len(acc) \/ e = c) /\ (l \in 1 .. Len(acc) => acc[l] = e)
        <3>1. CASE acc' = acc
            BY <2>2, <3>1
        <3>2. CASE /\ Len(acc') = Len(acc) + 1 /\ acc'[Len(acc) + 1] = c
                   /\ \A q \in 1 .. Len(acc) : acc'[q] = acc[q]
            <4>1. n \in 1 .. Len(acc)
                BY <1>9, <2>2, <3>2
            <4>2. l \in 1 .. Len(acc) \/ l = Len(acc) + 1
                <5>1. PICK z : z = Len(acc)
                    OBVIOUS
                <5>2. z \in Nat /\ l \in 1 .. z + 1
                    BY <1>9, <2>2, <3>2, <5>1
                <5>3. l \in 1 .. z \/ l = z + 1
                    BY <5>2
                <5> QED BY <5>1, <5>3
            <4> QED BY <2>2, <3>2, <4>1, <4>2
        <3> QED BY <1>9, <3>1, <3>2
    <2>3. d # c
        <3> SUFFICES ASSUME d = c PROVE FALSE
            OBVIOUS
        <3>1. link'[d].prx # "open"
            BY <1>3, <1>4
        <3>2. PICK n, l \in 1 .. Len(acc') : n < l /\ acc'[n] = d /\ acc'[l] = e
            BY <2>1, <3>1
        <3>3. n \in 1 .. Len(acc) /\ acc[n] = c
            BY <2>2, <3>2
        <3> QED BY <1>1, <1>8, <3>3, RangeOf
    <2>4. link'[d] = link[d]
        BY <1>3, <2>3
    <2>5. CASE e = c
        <3>1. link[d].own = i
            BY <1>3, <1>4, <2>1, <2>4, <2>5
        <3>2. ~link[d].srv
            <4>1. link[d].srv => sfd[i] = d
                BY <3>1 DEF Base, Held
            <4> QED BY <1>2, <4>1, CenterSizes
        <3>3. Below(Range(link[d].up), Range(sbuf[i]))
            BY <3>1 DEF Upstream
        <3>4. Below(Range(link[d].up), Range(k.up))
            BY <1>4, <3>3, NoMessages DEF Below
        <3> QED BY <1>3, <2>4, <2>5, <3>2, <3>4
    <2>6. CASE e # c
        <3>1. link'[e] = link[e]
            BY <1>3, <2>6
        <3>2. Earlier(d, e)
            <4>1. CASE link'[d].prx = "open"
                BY <2>1, <2>4, <3>1, <4>1 DEF Earlier
            <4>2. CASE \E n, l \in 1 .. Len(acc') : n < l /\ acc'[n] = d /\ acc'[l] = e
                <5>1. PICK n, l \in 1 .. Len(acc') : n < l /\ acc'[n] = d /\ acc'[l] = e
                    BY <4>2
                <5>2. n \in 1 .. Len(acc) /\ acc[n] = d /\ l \in 1 .. Len(acc) /\ acc[l] = e
                    BY <2>2, <2>6, <5>1
                <5> QED BY <2>1, <2>4, <3>1, <5>1, <5>2 DEF Earlier
            <4> QED BY <2>1, <4>1, <4>2
        <3>3. ~link[d].srv /\ Below(Range(link[d].up), Range(link[e].up))
            BY <3>2 DEF Upstream
        <3> QED BY <2>4, <3>1, <3>3
    <2> QED BY <2>5, <2>6
<1>11. Upstream'
    BY <1>6, <1>7, <1>10 DEF Upstream
<1>12. ASSUME NEW x \in Pending' PROVE x \in Pending
    <2>1. (\E d \in Conn : x \in Range(link'[d].up)) \/ \E j \in Id : x \in Range(sbuf'[j])
        BY <1>12 DEF Pending
    <2>2. CASE \E d \in Conn : x \in Range(link'[d].up)
        <3>1. PICK d \in Conn : x \in Range(link'[d].up)
            BY <2>2
        <3> QED BY <1>3, <1>4, <3>1, NoMessages, InPending
    <2>3. CASE \E j \in Id : x \in Range(sbuf'[j])
        BY <1>3, <2>3, NoMessages, InPending
    <2> QED BY <2>1, <2>2, <2>3
<1> QED BY <1>11, <1>12

LEMMA DialOrder ==
    ASSUME Base, Placed, Flowing, NEW i \in Id, NEW c, NEW k, Dials(i, c, k) PROVE Placed' /\ Flowing'
<1>1. /\ c \in Conn /\ link[c] = NoLink /\ link' = [link EXCEPT ![c] = k] /\ UnchangedProxy /\ got' = got
      /\ left'.msgs = left.msgs
    BY DEF Dials
<1>2. Base'
    BY DialBase
<1>3. left.msgs \in Nat
    BY ServerFacts
<1>4. k.prx # "open" /\ k.down = <<>>
    BY DEF Dials
<1>5. link[c].prx = "closed"
    BY <1>1, NoLinkFields
<1>6. LinkLess(link[c], k)
    BY <1>4, <1>5, NoMessages DEF LinkLess
<1>7. /\ Steady(PxState, svrs)' /\ (cur' # NULL => Named(svrs', cur')) /\ PxState' \in St(Pos)
      /\ link'[c] = k /\ \A d \in Conn : d # c => link'[d] = link[d]
    BY <1>1, <1>2, <1>6, ServerSteady
<1>8. PICK s : s = PxState'
    OBVIOUS
<1>9. s.slot = slot /\ s.link = link' /\ svrs' = svrs
    BY <1>1, <1>2, <1>8 DEF UnchangedProxy, PxState
<1>10. Handed(PxState, s, svrs, svrs)
    BY <1>4, <1>7, <1>9, PxFields DEF Handed
<1>11. Downstream(PxState, svrs) /\ PxState \in St(Pos) /\ Waiting' /\ Upstream
    BY <1>1, <1>2 DEF Flowing, Base, Typed
<1>12. Downstream(s, svrs) /\ Passed(s) \subseteq Passed(PxState)
    BY <1>7, <1>8, <1>10, <1>11, DownstreamHanded
<1>13. Downstream(PxState, svrs)' /\ Passed(PxState)' \subseteq Passed(PxState)
    <2>1. Passed(PxState)' = Passed(s)
        BY <1>1, <1>2, <1>8 DEF Passed
    <2>2. Downstream(PxState, svrs)'
        BY <1>1, <1>2, <1>8, <1>9, <1>12 DEF Downstream
    <2> QED BY <1>12, <2>1, <2>2
<1>14. Upstream' /\ Pending' \subseteq Pending
    BY <1>1, <1>2, <1>11, DialUpstream
<1>15. Between' /\ Numbered'
    <2>1. PICK X : X = {}
        OBVIOUS
    <2>2. /\ X \subseteq Pending /\ Passed(PxState)' \subseteq Passed(PxState) \cup X /\ Below(X, Pending')
          /\ left'.msgs \in Nat /\ left'.msgs <= left.msgs
        BY <1>1, <1>2, <1>3, <1>13, <2>1 DEF Below
    <2>3. Between /\ Numbered
        BY DEF Flowing
    <2> QED BY <1>14, <2>2, <2>3, MessageTypes, BetweenLess
<1>16. RouteRight'
    BY <1>1, <1>2 DEF Placed, RouteRight
<1> QED BY <1>7, <1>13, <1>14, <1>15, <1>16 DEF Placed, Flowing

\* What has been mixed up once stays so.
LEMMA StaleStays == ASSUME Base, [Next]_vars, ~stale' PROVE ~stale
<1>1. CASE ProxyStep
    BY <1>1 DEF ProxyStep, EpollWait, AcceptConnectNoSlot, AcceptFails, AcceptConnectLate, AcceptConnect, AcceptConnectDies, EpollErr,
                EpollIn, DoTransfer, DoTransferDrops, DoTransferDies, RecvEnd, Start
<1>2. CASE Restart
    BY <1>2 DEF Restart, Start
<1>3. CASE \E i \in Id : ServerStep(i) \/ RegisterFails(i) \/ SendMessageToCenter(i) \/ Exit(i)
    BY <1>3 DEF ServerStep, CheckConnect, RegisterFails, Connect, RecvData, RecvDataEnd, SendMessageToCenter, Exit, UnchangedProxy
<1>4. CASE \E c \in Conn : ResetArrives(c)
    BY <1>4 DEF ResetArrives, UnchangedProxy
<1>5. CASE UNCHANGED vars
    BY <1>5 DEF vars
<1> QED BY <1>1, <1>2, <1>3, <1>4, <1>5 DEF Next

\* Every step keeps what holds until sockets are mixed up.
LEMMA NextOrder == ASSUME Base, Orderly, [Next]_vars PROVE Orderly'
<1> SUFFICES ASSUME ~stale' PROVE Placed' /\ Flowing'
    BY DEF Orderly
<1>1. ~stale
    BY StaleStays
<1>2. Placed /\ Flowing
    BY <1>1 DEF Orderly
<1>3. CASE ProxyStep
    <2>1. CASE EpollWait
        BY <1>2, <2>1, EpollWaitOrder
    <2>2. CASE AcceptConnectNoSlot
        BY <1>2, <2>2, AcceptConnectNoSlotOrder
    <2>3. CASE AcceptConnectLate
        BY <1>2, <2>3, AcceptConnectLateOrder
    <2>4. CASE AcceptConnect
        BY <1>2, <2>4, AcceptConnectOrder
    <2>5. CASE AcceptConnectDies
        BY <1>2, <2>5, AcceptConnectDiesOrder
    <2>6. ASSUME NEW p \in Pos, EpollErr(p) PROVE FALSE
        BY <2>6 DEF EpollErr
    <2>7. ASSUME NEW p \in Pos, EpollIn(p) PROVE Placed' /\ Flowing'
        BY <1>2, <2>7, EpollInOrder
    <2>8. CASE DoTransfer
        BY <1>2, <2>8, DoTransferOrder
    <2>9. CASE DoTransferDrops
        BY <1>2, <2>9, DoTransferDropsOrder
    <2>10. CASE DoTransferDies
        BY <1>2, <2>10, DoTransferDiesOrder
    <2>11. CASE RecvEnd
        BY <1>2, <2>11, RecvEndOrder
    <2>12. CASE AcceptFails
        <3>1. Base'
            BY <2>12, AcceptFailsBase
        <3> QED BY <1>2, <2>12, <3>1, AcceptFailsOrder
    <2> QED BY <1>3, <2>1, <2>2, <2>3, <2>4, <2>5, <2>6, <2>7, <2>8, <2>9, <2>10, <2>11, <2>12 DEF ProxyStep
<1>4. CASE Restart
    BY <1>2, <1>4, RestartOrder
<1>5. ASSUME NEW i \in Id, ServerStep(i) \/ RegisterFails(i) \/ SendMessageToCenter(i) \/ Exit(i)
      PROVE  Placed' /\ Flowing'
    <2>1. CASE CheckConnect(i)
        BY <1>2, <2>1, CheckConnectDials, DialOrder
    <2>2. CASE RecvData(i)
        BY <1>2, <2>2, RecvDataOrder
    <2>3. CASE RecvDataEnd(i)
        BY <1>2, <2>3, RecvDataEndOrder
    <2>4. CASE SendMessageToCenter(i)
        BY <1>2, <2>4, SendMessageOrder
    <2>5. CASE Exit(i)
        BY <1>2, <2>5, ExitOrder
    <2>6. CASE RegisterFails(i)
        BY <1>2, <2>6, RegisterFailsDials, DialOrder
    <2> QED BY <1>5, <2>1, <2>2, <2>3, <2>4, <2>5, <2>6 DEF ServerStep
<1>6. ASSUME NEW c \in Conn, ResetArrives(c) PROVE Placed' /\ Flowing'
    BY <1>2, <1>6, ResetArrivesOrder
<1>7. CASE UNCHANGED vars
    <2>1. UNCHANGED <<slot, freeL, svrs, zero, link, sbuf, got, acc>> /\ left' = left /\ cur' = cur
        BY <1>7 DEF vars
    <2>2. Base' /\ (cur' # NULL => Named(svrs, cur'))
        BY <1>2, <2>1, NextBase DEF Placed
    <2> QED BY <1>2, <2>1, <2>2, OrderIdle
<1> QED BY <1>3, <1>4, <1>5, <1>6, <1>7 DEF Next

-----------------------------------------------------------------------------
(* The theorems.                                                           *)

\* Everything is empty at first.
LEMMA InitIInv == Init => IInv
<1> SUFFICES ASSUME Init PROVE IInv
    OBVIOUS
<1>1. PICK n \in SlotNums : slot = [p \in 1 .. n |-> Empty]
    BY DEF Init
<1>2. n \in Nat /\ Pos = 1 .. n /\ NULL \notin Pos /\ NULL = 0
    BY <1>1, CenterSizes DEF Pos
<1>3. PICK none : none = <<>>
    OBVIOUS
<1>4. none \in Seq(M) /\ Len(none) = 0 /\ Range(none) = {} /\ Ordered(none)
    BY <1>3, NoMessages
<1>5. /\ freeL = [p \in Pos |-> p] /\ zero = Stdin /\ svrs = [i \in Id |-> NULL]
      /\ batch = {} /\ cur = NULL /\ cnt = 0 /\ acc = <<>> /\ link = [c \in Conn |-> NoLink]
      /\ sfd = [i \in Id |-> Closed] /\ sbuf = [i \in Id |-> none] /\ got = [i \in Id |-> none]
      /\ stale = FALSE /\ left = Budget
    BY <1>3 DEF Init
<1>6. \A p \in Pos : slot[p] = Empty /\ slot[p].fd = 0 /\ slot[p].back = none
    BY <1>1, <1>2, <1>3 DEF Empty
<1>7. \A c \in Conn : /\ link[c] \in LinkT /\ LinkOk(link[c]) /\ link[c].srv = FALSE /\ link[c].prx = "closed"
                      /\ link[c].up = none /\ link[c].down = none /\ link[c].own \in Id
    BY <1>3, <1>5, NoLinkFields, CenterSizes
<1>8. /\ \A i \in Id : svrs[i] = NULL /\ sfd[i] = Closed /\ sbuf[i] = none /\ got[i] = none
    BY <1>5
<1>9. freeL \in Seq(Pos) /\ Len(freeL) = n /\ \A k \in 1 .. n : freeL[k] = k
    BY <1>2, <1>5
<1>10. Budget \in LeftT /\ Budget.msgs \in Nat
    BY CenterAssumption DEF LeftT
<1>11. PICK w : w = PxState
    OBVIOUS
<1>12. w.slot = slot /\ w.free = freeL /\ w.zero = zero /\ w.link = link /\ w.again = left.again
    BY <1>11, PxFields
<1>13. w \in St(Pos)
    <2>1. Empty \in SlotT
        BY <1>3, <1>4 DEF Empty, SlotT
    <2>2. slot \in [Pos -> SlotT]
        BY <1>1, <1>2, <2>1
    <2>3. link \in [Conn -> LinkT] /\ zero \in Conn \cup {Stdin, Closed} /\ left.again \in Int
        BY <1>5, <1>10, NoLinkFields DEF LeftT
    <2> QED BY <1>9, <1>11, <2>2, <2>3 DEF PxState, St
<1>14. Typed
    <2>1. svrs \in [Id -> Pos \cup {NULL}] /\ cur \in Pos \cup {NULL} /\ cnt \in Nat
        BY <1>5
    <2>2. acc \in Seq(Conn) /\ sfd \in [Id -> Conn \cup {Closed}]
        BY <1>5
    <2>3. sbuf \in [Id -> Seq(M)] /\ got \in [Id -> Seq(M)] /\ \A i \in Id : Len(sbuf[i]) <= BufCap
        BY <1>4, <1>5, CenterSizes
    <2>4. stale \in BOOLEAN
        BY <1>5
    <2>5. left \in LeftT /\ left.msgs <= Budget.msgs
        <3>1. left = Budget
            BY <1>5
        <3> QED BY <1>10, <3>1
    <2> QED BY <1>2, <1>11, <1>13, <2>1, <2>2, <2>3, <2>4, <2>5 DEF Typed
<1>15. Sockets(w)
    <2>1. DOMAIN w.slot = Pos
        BY <1>12 DEF Pos
    <2>2. BacksFit(w)
        BY <1>4, <1>6, <1>12, <2>1, CenterSizes DEF BacksFit
    <2>3. FdsOpen(w)
        BY <1>5, <1>6, <1>12, <2>1, CenterSizes DEF FdsOpen
    <2>4. LinksOk(w)
        BY <1>7, <1>12 DEF LinksOk
    <2> QED BY <2>2, <2>3, <2>4 DEF Sockets
<1>16. Waiting
    BY <1>5, <1>7 DEF Waiting
<1>17. Held
    BY <1>7, <1>8 DEF Held
<1>18. Casting
    BY <1>5 DEF Casting
<1>19. Steady(w, svrs)
    <2>1. FreeOnce(w)
        BY <1>9, <1>12 DEF FreeOnce
    <2>2. \A p \in Pos : p \in Range(freeL)
        BY <1>2, <1>9, RangeOf
    <2>3. \A p \in Pos : ~Named(svrs, p)
        BY <1>2, <1>8 DEF Named
    <2>4. FreeOrNamed(w, svrs)
        BY <1>6, <1>12, <2>2, <2>3 DEF FreeOrNamed, Pos
    <2>5. OneEach(svrs) /\ OwnSlots(w, svrs)
        BY <1>8 DEF OneEach, OwnSlots
    <2>6. OpenNamed(w, svrs) /\ OwnDown(w)
        BY <1>4, <1>7, <1>12 DEF OpenNamed, OwnDown
    <2> QED BY <1>5, <1>12, <2>1, <2>4, <2>5, <2>6 DEF Steady
<1>20. Placed
    <2>1. RouteRight
        BY <1>4, <1>8 DEF RouteRight
    <2> QED BY <1>5, <1>11, <1>19, <2>1 DEF Placed
<1>21. Downstream(w, svrs)
    BY <1>4, <1>6, <1>7, <1>8, <1>12 DEF Downstream, Below, Pos
<1>22. Upstream
    <2>1. \A c, d \in Conn : ~Earlier(d, c)
        BY <1>7 DEF Earlier
    <2> QED BY <1>4, <1>7, <1>8, <2>1 DEF Upstream, Below
<1>23. Passed(w) = {} /\ Pending = {}
    <2>1. \A m : m \notin Passed(w)
        BY <1>4, <1>6, <1>7, <1>8, <1>12, <1>13, InPassed
    <2>2. \A m : m \notin Pending
        BY <1>4, <1>7, <1>8, InPending
    <2> QED BY <2>1, <2>2
<1>24. Flowing
    BY <1>11, <1>21, <1>22, <1>23 DEF Flowing, Between, Numbered, Below
<1> QED BY <1>11, <1>14, <1>15, <1>16, <1>17, <1>18, <1>20, <1>24 DEF IInv, Orderly

\* The invariant holds throughout: whatever proxysvr, the servers and the network
\* do, sockets, queue and connections fit together, and until sockets are mixed
\* up every message is where its server gets it, in order.
THEOREM CenterInvariant == Spec => []IInv
<1>1. IInv /\ [Next]_vars => IInv'
    <2> SUFFICES ASSUME IInv, [Next]_vars PROVE IInv'
        OBVIOUS
    <2>1. Base /\ Orderly
        BY DEF IInv, Base
    <2>2. Base' /\ Orderly'
        BY <2>1, NextBase, NextOrder
    <2> QED BY <2>2 DEF IInv, Base
<1> QED BY <1>1, InitIInv, PTL DEF Spec

\* The state has its type and no backlog outgrows its buffer, in proxysvr or in a
\* CenterMng, even when sockets are mixed up.
THEOREM CenterTypeOK == Spec => []TypeOK
<1>1. IInv => TypeOK
    <2> SUFFICES ASSUME IInv PROVE TypeOK
        OBVIOUS
    <2>1. Typed /\ Sockets(PxState) /\ Waiting /\ Casting
        BY DEF IInv
    <2>2. /\ PxState \in St(Pos) /\ svrs \in [Id -> Pos \cup {NULL}] /\ cur \in Pos \cup {NULL} /\ cnt \in Nat
          /\ acc \in Seq(Conn) /\ sfd \in [Id -> Conn \cup {Closed}] /\ sbuf \in [Id -> Seq(M)]
          /\ (\A i \in Id : Len(sbuf[i]) <= BufCap) /\ got \in [Id -> Seq(M)] /\ stale \in BOOLEAN
          /\ \E n \in SlotNums : Pos = 1 .. n
        BY <2>1 DEF Typed
    <2>3. slot \in [Pos -> SlotT] /\ freeL \in Seq(Pos) /\ zero \in Conn \cup {Stdin, Closed}
        BY <2>2, PxFields DEF St
    <2>4. \A q \in Seq(M) : \A k \in 1 .. Len(q) : q[k] \in MsgT
        BY DEF M
    <2>5. \A p \in Pos : slot[p].fd \in Conn \cup {0, Closed} /\ Bounded(slot[p].back, BufCap)
        <3> SUFFICES ASSUME NEW p \in Pos PROVE slot[p].fd \in Conn \cup {0, Closed} /\ Bounded(slot[p].back, BufCap)
            OBVIOUS
        <3>1. slot[p].fd \in Conn \cup {0, Closed} /\ slot[p].back \in Seq(M)
            BY <2>3 DEF SlotT
        <3>2. Len(slot[p].back) <= BufCap
            BY <2>1, PxFields DEF Sockets, BacksFit, Pos
        <3> QED BY <2>4, <3>1, <3>2 DEF Bounded
    <2>6. \A k \in 1 .. Len(freeL) : freeL[k] \in Pos
        BY <2>3
    <2>7. cnt \in 0 .. NumSvr - 1
        <3>1. cnt > 0 => cnt < NumSvr
            BY <2>1 DEF Casting
        <3> QED BY <2>2, <3>1, CenterSizes
    <2>8. \A k \in 1 .. Len(acc) : acc[k] \in Conn /\ link[acc[k]].prx = "queued"
        BY <2>1, <2>2 DEF Waiting
    <2>9. ASSUME NEW i \in Id PROVE Bounded(sbuf[i], BufCap) /\ \A k \in 1 .. Len(got[i]) : got[i][k] \in MsgT
        <3>1. sbuf[i] \in Seq(M) /\ got[i] \in Seq(M) /\ Len(sbuf[i]) <= BufCap
            BY <2>2
        <3> QED BY <2>4, <3>1 DEF Bounded
    <2> QED BY <2>2, <2>3, <2>5, <2>6, <2>7, <2>8, <2>9 DEF TypeOK
<1> QED BY <1>1, CenterInvariant, PTL

\* A server takes from the center only messages routed to it, until proxysvr
\* releases a socket that _svrs names or serves an event of a released one.
THEOREM CenterRouteRight == Spec => []RouteRightUnlessStale
<1>1. IInv => RouteRightUnlessStale
    BY DEF IInv, Orderly, Placed, RouteRightUnlessStale
<1> QED BY <1>1, CenterInvariant, PTL

\* Until then what one server sends to another arrives in the order it was sent
\* and once, over backlogs, reconnections and restarts on either side.
THEOREM CenterInOrder == Spec => []InOrder
<1>1. IInv => InOrder
    BY DEF IInv, Orderly, Flowing, Downstream, InOrder
<1> QED BY <1>1, CenterInvariant, PTL

\* Until then no position of the pool is lost or handed out twice.
THEOREM CenterSlots == Spec => []SlotsAccounted
<1>1. IInv => SlotsAccounted
    <2> SUFFICES ASSUME IInv, ~stale PROVE SlotsAccounted
        BY DEF SlotsAccounted
    <2> DEFINE used == {svrs[i] : i \in Registered}
               free == {freeL[k] : k \in 1 .. Len(freeL)}
    <2>1. Base /\ Placed
        BY DEF IInv, Orderly, Base
    <2>2. /\ svrs \in [Id -> Pos \cup {NULL}] /\ NULL \notin Pos /\ OneEach(svrs)
          /\ \A q \in Pos : q \in Range(freeL) <=> ~Named(svrs, q)
        BY <2>1, PlacedFacts
    <2>3. freeL \in Seq(Pos) /\ \A k, l \in 1 .. Len(freeL) : freeL[k] = freeL[l] => k = l
        BY <2>1, PxFields DEF Base, Typed, St, Placed, Steady, FreeOnce
    <2>4. Cardinality(free) = Len(freeL)
        <3>1. DOMAIN freeL = 1 .. Len(freeL)
            BY <2>3
        <3> QED BY <2>3, <3>1, OnceCounts
    <2>5. \A q \in Pos : q \in free <=> q \in Range(freeL)
        BY <2>3, RangeOf
    <2>6. free \subseteq Pos
        BY <2>3
    <2>7. \A q \in Pos : q \in used <=> Named(svrs, q)
        BY <2>2 DEF Named, Registered
    <2>8. used \subseteq Pos
        BY <2>2 DEF Registered
    <2>9. Cardinality(used) = Cardinality(Registered)
        <3>1. PICK R : R = Registered
            OBVIOUS
        <3>2. IsFiniteSet(R) /\ R \subseteq Id /\ \A i \in R : svrs[i] # NULL
            BY <3>1, RegisteredCounts DEF Registered
        <3> DEFINE f == [i \in R |-> svrs[i]]
        <3>3. f \in [R -> used] /\ \A i \in R : f[i] = svrs[i]
            BY <3>1
        <3>4. \A i, j \in R : f[i] = f[j] => i = j
            BY <2>2, <3>2 DEF OneEach
        <3>5. \A u \in used : \E i \in R : f[i] = u
            BY <3>1
        <3> HIDE DEF f, used
        <3>6. f \in Bijection(R, used)
            BY <3>3, <3>4, <3>5 DEF Bijection, Injection, Surjection, IsInjective
        <3>7. ExistsBijection(R, used)
            BY <3>6 DEF ExistsBijection
        <3> QED BY <3>1, <3>2, <3>7, FS_Bijection
    <2> HIDE DEF used, free
    <2>10. free \cap used = {} /\ free \cup used = Pos
        BY <2>2, <2>5, <2>6, <2>7, <2>8
    <2> QED BY <2>4, <2>9, <2>10 DEF SlotsAccounted, used, free
<1> QED BY <1>1, CenterInvariant, PTL
=============================================================================
