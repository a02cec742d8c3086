------------------------------ MODULE Center ------------------------------
(***************************************************************************)
(* The center: proxysvr routes messages between the servers of one type,   *)
(* each of which holds one connection to it through its CenterMng.  A      *)
(* message that cannot be sent is kept in a backlog, on both sides; a      *)
(* server that comes back registers again and inherits its backlog.        *)
(*                                                                         *)
(* TCP is external: a connection has an end at its server and one at the   *)
(* proxy, carries whole messages in order, and ends by a close (the other  *)
(* end reads what is under way, then the end) or by a reset, which answers *)
(* data sent to an end that is closed.  send(2) is all or nothing.         *)
(*                                                                         *)
(* A definition X_Slip before X is X with a slip such code invites; only   *)
(* the tests of the properties use it.                                     *)
(***************************************************************************)
EXTENDS Integers, Sequences, FiniteSets

CONSTANTS NumSvr,    \* svr_num of the type
          SlotNums,  \* max_svr_num, less the listening socket's position: the
                     \* configurations in question
          BufCap,    \* messages a backlog holds (SEND_BUF_LEN)
          Routes,    \* route types in use
          MaxConns,  \* bound on connections that exist at once
          MaxBatch,  \* bound on the events one epoll_wait returns
          Budget     \* bounds: msgs, exits, rsts, again, late (accepts and
                     \* registrations that come to nothing), kills

Id   == 0 .. NumSvr - 1
Conn == 1 .. MaxConns
NULL == 0

ASSUME CenterAssumption ==
    /\ NumSvr \in Nat \ {0} /\ SlotNums \subseteq Nat /\ MaxConns \in Nat
    /\ BufCap \in Nat \ {0} /\ MaxBatch \in Nat \ {0}
    /\ Routes \subseteq {"p2p", "hash", "broadcast"}
    /\ Budget \in [msgs : Nat, exits : Nat, rsts : Nat, again : Nat, late : Nat, kills : Nat]

\* What a descriptor stands for besides a connection.
Closed == -1   \* SOCK_CLOSED; nothing
Stdin  == -2   \* the terminal or /dev/null at descriptor 0

VARIABLES slot,   \* _pool: descriptor and send_buf by position
          freeL,  \* _free_list
          svrs,   \* _svrs: positions by svr_id
          zero,   \* what descriptor 0 stands for
          batch,  \* events epoll_wait returned that are still to be dealt with
          cur,    \* the position RecvServerData works on, or NULL
          cnt,    \* rounds of the broadcast loop done for the message at hand
          acc,    \* external: connections waiting for accept
          link,   \* external: the connections
          sfd,    \* _fd of every server's CenterMng
          sbuf,   \* its _send_buf
          got,    \* history: messages every server took from the center
          stale,  \* history: the proxy has released a socket that _svrs names,
                  \* closed the descriptor of another one, or dealt with an
                  \* event of a socket released before
          left    \* what is left of Budget

vars == <<slot, freeL, svrs, zero, batch, cur, cnt, acc, link, sfd, sbuf, got, stale, left>>

Pos == DOMAIN slot

-----------------------------------------------------------------------------
(* Messages and connections.                                               *)

Msg(i, r, k) == [src |-> i, n |-> Budget.msgs - left.msgs, route |-> r, key |-> k]

\* The svr_id a message is routed to: des_id, or hash_key % svr_num.
Dest(m) == IF m.route = "hash" THEN m.key % NumSvr ELSE m.key

NoLink == [own |-> 0, srv |-> FALSE, prx |-> "closed", pos |-> 0,
           up |-> <<>>, down |-> <<>>, stray |-> FALSE, rst |-> FALSE]

Dialled(i, up) == [NoLink EXCEPT !.own = i, !.srv = TRUE, !.prx = "queued", !.up = up]

ProxyEndClosed(l) ==
    IF l.srv THEN [l EXCEPT !.prx = "closed", !.up = <<>>, !.pos = 0] ELSE NoLink

\* A server's end closes: what it has not read is answered by a reset.
ServerEndClosed(l) ==
    IF l.prx = "closed" THEN NoLink
    ELSE [l EXCEPT !.srv = FALSE, !.down = <<>>, !.stray = l.down # <<>>]

Downwards(l, ms) ==
    IF l.srv THEN [l EXCEPT !.down = @ \o ms] ELSE [l EXCEPT !.stray = @ \/ ms # <<>>]

-----------------------------------------------------------------------------
(* The backlog, the same code in CenterMng and in SvrManager.  A result is *)
(* what went out, the backlog after it and how the last send ended; hows   *)
(* is how a send can end.                                                  *)

Result(out, back, how) == [out |-> out, back |-> back, how |-> how]

ReserveData_Grow(back, m) == Append(back, m)
\* A full backlog is dropped as a whole.
ReserveData(back, m) == IF Len(back) >= BufCap THEN <<m>> ELSE Append(back, m)

SendBufData(back, hows) ==
    {Result(IF how = "sent" THEN back ELSE <<>>, IF how = "sent" THEN <<>> ELSE back, how) : how \in hows}

Sends_NewFirst(back, m, hows) ==
    {IF how = "sent" THEN Result(<<m>> \o back, <<>>, how) ELSE Result(<<>>, ReserveData(back, m), how) :
        how \in hows}

\* SendOneData on an open descriptor: the backlog, then the message.
Sends(back, m, hows) ==
    LET first == IF back = <<>> THEN {Result(<<>>, <<>>, "sent")} ELSE SendBufData(back, hows)
    IN UNION {IF r.how # "sent" THEN {Result(<<>>, ReserveData(back, m), r.how)}
              ELSE {IF how = "sent" THEN Result(r.out \o <<m>>, <<>>, how)
                                    ELSE Result(r.out, <<m>>, how) : how \in hows} : r \in first}

-----------------------------------------------------------------------------
(* The proxy's sockets, as functions from its state to its next ones.      *)

Empty == [fd |-> 0, back |-> <<>>]   \* a position after memset
PxState == [slot |-> slot, free |-> freeL, zero |-> zero, link |-> link, again |-> left.again]

Become(st, l) ==
    /\ slot' = st.slot /\ freeL' = st.free /\ zero' = st.zero /\ link' = st.link
    /\ left' = [l EXCEPT !.again = st.again]

\* What the descriptor of position p stands for.
Denotes(st, p) == IF st.slot[p].fd = 0 THEN st.zero ELSE st.slot[p].fd

CloseFd(st, p) ==
    LET c == Denotes(st, p)
    IN [st EXCEPT !.zero = IF st.slot[p].fd = 0 THEN Closed ELSE @,
                  !.link = IF c \in Conn THEN [st.link EXCEPT ![c] = ProxyEndClosed(@)] ELSE @]

SocketRelease_KeepBuffer(st, p) ==
    [CloseFd(st, p) EXCEPT !.slot[p].fd = 0, !.free = Append(@, p)]
SocketRelease(st, p) == [CloseFd(st, p) EXCEPT !.slot[p] = Empty, !.free = Append(@, p)]

SocketDisconn(st, p) == [CloseFd(st, p) EXCEPT !.slot[p].fd = Closed]

\* How a send on position p can end: not at all well on something that is no
\* socket or has been reset.
Hows(st, p) ==
    LET c == Denotes(st, p)
    IN IF c \notin Conn \/ (c \in Conn /\ st.link[c].rst) THEN {"error"}
       ELSE {"sent"} \cup IF st.again > 0 THEN {"again"} ELSE {}

AfterSend(st, p, r) ==
    LET c == Denotes(st, p)
        s == [st EXCEPT !.slot[p].back = r.back,
                        !.link = IF c \in Conn THEN [st.link EXCEPT ![c] = Downwards(@, r.out)] ELSE @,
                        !.again = IF r.how = "again" THEN @ - 1 ELSE @]
    IN IF r.how = "error" THEN SocketDisconn(s, p) ELSE s

SendOneData(st, p, m) ==
    IF st.slot[p].fd = Closed THEN {[st EXCEPT !.slot[p].back = ReserveData(@, m)]}
    ELSE {AfterSend(st, p, r) : r \in Sends(st.slot[p].back, m, Hows(st, p))}

\* A server comes back: backlog copied, old socket released, backlog sent.
Register_KeepOld(st, p, b) ==
    LET s == [st EXCEPT !.slot[p].back = st.slot[b].back]
    IN {AfterSend(s, p, r) : r \in SendBufData(s.slot[p].back, Hows(s, p))}
Register_NoFlush(st, p, b) == {SocketRelease([st EXCEPT !.slot[p].back = st.slot[b].back], b)}
Register(st, p, b) ==
    LET s == SocketRelease([st EXCEPT !.slot[p].back = st.slot[b].back], b)
    IN {AfterSend(s, p, r) : r \in SendBufData(s.slot[p].back, Hows(s, p))}

Start(l) ==
    /\ slot' = [p \in Pos |-> Empty] /\ freeL' = [p \in Pos |-> p] /\ zero' = Stdin
    /\ svrs' = [i \in Id |-> NULL]
    /\ batch' = {} /\ cur' = NULL /\ cnt' = 0 /\ acc' = <<>>
    /\ link' = [c \in Conn |-> ProxyEndClosed(link[c])]
    /\ left' = l
    /\ UNCHANGED <<sfd, sbuf, got, stale>>

-----------------------------------------------------------------------------
(* The proxy's loop.                                                       *)

Listener == [pos |-> 0, err |-> FALSE]

Ready ==
    {e \in {Listener} : acc # <<>>} \cup
    {[pos |-> link[c].pos, err |-> link[c].rst] :
        c \in {x \in Conn : link[x].prx = "open" /\ (link[x].up # <<>> \/ ~link[x].srv)}}

EpollWait ==
    /\ batch = {} /\ cur = NULL
    /\ batch' \in {S \in SUBSET Ready : S # {} /\ Cardinality(S) <= MaxBatch}
    /\ UNCHANGED <<slot, freeL, svrs, zero, cur, cnt, acc, link, sfd, sbuf, got, stale, left>>

Dealt(e) == cur = NULL /\ e \in batch /\ batch' = batch \ {e} /\ UNCHANGED <<cnt, sfd, sbuf, got>>

AcceptConnectNoSlot ==
    /\ Dealt(Listener) /\ freeL = <<>>
    /\ UNCHANGED <<slot, freeL, svrs, zero, cur, acc, link, stale, left>>

Accepted ==
    LET p == Head(freeL)
        c == Head(acc)
        lowest == zero = Closed
    IN [PxState EXCEPT !.slot[p].fd = IF lowest THEN 0 ELSE c,
                       !.zero = IF lowest THEN c ELSE @,
                       !.free = Tail(@),
                       !.link[c] = [@ EXCEPT !.prx = "open", !.pos = p]]

\* accept(2) fails: the position at hand has been cleared, so its release closes
\* descriptor 0, whatever that stands for.
AcceptFails ==
    /\ freeL # <<>> /\ left.late > 0
    /\ Dealt(Listener)
    /\ Become(SocketRelease([PxState EXCEPT !.free = Tail(@)], Head(freeL)), [left EXCEPT !.late = @ - 1])
    /\ stale' = (stale \/ zero \in Conn)
    /\ UNCHANGED <<svrs, cur, acc>>

AcceptConnectLate_Kept ==
    /\ freeL # <<>> /\ left.late > 0
    /\ Dealt(Listener)
    /\ acc' = Tail(acc)
    /\ Become(Accepted, [left EXCEPT !.late = @ - 1])
    /\ UNCHANGED <<svrs, cur, stale>>
\* The registration does not come within 5ms or comes in part, or the descriptor
\* is not taken by fcntl or epoll.
AcceptConnectLate ==
    /\ freeL # <<>> /\ left.late > 0
    /\ Dealt(Listener)
    /\ acc' = Tail(acc)
    /\ Become(SocketRelease(Accepted, Head(freeL)), [left EXCEPT !.late = @ - 1])
    /\ UNCHANGED <<svrs, cur, stale>>

AcceptConnect ==
    /\ freeL # <<>>
    /\ Dealt(Listener)
    /\ LET p == Head(freeL)
           i == link[Head(acc)].own
       IN /\ svrs[i] # p
          /\ acc' = Tail(acc)
          /\ \E st \in IF svrs[i] = NULL THEN {Accepted} ELSE Register(Accepted, p, svrs[i]) :
                Become(st, left)
          /\ svrs' = [svrs EXCEPT ![i] = p]
          /\ UNCHANGED <<cur, stale>>

\* The new socket has the position _svrs still names: Register clears the
\* socket it is registering, then writes to _svrs[0][0], which does not exist.
AcceptConnectDies ==
    /\ freeL # <<>> /\ cur = NULL /\ Listener \in batch
    /\ svrs[link[Head(acc)].own] = Head(freeL)
    /\ Start(left)

EpollErr(p) ==
    /\ Dealt([pos |-> p, err |-> TRUE])
    /\ Become(SocketRelease(PxState, p), left)
    /\ stale' = TRUE
    /\ UNCHANGED <<svrs, cur, acc>>

EpollIn(p) ==
    /\ Dealt([pos |-> p, err |-> FALSE])
    /\ cur' = p
    /\ stale' = (stale \/ \E k \in 1 .. Len(freeL) : freeL[k] = p)
    /\ UNCHANGED <<slot, freeL, svrs, zero, acc, link, left>>

\* RecvServerData.  The connection it reads, and the message at its head.
Reading == Denotes(PxState, cur)
HasInput == Reading \in Conn /\ link[Reading].up # <<>>
Cur == Head(link[Reading].up)

Registered == {i \in Id : svrs[i] # NULL}
Copies == IF Cur.route = "broadcast" THEN Cardinality(Registered) ELSE 1

\* DoTransfer, one SendOneData at a time.
DoTransfer ==
    /\ cur # NULL /\ HasInput /\ svrs[Dest(Cur)] # NULL
    /\ \E st \in SendOneData(PxState, svrs[Dest(Cur)], Cur) :
        LET last == cnt + 1 = Copies
        IN /\ Become([st EXCEPT !.link[Reading].up = IF last /\ @ # <<>> THEN Tail(@) ELSE @], left)
           /\ cnt' = IF last THEN 0 ELSE cnt + 1
    /\ UNCHANGED <<svrs, batch, cur, acc, sfd, sbuf, got, stale>>

DoTransferDrops ==
    /\ cur # NULL /\ HasInput /\ svrs[Dest(Cur)] = NULL
    /\ Cur.route = "broadcast" => Registered = {}
    /\ link' = [link EXCEPT ![Reading].up = Tail(@)]
    /\ UNCHANGED <<slot, freeL, svrs, zero, batch, cur, cnt, acc, sfd, sbuf, got, stale, left>>

\* The broadcast loop sends to des_id, a null pointer here.
DoTransferDies ==
    /\ cur # NULL /\ HasInput /\ svrs[Dest(Cur)] = NULL
    /\ Cur.route = "broadcast" /\ Registered # {}
    /\ Start(left)

\* recv finds nothing (the loop ends), the end or an error (SocketDisconn).
RecvEnd ==
    /\ cur # NULL /\ ~HasInput
    /\ cur' = NULL /\ cnt' = 0
    /\ IF Reading \in Conn /\ link[Reading].srv /\ ~link[Reading].rst
       THEN UNCHANGED <<slot, freeL, zero, link, left>>
       ELSE Become(SocketDisconn(PxState, cur), left)
    /\ UNCHANGED <<svrs, batch, acc, sfd, sbuf, got, stale>>

\* proxysvr is stopped and started again.
Restart == left.kills > 0 /\ Start([left EXCEPT !.kills = @ - 1])

ProxyStep ==
    \/ EpollWait \/ AcceptConnectNoSlot \/ AcceptFails \/ AcceptConnectLate
    \/ AcceptConnect \/ AcceptConnectDies
    \/ \E p \in Pos : EpollErr(p) \/ EpollIn(p)
    \/ DoTransfer \/ DoTransferDrops \/ DoTransferDies \/ RecvEnd

-----------------------------------------------------------------------------
(* A server and its CenterMng.                                             *)

UnchangedProxy == UNCHANGED <<slot, freeL, svrs, zero, batch, cur, cnt, stale>>

\* Connect gives server i the connection c.
Connect(i, c) ==
    /\ sfd[i] = Closed
    /\ link[c] = NoLink /\ \A d \in 1 .. c - 1 : link[d] # NoLink
    /\ sfd' = [sfd EXCEPT ![i] = c]
    /\ UnchangedProxy /\ UNCHANGED got

\* Connect, Register and the backlog, which is kept when send takes nothing.
CheckConnect(i) ==
    \E c \in Conn, r \in SendBufData(sbuf[i], {"sent"} \cup IF left.again > 0 THEN {"again"} ELSE {}) :
        /\ Connect(i, c)
        /\ link' = [link EXCEPT ![c] = Dialled(i, r.out)]
        /\ acc' = Append(acc, c)
        /\ sbuf' = [sbuf EXCEPT ![i] = r.back]
        /\ left' = [left EXCEPT !.again = IF r.how = "again" THEN @ - 1 ELSE @]

\* Register fails: the proxy's end has gone already, yet _fd stays open.
RegisterFails(i) ==
    /\ left.late > 0
    /\ \E c \in Conn :
        /\ Connect(i, c)
        /\ link' = [link EXCEPT ![c] = ProxyEndClosed(Dialled(i, <<>>))]
    /\ left' = [left EXCEPT !.late = @ - 1]
    /\ UNCHANGED <<acc, sbuf>>

\* How a send to the proxy can end: its first answer to a closed end is an
\* error on the next send.
ServerHows(c) ==
    {"sent"} \cup (IF left.again > 0 THEN {"again"} ELSE {})
             \cup (IF link[c].prx = "closed" THEN {"error"} ELSE {})

SendWhenClosed(i, m) ==
    /\ sfd[i] = Closed
    /\ sbuf' = [sbuf EXCEPT ![i] = ReserveData(@, m)]
    /\ left' = [left EXCEPT !.msgs = @ - 1]
    /\ UNCHANGED <<link, sfd>>

SendWhenOpen(i, m) ==
    /\ sfd[i] # Closed
    /\ \E r \in Sends(sbuf[i], m, ServerHows(sfd[i])) :
        LET c == sfd[i]
            l == IF link[c].prx = "closed" THEN link[c] ELSE [link[c] EXCEPT !.up = @ \o r.out]
        IN /\ sbuf' = [sbuf EXCEPT ![i] = r.back]
           /\ link' = [link EXCEPT ![c] = IF r.how = "error" THEN ServerEndClosed(l) ELSE l]
           /\ sfd' = [sfd EXCEPT ![i] = IF r.how = "error" THEN Closed ELSE c]
           /\ left' = [left EXCEPT !.msgs = @ - 1, !.again = IF r.how = "again" THEN @ - 1 ELSE @]

\* Bound: only the first message may be a broadcast.
CastsLeft == left.msgs = Budget.msgs

\* A server sends to another one of its type, or to all: des_id stays 0 then.
SendMessageToCenter(i) ==
    /\ left.msgs > 0
    /\ \E r \in Routes, k \in IF "hash" \in Routes THEN 0 .. 2 * NumSvr - 1 ELSE Id :
        /\ (r = "hash" <=> k >= NumSvr)
        /\ IF r = "broadcast" THEN k = 0 /\ CastsLeft ELSE k % NumSvr # i
        /\ SendWhenClosed(i, Msg(i, r, k)) \/ SendWhenOpen(i, Msg(i, r, k))
    /\ UnchangedProxy /\ UNCHANGED <<acc, got>>

\* RecvData and GetOneData: everything that is there is taken.
RecvData(i) ==
    /\ sfd[i] # Closed /\ link[sfd[i]].down # <<>>
    /\ got' = [got EXCEPT ![i] = @ \o link[sfd[i]].down]
    /\ link' = [link EXCEPT ![sfd[i]].down = <<>>]
    /\ UnchangedProxy /\ UNCHANGED <<acc, sfd, sbuf, left>>

\* RecvData reads the end: what it read before in the same call goes, too.
RecvDataEnd(i) ==
    /\ sfd[i] # Closed /\ link[sfd[i]].prx = "closed"
    /\ link' = [link EXCEPT ![sfd[i]] = NoLink]
    /\ sfd' = [sfd EXCEPT ![i] = Closed]
    /\ UnchangedProxy /\ UNCHANGED <<acc, sbuf, got, left>>

\* The process ends; another one starts with an empty backlog.
Exit(i) ==
    /\ left.exits > 0 /\ sfd[i] # Closed
    /\ link' = [link EXCEPT ![sfd[i]] = ServerEndClosed(@)]
    /\ sfd' = [sfd EXCEPT ![i] = Closed] /\ sbuf' = [sbuf EXCEPT ![i] = <<>>]
    /\ left' = [left EXCEPT !.exits = @ - 1]
    /\ UnchangedProxy /\ UNCHANGED <<acc, got>>

\* External: the reset that answers data for a closed end reaches the proxy.
ResetArrives(c) ==
    /\ left.rsts > 0 /\ link[c].stray /\ ~link[c].rst
    /\ link' = [link EXCEPT ![c].rst = TRUE]
    /\ left' = [left EXCEPT !.rsts = @ - 1]
    /\ UnchangedProxy /\ UNCHANGED <<acc, sfd, sbuf, got>>

ServerStep(i) == CheckConnect(i) \/ RecvData(i) \/ RecvDataEnd(i)

Init ==
    /\ \E n \in SlotNums : slot = [p \in 1 .. n |-> Empty]
    /\ freeL = [p \in Pos |-> p] /\ zero = Stdin
    /\ svrs = [i \in Id |-> NULL]
    /\ batch = {} /\ cur = NULL /\ cnt = 0 /\ acc = <<>>
    /\ link = [c \in Conn |-> NoLink]
    /\ sfd = [i \in Id |-> Closed] /\ sbuf = [i \in Id |-> <<>>] /\ got = [i \in Id |-> <<>>]
    /\ stale = FALSE /\ left = Budget

Next ==
    \/ ProxyStep \/ Restart
    \/ \E i \in Id : ServerStep(i) \/ RegisterFails(i) \/ SendMessageToCenter(i) \/ Exit(i)
    \/ \E c \in Conn : ResetArrives(c)

Spec == Init /\ [][Next]_vars

\* The loops of the proxy and of every server go on.
LiveSpec == Spec /\ WF_vars(ProxyStep) /\ \A i \in Id : WF_vars(CheckConnect(i)) /\ WF_vars(RecvDataEnd(i))

-----------------------------------------------------------------------------
(* Properties.                                                             *)

MsgT == [src : Id, n : 0 .. Budget.msgs - 1, route : Routes, key : 0 .. 2 * NumSvr - 1]
Bounded(s, n) == Len(s) <= n /\ \A k \in 1 .. Len(s) : s[k] \in MsgT

\* The state has its type; no backlog, of a server or of the proxy, outgrows
\* its buffer (the arithmetic of both ReserveData).
TypeOK ==
    /\ stale \in BOOLEAN /\ \E n \in SlotNums : Pos = 1 .. n
    /\ \A p \in Pos : slot[p].fd \in Conn \cup {0, Closed} /\ Bounded(slot[p].back, BufCap)
    /\ \A k \in 1 .. Len(freeL) : freeL[k] \in Pos
    /\ svrs \in [Id -> Pos \cup {NULL}] /\ zero \in Conn \cup {Stdin, Closed}
    /\ cur \in Pos \cup {NULL} /\ cnt \in 0 .. NumSvr - 1
    /\ \A k \in 1 .. Len(acc) : acc[k] \in Conn /\ link[acc[k]].prx = "queued"
    /\ sfd \in [Id -> Conn \cup {Closed}]
    /\ \A i \in Id : Bounded(sbuf[i], BufCap) /\ \A k \in 1 .. Len(got[i]) : got[i][k] \in MsgT

\* A server takes from the center only messages routed to it: whatever comes
\* and goes, _svrs names the socket of the server and no backlog changes hands.
RouteRight == \A i \in Id : \A k \in 1 .. Len(got[i]) : Dest(got[i][k]) = i

\* So it is, whoever leaves and comes back and whatever is kept and sent later,
\* until a socket in use is released or loses its descriptor, or an event
\* outlives its socket (proxysvr.cpp:235-265, 269-279, 373-395).
RouteRightUnlessStale == stale \/ RouteRight

\* m before x: what one server sends goes in the order it was sent and nothing
\* twice, but for the copies of a broadcast, which follow one another.
Follows(m, x) == m.src = x.src => m.n < x.n \/ (m = x /\ m.route = "broadcast")
Ordered(s) == \A k, l \in 1 .. Len(s) : k < l => Follows(s[k], s[l])

\* Until then what one server sends to another arrives in the order it was sent
\* and once, over backlogs, reconnections and restarts on either side
\* (proxysvr.cpp:373-395, 436-502; center_mng.cpp).
InOrder == stale \/ \A i \in Id : Ordered(got[i])

\* Until then every position is either free, once, or the socket of one server:
\* registering anew neither loses a position nor hands it out twice
\* (proxysvr.cpp:104-154, 384-395).
SlotsAccounted ==
    LET used == {svrs[i] : i \in Registered}
        free == {freeL[k] : k \in 1 .. Len(freeL)}
    IN \/ stale
       \/ /\ Cardinality(free) = Len(freeL) /\ Cardinality(used) = Cardinality(Registered)
          /\ free \cap used = {} /\ free \cup used = Pos

\* The center's socket for server i is the connection server i holds.
Joined(i) ==
    /\ sfd[i] # Closed /\ svrs[i] # NULL
    /\ Denotes(PxState, svrs[i]) = sfd[i]

\* Whichever side restarts and whatever accept or registration fails, every
\* server ends up registered over the connection it holds, unless a connection
\* is reset (CheckConnect, the 5ms of AcceptConnect, the release in Register).
Reconnects == \A i \in Id : <>[]Joined(i)

\* A backlog that stays in the proxy for good takes a refused send (EAGAIN) of
\* its own: whatever is kept because a server is away goes to it when it is back
\* (proxysvr.cpp:384-395, 436-502; nothing waits for EPOLLOUT).
BacklogLeaves ==
    []<>(Cardinality({i \in Registered : slot[svrs[i]].back # <<>>}) <= Budget.again - left.again)
=============================================================================
