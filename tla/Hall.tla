-------------------------------- MODULE Hall --------------------------------
(***************************************************************************)
(* Logging in: tcpsvr holds the clients' connections, the hall server its  *)
(* players, and the two tell each other what happens through the cs and    *)
(* the sc pipe (tcpsvr/tcpsvr.cpp, core/server.cpp, hallsvr/).             *)
(*                                                                         *)
(* A pipe is the queue that module ShmPipe shows it to be.  Sockets and    *)
(* clients are external: a client dials, sends and leaves when it likes,   *)
(* and what it does counts from when tcpsvr reads it, a message at a time. *)
(* Each message names a player, so that one connection may log in several. *)
(* A session's exchange with dbproxy is one answer here; module            *)
(* SaveProtocol has its steps.  A round of either process's loop handles   *)
(* up to 512 or 1024 messages of a kind: here any number, so that the      *)
(* parts of a round alternate freely.                                      *)
(*                                                                         *)
(* Reading ends in one of two ways: the code's own (RecvAgain), which ends *)
(* the connection with every message, and the way proxysvr has it          *)
(* (RecvReturns).  With both, what holds is no accident of the first.      *)
(*                                                                         *)
(* A definition X_Slip before X is X with a slip such code invites; only   *)
(* the tests of the properties use it.                                     *)
(***************************************************************************)
EXTENDS Integers, Sequences, FiniteSets, Functions

CONSTANTS Uid,         \* players
          MaxConns,    \* bound on the connections clients make
          MaxMs,       \* bound on the clock, in milliseconds
          SlotNums,    \* max_client_num, less the listening socket's position: the
                       \* configurations in question
          CsCap,       \* messages the cs pipe holds
          ScCap,       \* messages the sc pipe holds
          MsgCap,      \* messages the server's message queue holds
          PlayerNum,   \* max_player_num of each configuration, by tcpsvr's positions
          MaxSess,     \* max_session_num
          ReadEnds,    \* how a read of an open connection ends
          Budget       \* bounds: sends (messages of clients) and faults

ASSUME HallAssumption ==
    /\ 0 \notin Uid /\ MaxConns \in Nat /\ MaxMs \in Nat \ {0} /\ SlotNums \subseteq Nat \ {0}
    /\ CsCap \in Nat \ {0} /\ ScCap \in Nat \ {0} /\ MsgCap \in Nat \ {0}
    /\ PlayerNum \in [{1 .. n : n \in SlotNums} -> Nat \ {0}] /\ MaxSess \in Nat \ {0}
    /\ ReadEnds \subseteq {"returns", "again"}
    /\ Budget \in [{"sends", "faults"} -> Nat]

Conn == 1 .. MaxConns
None == 0

\* What descriptor 0 stands for besides a connection.
Closed == -1
Stdin  == -2

VARIABLES
    cli,     \* external: the connections
    ms,      \* the clock
    sock,    \* tcpsvr's _pool
    freeL,   \* its _free_list
    zero,    \* what descriptor 0 stands for in tcpsvr
    spins,   \* whether tcpsvr is in the loop that repeats a send
    told,    \* history: the player the notice of a connection's end named
    cs, sc,  \* the pipes
    queue,   \* pmsg_pipe: the clients' messages in the server's message queue
    login,   \* the login the hall server is in the middle of
    players, \* the players by uid
    sess,    \* the sessions, oldest first, by the connection they will answer to
    named,   \* history: the player last announced to tcpsvr for a connection
    trouble, \* history: a pipe has refused a message, the hall server has died,
             \* or a notice has come after a new login
    left     \* what is left of Budget

vars == <<cli, ms, sock, freeL, zero, spins, told, cs, sc, queue, login, players, sess, named, trouble, left>>
tcpVars  == <<sock, freeL, zero, told>>
hallVars == <<queue, login, players, sess, named>>

Slot == DOMAIN sock
MaxPlayers == PlayerNum[Slot]

Spend(what) == left[what] > 0 /\ left' = [left EXCEPT ![what] = @ - 1]

-----------------------------------------------------------------------------
(* Connections.  st is how one stands: "new", "open" once tcpsvr has       *)
(* accepted it, then how it ended: tcpsvr sent a notice ("noticed") or     *)
(* none ("silent"), or it was closed by mistake or with tcpsvr ("lost").   *)
(* wrong is a history: the connection a message was meant for that this    *)
(* one received.                                                           *)

NewConn == [st |-> "new", pos |-> 0, time |-> 0, wrong |-> None]
Ended == {"noticed", "silent", "lost"}

\* stTcpHead: position and time name a connection; to is the one it means.
SameHead(g, h) == g.pos = h.pos /\ g.time = h.time
Stuck == [pos |-> 0, time |-> 0, to |-> None]   \* a session that will not answer

\* stSocket, cleared; conn is the connection the position was given to, and fd
\* tells whether its descriptor is 0.
FreeSock == [conn |-> None, fd |-> 0, time |-> 0, index |-> None, buf |-> <<>>]

\* What position p's descriptor stands for, and the head of its messages.
Denotes(p) == IF sock[p].fd = 0 THEN zero ELSE sock[p].conn
HeadOf(p) == [pos |-> p, time |-> sock[p].time, to |-> sock[p].conn]

\* AppendOneData refuses what does not fit.
Room(pipe, cap) == Len(pipe) < cap
Offer(pipe, m, cap) == IF Room(pipe, cap) THEN Append(pipe, m) ELSE pipe
Fill(pipe, msgs, cap) ==
    pipe \o SubSeq(msgs, 1, IF Len(pipe) + Len(msgs) <= cap THEN Len(msgs) ELSE cap - Len(pipe))

-----------------------------------------------------------------------------
(* tcpsvr.                                                                 *)

\* The client that dials next.
NextConn == {c \in Conn : cli[c].st = "new" /\ \A d \in 1 .. c - 1 : cli[d].st # "new"}

\* AcceptConnect.  Without a free position the client waits.
AcceptConnect(c, t) ==
    /\ c \in NextConn /\ t \in {ms, ms + 1} /\ ms' = t
    /\ freeL # <<>> /\ freeL' = Tail(freeL)
    /\ sock' = [sock EXCEPT ![Head(freeL)] =
                   [FreeSock EXCEPT !.conn = c, !.fd = IF zero = Closed THEN 0 ELSE 1, !.time = t]]
    /\ zero' = IF zero = Closed THEN c ELSE zero
    /\ cli' = [cli EXCEPT ![c].st = "open", ![c].pos = Head(freeL), ![c].time = t]
    /\ UNCHANGED <<told, cs, sc, hallVars, trouble, left>>

AcceptFails_KeepSlot ==
    /\ freeL # <<>> /\ NextConn # {} /\ Spend("faults")
    /\ freeL' = Tail(freeL)
    /\ UNCHANGED <<cli, ms, sock, zero, told, cs, sc, hallVars, trouble>>
\* accept or fcntl fails: the position just taken is released, and with it the
\* descriptor it has: 0, or whatever the memory held if it was never used.
AcceptFails ==
    /\ freeL # <<>> /\ NextConn # {} /\ Spend("faults")
    /\ freeL' = Append(Tail(freeL), Head(freeL))
    /\ \/ zero' = Closed /\ cli' = IF zero \in Conn THEN [cli EXCEPT ![zero].st = "lost"] ELSE cli
       \/ UNCHANGED <<zero, cli>>
    /\ UNCHANGED <<ms, sock, told, cs, sc, hallVars, trouble>>

\* A message for connection d reaches c.
Hears(c, d) == IF d \in {c, None} THEN cli[c].wrong ELSE d

\* SocketRelease, after msgs were handed on and a message for d was sent.  The
\* notice of NotifyLogicDiscon names the player; its head is a history.
SocketRelease(p, notify, msgs, d) ==
    LET c == Denotes(p)
        pipe == Fill(cs, msgs, CsCap)
        tell == notify /\ sock[p].index # None
        how == IF c # sock[p].conn THEN "lost"
               ELSE IF tell /\ Room(pipe, CsCap) THEN "noticed" ELSE "silent"
    IN /\ sock' = [sock EXCEPT ![p] = FreeSock] /\ freeL' = Append(freeL, p)
       /\ zero' = IF sock[p].fd = 0 THEN Closed ELSE zero
       /\ cs' = IF ~tell THEN pipe
                ELSE Offer(pipe, [kind |-> "discon", uid |-> sock[p].index, head |-> HeadOf(p)], CsCap)
       /\ cli' = IF c \in Conn THEN [cli EXCEPT ![c].st = how, ![c].wrong = Hears(c, d)] ELSE cli
       /\ told' = IF tell /\ Room(pipe, CsCap) THEN [told EXCEPT ![sock[p].conn] = sock[p].index] ELSE told
       /\ trouble' = (trouble \/ (tell /\ ~Room(pipe, CsCap)))

\* What the pipe refused of position p's frames, with the newly read ones.
Frames(p, read) ==
    LET all == sock[p].buf \o read
    IN [i \in DOMAIN all |-> [kind |-> all[i].kind, uid |-> all[i].uid, head |-> HeadOf(p)]]

\* An event of position p.  A stream that has lost a byte cannot be read on.
Event(p) == sock[p].conn # None /\ Denotes(p) = sock[p].conn
Torn == <<[kind |-> "torn", uid |-> None]>>
Readable(p) == Event(p) /\ sock[p].buf # Torn

\* What is read at once: a request, or nothing.
Request == [kind : {"login", "other"}, uid : Uid]
Sent == {<<>>} \cup {<<r>> : r \in Request}

\* Players are interchangeable: the first request is one fixed player's.
First == CHOOSE u \in Uid : TRUE
Bought(read) ==
    IF read = <<>> THEN UNCHANGED left
    ELSE Spend("sends") /\ (left["sends"] = Budget["sends"] => read[1].uid = First)

\* RecvClientData reads what the client sent before it closed, then the end.
RecvEnd(p, read) ==
    /\ Readable(p) /\ Bought(read)
    /\ SocketRelease(p, TRUE, Frames(p, read), None)
    /\ UNCHANGED <<ms, sc, hallVars>>

\* EPOLLERR, a recv that fails, or what is read is no frame.  The descriptor
\* may have been closed after epoll_wait had reported the event (here: ever).
RecvError(p) ==
    /\ Event(p) \/ (sock[p].conn # None /\ Denotes(p) = Closed)
    /\ SocketRelease(p, TRUE, <<>>, None)
    /\ UNCHANGED <<ms, sc, hallVars, left>>

\* RecvClientData of an open connection; what the pipe refuses stays in recv_buf.
RecvReturns(p, read) ==
    /\ "returns" \in ReadEnds /\ Readable(p) /\ read # <<>> /\ Bought(read)
    /\ cs' = Fill(cs, Frames(p, read), CsCap)
    /\ LET all == sock[p].buf \o read
       IN sock' = [sock EXCEPT ![p].buf = SubSeq(all, Len(cs') - Len(cs) + 1, Len(all))]
    /\ UNCHANGED <<cli, ms, freeL, zero, told, sc, hallVars, trouble>>

\* The same as EAGAIN ends it (module FrameRecv): what is in recv_buf is handed
\* on twice and the connection released; or the frames did not all fit, the one
\* in recv_buf loses a byte, and the next read ends the connection.
RecvAgain(p, read) ==
    /\ "again" \in ReadEnds /\ Readable(p) /\ read # <<>> /\ Bought(read)
    /\ LET twice == Frames(p, read) \o Frames(p, read)
       IN IF Len(cs) + Len(twice) <= CsCap THEN SocketRelease(p, TRUE, twice, None)
          ELSE /\ cs' = Fill(cs, Frames(p, read), CsCap)
               /\ sock' = [sock EXCEPT ![p].buf = Torn]
               /\ UNCHANGED <<cli, freeL, zero, told, trouble>>
    /\ UNCHANGED <<ms, sc, hallVars>>

Reused_Answer(m) == sock[m.head.pos].time = 0 \/ (m.kind = "index" /\ m.head.time # sock[m.head.pos].time)
Reused_Index(m) == sock[m.head.pos].time = 0 \/ (m.kind # "index" /\ m.head.time # sock[m.head.pos].time)
\* The position has another connection by now, or none.
Reused(m) == m.head.time # sock[m.head.pos].time

NeedClose_Never(m) == FALSE
NeedClose(m) == m.kind = "bye"

\* DealNetwork.
DealNetwork ==
    /\ ~spins /\ UNCHANGED spins
    /\ \/ \E c \in Conn, t \in 1 .. MaxMs : AcceptConnect(c, t)
       \/ AcceptFails
       \/ \E p \in Slot :
            \/ RecvError(p)
            \/ \E read \in Sent : RecvEnd(p, read) \/ RecvReturns(p, read) \/ RecvAgain(p, read)

\* SendDataToClient.  The send may fail; one to a client that has just left
\* succeeds.
SendDataToClient ==
    /\ sc # <<>> /\ sc' = Tail(sc) /\ spins' = FALSE
    /\ LET m == Head(sc)
           p == m.head.pos
           c == Denotes(p)
       IN \/ Reused(m) /\ UNCHANGED <<cli, tcpVars, cs, trouble>>
          \/ /\ ~Reused(m) /\ m.kind = "index"
             /\ sock' = [sock EXCEPT ![p].index = m.uid]
             /\ UNCHANGED <<cli, freeL, zero, told, cs, trouble>>
          \/ /\ ~Reused(m) /\ m.kind # "index" /\ c \in Conn /\ ~NeedClose(m)
             /\ cli' = [cli EXCEPT ![c].wrong = Hears(c, m.head.to)]
             /\ UNCHANGED <<tcpVars, cs, trouble>>
          \/ ~Reused(m) /\ NeedClose(m) /\ c \in Conn /\ SocketRelease(p, FALSE, <<>>, m.head.to)
          \/ ~Reused(m) /\ m.kind # "index" /\ SocketRelease(p, TRUE, <<>>, None)
    /\ UNCHANGED <<ms, hallVars, left>>

\* The client does not read, and the send is repeated until it does or leaves.
SendSpins ==
    /\ ~spins /\ sc # <<>> /\ ~Reused(Head(sc)) /\ Head(sc).kind # "index" /\ Denotes(Head(sc).head.pos) \in Conn
    /\ spins' = TRUE
    /\ UNCHANGED <<cli, ms, tcpVars, cs, sc, hallVars, trouble, left>>

\* tcpsvr is stopped or dies, and starts again: the pipes stay.
TcpRestart ==
    /\ Spend("faults")
    /\ cli' = [c \in Conn |-> IF cli[c].st = "open" THEN [cli[c] EXCEPT !.st = "lost"] ELSE cli[c]]
    /\ sock' = [p \in Slot |-> FreeSock] /\ freeL' = [p \in Slot |-> p] /\ zero' = Stdin /\ spins' = FALSE
    /\ UNCHANGED <<ms, told, cs, sc, hallVars, trouble>>

-----------------------------------------------------------------------------
(* The hall server.                                                        *)

UnchangedTcp == UNCHANGED <<cli, ms, tcpVars, spins>>

LogOut(u) == players' = Restrict(players, DOMAIN players \ {u})

\* OnClientOffline.
OnClientOffline_Deaf(u) == UNCHANGED players
OnClientOffline(u) == LogOut(u)

\* GetClientMessage: a notice is dealt with at once, whatever the queue holds.
GetClientNotice ==
    /\ login = <<>> /\ cs # <<>> /\ Head(cs).kind = "discon" /\ cs' = Tail(cs)
    /\ OnClientOffline(Head(cs).uid)
    /\ trouble' = (trouble \/ \E u \in DOMAIN players \ DOMAIN players' : players[u].head.to # Head(cs).head.to)
    /\ UnchangedTcp /\ UNCHANGED <<sc, queue, login, sess, named, left>>

\* PostMessage; the message is lost when the queue is full.
PostMessage_NoTest(m) == Append(queue, m)
PostMessage(m) == Offer(queue, m, MsgCap)
GetClientMessage ==
    /\ login = <<>> /\ cs # <<>> /\ Head(cs).kind # "discon" /\ cs' = Tail(cs)
    /\ queue' = PostMessage(Head(cs))
    /\ trouble' = (trouble \/ ~Room(queue, MsgCap))
    /\ UnchangedTcp /\ UNCHANGED <<sc, login, players, sess, named, left>>

\* A message to tcpsvr, which may not fit.
Tell(kind, u, h) ==
    /\ sc' = Offer(sc, [kind |-> kind, uid |-> u, head |-> h], ScCap)
    /\ trouble' = (trouble \/ ~Room(sc, ScCap))

NewSession(h) == sess' = Append(sess, h)
EndSession(k) == sess' = SubSeq(sess, 1, k - 1) \o SubSeq(sess, k + 1, Len(sess))

\* DispatchMessage.
Dispatched == login = <<>> /\ queue # <<>> /\ queue' = Tail(queue) /\ UnchangedTcp /\ UNCHANGED cs
Message == Head(queue)
IsPlayer(m) == m.uid \in DOMAIN players
SessionLeft == Len(sess) < MaxSess

\* OnClientMessage drops what comes without a login, and everything when no
\* session is left.
OnClientMessageDropped ==
    /\ Dispatched
    /\ ~SessionLeft \/ (Message.kind = "other" /\ ~IsPlayer(Message))
    /\ UNCHANGED <<sc, login, players, sess, named, trouble, left>>

\* No handler is registered for any other request: its session stays.
OnClientMessageOther ==
    /\ Dispatched /\ Message.kind = "other" /\ IsPlayer(Message) /\ SessionLeft
    /\ NewSession(Stuck)
    /\ UNCHANGED <<sc, login, players, named, trouble, left>>

Login == Dispatched /\ Message.kind = "login" /\ SessionLeft
SameConnection(m) == SameHead(players[m.uid].head, m.head)

\* PlayerLogin and HandlerLogin, in steps between which tcpsvr may take what
\* they sent.  The token is not valid any more:
LoginExpired ==
    /\ Login /\ Spend("faults")
    /\ Tell("bye", None, Message.head)
    /\ UNCHANGED <<login, players, sess, named>>

\* The same connection logs in again.
LoginAgain ==
    /\ Login /\ IsPlayer(Message) /\ SameConnection(Message)
    /\ NewSession(Message.head)
    /\ UNCHANGED <<sc, login, players, named, trouble, left>>

\* Another connection has the player: it is told to go, and forgotten.
LoginKick ==
    /\ Login /\ IsPlayer(Message) /\ ~SameConnection(Message)
    /\ Tell("bye", None, players[Message.uid].head)
    /\ LogOut(Message.uid)
    /\ login' = <<"index", Message>>
    /\ UNCHANGED <<sess, named, left>>

Indexed_Anyway == TRUE
\* NotifyTcpLogicIndex answers whether the message fitted.
Indexed == Room(sc, ScCap)

\* late is a history: the connection had ended when the player was made.
NewPlayer(m) == [head |-> m.head, late |-> cli[m.head.to].st \in Ended]

\* NotifyTcpLogicIndex, CreatePlayer, and the session asks dbproxy.
LogIn(m) ==
    /\ Tell("index", m.uid, m.head)
    /\ named' = IF Indexed THEN [named EXCEPT ![m.head.to] = m.uid] ELSE named
    /\ IF Indexed /\ Cardinality(DOMAIN players) < MaxPlayers
       THEN /\ players' = [u \in DOMAIN players \cup {m.uid} |-> IF u = m.uid THEN NewPlayer(m) ELSE players[u]]
            /\ login' = <<>> /\ NewSession(m.head)
       ELSE login' = <<"refuse", m>> /\ UNCHANGED <<players, sess>>

LoginFresh == Login /\ ~IsPlayer(Message) /\ LogIn(Message) /\ UNCHANGED left

LoginKicked ==
    /\ login # <<>> /\ login[1] = "index" /\ LogIn(login[2])
    /\ UnchangedTcp /\ UNCHANGED <<cs, queue, left>>

\* LOGIN_FAILED closes the connection.
LoginRefused ==
    /\ login # <<>> /\ login[1] = "refuse" /\ login' = <<>>
    /\ Tell("bye", None, login[2].head)
    /\ UnchangedTcp /\ UNCHANGED <<cs, queue, players, sess, named, left>>

\* dbproxy's answers: the session is done, and its client told if it is well.
OnServerMessage(k) ==
    /\ login = <<>> /\ sess[k] # Stuck
    /\ EndSession(k)
    /\ Tell("answer", None, sess[k]) \/ UNCHANGED <<sc, trouble>>
    /\ UnchangedTcp /\ UNCHANGED <<cs, queue, login, players, named, left>>

\* A session that waits for nothing times out; for one that dbproxy does not
\* answer that is an OnServerMessage that tells nobody.
CheckTimeOut(k) ==
    /\ login = <<>> /\ sess[k] = Stuck /\ EndSession(k)
    /\ UnchangedTcp /\ UNCHANGED <<cs, sc, queue, login, players, named, trouble, left>>

\* A hall server that dies loses players and sessions; its queue stays.
HallCrash ==
    /\ Spend("faults")
    /\ players' = <<>> /\ sess' = <<>> /\ login' = <<>> /\ trouble' = TRUE
    /\ UnchangedTcp /\ UNCHANGED <<cs, sc, queue, named>>

HallStep ==
    \/ GetClientNotice \/ GetClientMessage \/ OnClientMessageDropped \/ OnClientMessageOther
    \/ LoginExpired \/ LoginAgain \/ LoginKick \/ LoginFresh \/ LoginKicked \/ LoginRefused

-----------------------------------------------------------------------------
Init ==
    /\ cli = [c \in Conn |-> NewConn] /\ ms = 0
    /\ \E n \in SlotNums : sock = [p \in 1 .. n |-> FreeSock] /\ freeL = [p \in 1 .. n |-> p]
    /\ zero = Stdin /\ spins = FALSE /\ told = [c \in Conn |-> None] /\ named = [c \in Conn |-> None]
    /\ cs = <<>> /\ sc = <<>> /\ queue = <<>> /\ login = <<>> /\ players = <<>> /\ sess = <<>>
    /\ trouble = FALSE /\ left = Budget

Next ==
    \/ DealNetwork \/ SendDataToClient \/ SendSpins \/ TcpRestart
    \/ HallStep \/ HallCrash
    \/ \E k \in DOMAIN sess : OnServerMessage(k) \/ CheckTimeOut(k)

Spec == Init /\ [][Next]_vars

\* The loops of the two processes go on, except that only the client ends the
\* loop that repeats a send.
FairSpec == Spec /\ WF_vars(~spins /\ SendDataToClient) /\ WF_vars(HallStep)

-----------------------------------------------------------------------------
(* Properties.                                                             *)

HeadT == [pos : Slot, time : 1 .. MaxMs, to : Conn]
CsMsg == [kind : {"login", "other", "discon"}, uid : Uid, head : HeadT]
ScMsg == [kind : {"index", "answer", "bye"}, uid : Uid \cup {None}, head : HeadT]

\* The state has its type; neither pipe nor queue nor table outgrows its room,
\* however the two processes alternate.
TypeOK ==
    /\ \A c \in Conn : cli[c].st \in {"new", "open"} \cup Ended
    /\ \A p \in Slot :
        sock[p].conn \in Conn \cup {None} /\ sock[p].time \in 0 .. MaxMs /\ sock[p].index \in Uid \cup {None}
    /\ zero \in Conn \cup {Stdin, Closed} /\ spins \in BOOLEAN /\ trouble \in BOOLEAN
    /\ told \in [Conn -> Uid \cup {None}] /\ named \in [Conn -> Uid \cup {None}]
    /\ Len(cs) <= CsCap /\ \A k \in DOMAIN cs : cs[k] \in CsMsg
    /\ Len(sc) <= ScCap /\ \A k \in DOMAIN sc : sc[k] \in ScMsg
    /\ Len(queue) <= MsgCap /\ \A k \in DOMAIN queue : queue[k] \in CsMsg
    /\ DOMAIN players \subseteq Uid /\ Cardinality(DOMAIN players) <= MaxPlayers
    /\ \A u \in DOMAIN players : players[u] \in [head : HeadT, late : BOOLEAN]
    /\ Len(sess) <= MaxSess /\ \A k \in DOMAIN sess : sess[k] \in HeadT \cup {Stuck}

\* Two connections had the same position within one millisecond.
Alike(c, d) == cli[c].pos = cli[d].pos /\ cli[c].time = cli[d].time
HasTwin(c) == \E d \in Conn \ {c} : Alike(c, d)

\* tcpsvr's socket for connection c.
Socket(c) == sock[cli[c].pos]

\* Every position is either free, once, or has one connection, and every
\* accepted connection has its own, whichever way connections end.  Only one
\* that tcpsvr closed by mistake keeps its position (tcpsvr.cpp:103-134, 308).
SlotsAccounted ==
    LET free == {freeL[k] : k \in DOMAIN freeL}
    IN /\ Cardinality(free) = Len(freeL)
       /\ \A p \in Slot : IF p \in free THEN sock[p] = FreeSock
                          ELSE sock[p].conn # None /\ cli[sock[p].conn].st \in {"open", "lost"}
       /\ \A c \in Conn : cli[c].st = "open" => Denotes(cli[c].pos) = c /\ sock[cli[c].pos].conn = c

\* A client receives only what is meant for its connection, however late the
\* answer and however often the position has changed hands; unless tcpsvr takes
\* the other connection for it, which had the position within the same
\* millisecond (tcpsvr.cpp:395), or for one closed by mistake (tcpsvr.cpp:308).
OnlyOwnAnswers ==
    \A c \in Conn : cli[c].wrong # None =>
        \E d \in Conn : Alike(cli[c].wrong, d) /\ (d = c \/ cli[d].st = "lost")

\* What tcpsvr will take for connection c's player once it has read all that is
\* on its way.
Announced(c, u) ==
    LET coming == {k \in DOMAIN sc : sc[k].kind = "index" /\ sc[k].head.to = c}
    IN \/ coming = {} /\ Socket(c).index = u
       \/ \E k \in coming : sc[k].uid = u /\ \A l \in coming : l <= k

\* tcpsvr can report the end of an open connection's player: it knows the
\* player, or is about to be told and not of another one after that
\* (msg.cpp:36, tcpsvr.cpp:404).  Only one player of a connection can be known:
\* the last one it logged in.
PlayersIndexed ==
    \A u \in DOMAIN players :
        LET c == players[u].head.to
        IN cli[c].st = "open" /\ ~HasTwin(c) /\ named[c] = u => Announced(c, u)

\* When nothing is under way the two sides agree: a connection tcpsvr has an
\* index for is the one its player has in the hall server.  Only a message
\* that did not fit, a crash of the hall server, or a notice that came after
\* the player's next login can break that.
Quiet == login = <<>> /\ cs = <<>> /\ sc = <<>> /\ queue = <<>>
IndexedHasPlayer ==
    Quiet /\ ~trouble =>
        \A c \in Conn : cli[c].st = "open" /\ Socket(c).index # None =>
            \/ HasTwin(c)
            \/ Socket(c).index \in DOMAIN players /\ players[Socket(c).index].head.to = c

\* Once the notice of a connection's end is dealt with, the player it names is
\* gone or has another connection, unless its login was still in the queue when
\* the notice came (server.cpp:229).  The notice names one player; others that
\* the connection has logged in stay.
GoneLeaves ==
    \A u \in DOMAIN players :
        LET c == players[u].head.to
        IN told[c] = u =>
            \/ players[u].late
            \/ \E k \in DOMAIN cs : cs[k].kind = "discon" /\ cs[k].uid = u /\ cs[k].head.to = c

\* A connection told to go is closed in the end, unless a client that does not
\* read keeps tcpsvr in its loop for ever (tcpsvr.cpp:408-415).
ToldToGo(c) == \E k \in DOMAIN sc : sc[k].kind = "bye" /\ sc[k].head.to = c
ToldToGoEnds == []<>~spins => \A c \in Conn : ToldToGo(c) ~> cli[c].st \in Ended
=============================================================================
