----------------------------- MODULE FrameRecv -----------------------------
(***************************************************************************)
(* How a receiver cuts a TCP stream into frames.  The repository has the   *)
(* loop three times: tcpsvr (RecvClientData), proxysvr (RecvServerData)    *)
(* and CenterMng (RecvData, GetOneData, called by GetCenterMessage); side  *)
(* says which one runs.                                                    *)
(* A frame starts with its length, two bytes here; the sender only sends   *)
(* well-formed frames and the network delivers them in any portions.       *)
(*                                                                         *)
(* A definition X_Slip before X is X with a slip such code invites; only   *)
(* the tests of the properties use it.                                     *)
(***************************************************************************)
EXTENDS Integers, Sequences

CONSTANTS Sides,      \* the receivers in question
          Cap,        \* size of recv_buf
          MaxLen,     \* MAX_BUF_LEN, CENTER_BUF_LEN
          HeadLen,    \* TCPHEAD_LEN
          Word,       \* 2^32: values of buf_offset and left
          Lens,       \* lengths of the frames sent
          MaxFrames,  \* bound on frames
          MaxFull     \* bound on refusals of a full cs pipe or message queue

Hdr == 2     \* bytes of the length field
Byte == 256  \* values of a byte

ASSUME FrameAssumption ==
    /\ Sides \subseteq {"tcpsvr", "proxysvr", "center_mng"}
    /\ MaxLen \in Nat /\ MaxLen < Byte * Byte /\ Cap \in Nat /\ MaxLen < Cap /\ Word \in Nat /\ 2 * Cap < Word
    /\ Lens \subseteq Hdr + 1 .. MaxLen
    /\ HeadLen \in Nat /\ MaxFrames \in Nat /\ MaxFull \in Nat

VARIABLES side,  \* which receiver this is; never changes
          sent,  \* history: lengths of the frames sent
          wire,  \* external: bytes sent and not yet received
          buf,   \* recv_buf
          off,   \* buf_offset, recv_offset: bytes in recv_buf
          pc,    \* where the receiver is
          more,  \* recv_len > 0: something was received, the outer loop goes round
          ptr,   \* tmp_recv: bytes of recv_buf cut off so far
          rest,  \* left
          out,   \* frames handed on (cs pipe, DoTransfer, GetOneData)
          full   \* refusals left

vars == <<side, sent, wire, buf, off, pc, more, ptr, rest, out, full>>

Junk == -1   \* a byte of a stTcpHead written over recv_buf: any value

\* Frame number k, l bytes long: the length, low byte first, then a payload
\* that names the frame.
Frame(k, l) == [j \in 1 .. l |-> CASE j = 1 -> l % Byte [] j = 2 -> l \div Byte [] OTHER -> k]
Lowest(a, b) == IF a < b THEN a ELSE b

-----------------------------------------------------------------------------
Send(l) ==
    /\ Len(sent) < MaxFrames /\ pc # "closed"
    /\ sent' = Append(sent, l)
    /\ wire' = wire \o Frame(Len(sent) + 1, l)
    /\ UNCHANGED <<side, buf, off, pc, more, ptr, rest, out, full>>

\* Between two rounds: of the last one nothing is left to do, or it was broken off.
Asleep == pc \in {"idle", "held"}

\* epoll or select report input.
Wake ==
    /\ Asleep /\ wire # <<>>
    /\ pc' = "recv" /\ more' = FALSE
    /\ UNCHANGED <<side, sent, wire, buf, off, ptr, rest, out, full>>

ParseFrom(o, again) == pc' = "parse" /\ ptr' = 0 /\ rest' = o /\ more' = again

\* Another center has input: what this one has in recv_buf is looked at, too.
WakeOther ==
    /\ side = "center_mng" /\ Asleep
    /\ ParseFrom(off, FALSE)
    /\ UNCHANGED <<side, sent, wire, buf, off, out, full>>

RecvFull ==
    /\ pc = "recv" /\ off = Cap
    /\ IF side = "center_mng" THEN ParseFrom(off, FALSE) ELSE pc' = "idle" /\ UNCHANGED <<ptr, rest, more>>
    /\ UNCHANGED <<side, sent, wire, buf, off, out, full>>

RecvSome ==
    /\ pc = "recv" /\ off < Cap
    /\ \E n \in 1 .. Lowest(Len(wire), Cap - off) :
        /\ buf' = [j \in 1 .. Cap |-> IF j \in off + 1 .. off + n THEN wire[j - off] ELSE buf[j]]
        /\ wire' = SubSeq(wire, n + 1, Len(wire))
        /\ off' = off + n
    /\ IF side = "center_mng" THEN more' = TRUE /\ UNCHANGED <<pc, ptr, rest>> ELSE ParseFrom(off', TRUE)
    /\ UNCHANGED <<side, sent, out, full>>

\* What EAGAIN does to the number of bytes: tcpsvr adds recv_len, that is -1.
AfterAgain_Signed(o) == IF side = "tcpsvr" THEN o - 1 ELSE o
AfterAgain(o) == IF side = "tcpsvr" THEN (o + Word - 1) % Word ELSE o

\* recv finds nothing more.
RecvAgain ==
    /\ pc = "recv" /\ off # Cap /\ more
    /\ off' = AfterAgain(off)
    /\ IF side = "proxysvr" THEN pc' = "idle" /\ UNCHANGED <<ptr, rest, more>> ELSE ParseFrom(off', FALSE)
    /\ UNCHANGED <<side, sent, wire, buf, out, full>>

-----------------------------------------------------------------------------
\* Past the end of recv_buf lies the unused buffer of the next socket.
At(j) == IF j <= Cap THEN buf[j] ELSE 0

\* The length read at tmp_recv; anything if a stTcpHead was written over it.
LenHere ==
    IF Junk \in {At(ptr + 1), At(ptr + 2)} THEN Lens \cup {0, MaxLen + 1}
    ELSE {At(ptr + 1) + At(ptr + 2) * Byte}

Cutting == pc = "parse" /\ rest > Hdr
Invalid(l) == l > MaxLen \/ (side = "tcpsvr" /\ l < Hdr)

Enough_More(l) == l < rest
Enough(l) == l <= rest

\* The bytes handed on, and tcpsvr's stTcpHead in front of them.
CutFrame ==
    /\ Cutting
    /\ \E l \in LenHere :
        /\ ~Invalid(l) /\ Enough(l)
        /\ out' = Append(out, [j \in 1 .. l |-> At(ptr + j)])
        /\ rest' = rest - l /\ ptr' = ptr + l
        /\ buf' = IF side # "tcpsvr" THEN buf
                  ELSE [j \in 1 .. Cap |-> IF j \in ptr - HeadLen + 1 .. ptr THEN Junk ELSE buf[j]]
    /\ UNCHANGED <<side, sent, wire, off, pc, more, full>>

\* SocketRelease, or CenterMng closing its descriptor.
CutInvalid ==
    /\ Cutting /\ \E l \in LenHere : Invalid(l)
    /\ pc' = "closed" /\ wire' = <<>>
    /\ UNCHANGED <<side, sent, buf, off, more, ptr, rest, out, full>>

MoveUp_Offset == UNCHANGED buf /\ off' = rest
\* memmove of what is left to the front of recv_buf.
MoveUp == buf' = [j \in 1 .. Cap |-> IF j <= rest /\ rest # off THEN At(ptr + j) ELSE buf[j]] /\ off' = rest

LoopEnd ==
    /\ pc' = IF more THEN "recv" ELSE "idle"
    /\ MoveUp
    /\ UNCHANGED <<side, sent, wire, more, ptr, rest, out>>

CutEnd ==
    /\ pc = "parse"
    /\ rest <= Hdr \/ \E l \in LenHere : ~Invalid(l) /\ ~Enough(l)
    /\ LoopEnd
    /\ UNCHANGED full

\* GetCenterMessage returns: the message queue refused the frame just cut, or 512
\* messages of other centers came first.  What is left stays in recv_buf.
CutBrokenOff ==
    /\ side = "center_mng" /\ full > 0 /\ pc = "parse"
    /\ pc' = "held" /\ full' = full - 1
    /\ MoveUp
    /\ UNCHANGED <<side, sent, wire, more, ptr, rest, out>>

\* The cs pipe is full: the frame stays in recv_buf.  With an offset below
\* zero memmove runs out of memory and the process ends.
CutPipeFull ==
    /\ side = "tcpsvr" /\ full > 0
    /\ Cutting /\ \E l \in LenHere : ~Invalid(l) /\ Enough(l)
    /\ full' = full - 1
    /\ IF rest <= Cap THEN LoopEnd
       ELSE pc' = "closed" /\ wire' = <<>> /\ UNCHANGED <<side, sent, buf, off, more, ptr, rest, out>>

Init ==
    /\ side \in Sides
    /\ sent = <<>> /\ wire = <<>> /\ out = <<>>
    /\ buf = [j \in 1 .. Cap |-> 0] /\ off = 0
    /\ pc = "idle" /\ more = FALSE /\ ptr = 0 /\ rest = 0
    /\ full = MaxFull

Next ==
    \/ \E l \in Lens : Send(l)
    \/ Wake \/ WakeOther \/ RecvFull \/ RecvSome \/ RecvAgain
    \/ CutFrame \/ CutInvalid \/ CutEnd \/ CutBrokenOff \/ CutPipeFull

Spec == Init /\ [][Next]_vars

-----------------------------------------------------------------------------
(* Properties.                                                             *)

\* Offsets are 32-bit values and the receiver is in one of its states.
TypeOK ==
    /\ side \in Sides
    /\ off \in 0 .. Word - 1 /\ rest \in 0 .. Word - 1
    /\ pc \in {"idle", "held", "recv", "parse", "closed"}
    /\ \A j \in 1 .. Cap : buf[j] \in Nat \cup {Junk}

\* What proxysvr and CenterMng hand on are the frames sent, whole, in order,
\* each once, however the network portions them and wherever a round is broken
\* off (proxysvr.cpp:323-371, center_mng.cpp:149-199, server.cpp:248-290).
FramesInOrder ==
    side # "tcpsvr" =>
        /\ Len(out) <= Len(sent)
        /\ \A k \in 1 .. Len(out) : out[k] = Frame(k, sent[k])

\* When a round comes to its end they leave no complete frame in recv_buf, where
\* it would lie until the peer happens to send more: only a round that
\* GetCenterMessage breaks off does, until there is input from any center.
NothingWaits ==
    side # "tcpsvr" /\ pc = "idle" => Len(out) = Len(sent) \/ off < sent[Len(out) + 1]

\* A peer that sends only well-formed frames is not thrown out ("len invalid").
ValidStaysOpen == pc # "closed"
=============================================================================
