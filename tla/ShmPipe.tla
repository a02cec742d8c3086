------------------------------ MODULE ShmPipe ------------------------------
(***************************************************************************)
(* The byte ring in System V shared memory that carries messages from one  *)
(* process to another (core/shm_pipe.cpp): tcpsvr to logic server (cs),    *)
(* logic server to tcpsvr (sc), and a server's own message queue.          *)
(*                                                                         *)
(* One process appends, one process reads, and there is no lock: each      *)
(* call loads the two indices, works on local copies, and stores one index *)
(* back as its last action.  Every load, byte copy and store below is a    *)
(* step of its own, so the two calls interleave in every possible way.     *)
(* The build uses -O0 on x86, where a process's stores reach the other one *)
(* in program order.                                                       *)
(*                                                                         *)
(* A definition X_Slip before a definition X is X with a slip that code of *)
(* this shape invites; nothing uses it but the tests of the properties.    *)
(***************************************************************************)
EXTENDS Integers, Sequences

CONSTANTS Msg,          \* the messages that are appended
          MsgLen,       \* their lengths in bytes
          Size,         \* _size: bytes of the ring
          HdrLen,       \* sizeof(uint32), the length prefix
          MaxBuf,       \* buf_len the reader passes: the size of its buffer
          NoMsg,        \* no message is being appended
          MaxRestarts   \* bound on process restarts, per process

ASSUME SizeAssumption == Size \in Nat \ {0}
ASSUME HdrAssumption == HdrLen \in Nat \ {0}
ASSUME MsgLenAssumption == MsgLen \in [Msg -> Nat \ {0}]
ASSUME NoMsgAssumption == NoMsg \notin Msg
ASSUME BoundAssumption == MaxBuf \in Nat /\ MaxRestarts \in Nat

VARIABLES
    buf,      \* the ring's bytes
    begin,    \* _begin, stored by the reader only
    end,      \* _end, stored by the writer only
    \* The writer, inside AppendOneData.
    ppc,      \* "idle", "index", "write"
    msg,      \* buf, buf_len: the message being appended
    pbeg,     \* tmp_begin
    pend,     \* tmp_end
    off,      \* bytes of the frame (length prefix and data) written so far
    \* The reader, inside GetOneData.
    cpc,      \* "idle", "used", "hdr", "len", "copy"
    cbeg,     \* tmp_begin
    cend,     \* tmp_end
    used,     \* used
    len,      \* buf_len
    got,      \* the bytes copied so far, length prefix first
    out,      \* the caller's buf after the last successful read
    restarts, \* restarts left, per process
    q         \* history: the frames in the ring, each with its distance from begin

pvars == <<ppc, msg, pbeg, pend, off>>
cvars == <<cpc, cbeg, cend, used, len, got>>
vars == <<buf, begin, end, pvars, cvars, out, restarts, q>>

Index == 0 .. Size - 1
NoData == <<>>

-----------------------------------------------------------------------------
(* Frames.  The length prefix is the little-endian image of buf_len: bytes *)
(* that determine it.  Byte i of the data of m is an abstract value.       *)

FrameLen(m) == HdrLen + MsgLen[m]
LenByte(n, i) == <<"len", n, i>>
DataByte(m, i) == <<"data", m, i>>
FrameByte(m, i) == IF i < HdrLen THEN LenByte(MsgLen[m], i)
                                 ELSE DataByte(m, i - HdrLen)
Zero == <<"zero">>
Byte == {Zero} \cup {LenByte(MsgLen[m], i) : m \in Msg, i \in 0 .. HdrLen - 1}
               \cup UNION {{DataByte(m, i) : i \in 0 .. MsgLen[m] - 1} : m \in Msg}

\* The lengths that HdrLen bytes can stand for: the one they spell, or any
\* when they are not the image of the length of a message.
Lengths(h) ==
    LET spelt == {n \in {MsgLen[m] : m \in Msg} :
                    \A i \in 0 .. HdrLen - 1 : h[i + 1] = LenByte(n, i)}
    IN IF spelt # {} THEN spelt ELSE 0 .. Size

Data(m) == [i \in 1 .. MsgLen[m] |-> DataByte(m, i - 1)]

-----------------------------------------------------------------------------
(* Sizes and positions.                                                    *)

\* A position moved past the last byte of the ring continues at the first.
Wrap_Late(p) == p % (Size + 1)
Wrap(p) == p % Size

GetLeftSize_NoReserve(b, e) ==
    IF b = e THEN Size ELSE IF b > e THEN b - e ELSE Size - e + b
GetLeftSize_Mirrored(b, e) ==
    (IF b = e THEN Size ELSE IF b > e THEN Size - b + e ELSE Size - e + b) - 1
GetLeftSize(b, e) ==
    (IF b = e THEN Size ELSE IF b > e THEN b - e ELSE Size - e + b) - 1

\* The last case is the code's: it is not the number of bytes in a wrapped
\* ring but a larger one.
GetUsedSize(b, e) ==
    IF b = e THEN 0 ELSE IF b < e THEN e - b ELSE Size + b - e

\* Where byte i of an n-byte block at position p lies, for the memcpy calls
\* of both sides.  straight is the condition for one memcpy without wrapping.
BlockCell(straight, p, n, i) ==
    IF straight \/ Size - p >= n \/ i < Size - p THEN p + i ELSE i - (Size - p)

WriteCell == IF off < HdrLen THEN pend
             ELSE BlockCell(pbeg > pend, pend, MsgLen[msg], off - HdrLen)
ReadCell_Straight == IF cpc = "hdr" THEN cbeg ELSE cbeg + Len(got) - HdrLen
ReadCell == IF cpc = "hdr" THEN cbeg
            ELSE BlockCell(cbeg < cend, cbeg, len, Len(got) - HdrLen)

\* SetIndex stores an index only when it lies inside the ring.
SetIndex(old, new) == IF new < Size THEN new ELSE old

\* Bytes from position a forward to position b.
Dist(a, b) == IF a <= b THEN b - a ELSE Size - a + b

-----------------------------------------------------------------------------
(* AppendOneData.                                                          *)

\* The free-space test.  A call that fails it returns false and changes
\* nothing.
AppendOneData(m) ==
    /\ ppc = "idle"
    /\ FrameLen(m) <= GetLeftSize(begin, end)
    /\ ppc' = "index" /\ msg' = m
    /\ UNCHANGED <<buf, begin, end, pbeg, pend, off, cvars, out, restarts, q>>

AppendGetIndex ==
    /\ ppc = "index"
    /\ ppc' = "write" /\ pbeg' = begin /\ pend' = end /\ off' = 0
    /\ UNCHANGED <<buf, begin, end, msg, cvars, out, restarts, q>>

\* One byte: of the prefix, where tmp_end advances with it, or of a memcpy.
AppendByte ==
    /\ ppc = "write" /\ off < FrameLen(msg)
    /\ buf' = [buf EXCEPT ![WriteCell] = FrameByte(msg, off)]
    /\ pend' = IF off < HdrLen THEN Wrap(pend + 1) ELSE pend
    /\ off' = off + 1
    /\ UNCHANGED <<begin, end, ppc, msg, pbeg, cvars, out, restarts, q>>

AppendPublish_BeforeData ==
    /\ ppc = "write" /\ off = HdrLen
    /\ end' = SetIndex(end, Wrap(pend + MsgLen[msg]))
    /\ ppc' = "idle" /\ msg' = NoMsg /\ pbeg' = 0 /\ pend' = 0 /\ off' = 0
    /\ q' = Append(q, [m |-> msg, at |-> Dist(begin, end)])
    /\ UNCHANGED <<buf, begin, cvars, out, restarts>>
AppendPublish ==
    /\ ppc = "write" /\ off = FrameLen(msg)
    /\ end' = SetIndex(end, Wrap(pend + MsgLen[msg]))
    /\ ppc' = "idle" /\ msg' = NoMsg /\ pbeg' = 0 /\ pend' = 0 /\ off' = 0
    /\ q' = Append(q, [m |-> msg, at |-> Dist(begin, end)])
    /\ UNCHANGED <<buf, begin, cvars, out, restarts>>

-----------------------------------------------------------------------------
(* GetOneData.                                                             *)

ReaderIdle == cpc' = "idle" /\ cbeg' = 0 /\ cend' = 0 /\ used' = 0 /\ len' = 0 /\ got' = <<>>

\* The frames that follow the first one, once its n bytes are given up.
Following(n) == [k \in 1 .. Len(q) - 1 |-> [m |-> q[k + 1].m, at |-> q[k + 1].at - n]]

GetOneData ==
    /\ cpc = "idle"
    /\ cpc' = "used" /\ cbeg' = begin /\ cend' = end
    /\ UNCHANGED <<buf, begin, end, pvars, used, len, got, out, restarts, q>>

\* GetUsedSize loads the indices again.  A ring too short for a prefix is
\* emptied up to the tmp_end loaded before.
GetUsed ==
    /\ cpc = "used"
    /\ LET u == GetUsedSize(begin, end)
           short == u # 0 /\ u < HdrLen
       IN /\ IF u < HdrLen THEN ReaderIdle
                           ELSE cpc' = "hdr" /\ used' = u /\ UNCHANGED <<cbeg, cend, len, got>>
          /\ begin' = IF short THEN SetIndex(begin, cend) ELSE begin
          /\ q' = IF short THEN <<>> ELSE q
    /\ UNCHANGED <<buf, end, pvars, out, restarts>>

GetLenByte ==
    /\ cpc = "hdr"
    /\ got' = Append(got, buf[ReadCell])
    /\ cbeg' = Wrap(cbeg + 1)
    /\ cpc' = IF Len(got) + 1 = HdrLen THEN "len" ELSE "hdr"
    /\ UNCHANGED <<buf, begin, end, pvars, cend, used, len, out, restarts, q>>

GetCheckLen_OffByOne ==
    /\ cpc = "len"
    /\ \E n \in Lengths(got) :
        IF n >= MaxBuf THEN ReaderIdle
                       ELSE cpc' = "copy" /\ len' = n /\ UNCHANGED <<cbeg, cend, used, got>>
    /\ UNCHANGED <<buf, begin, end, pvars, out, restarts, q>>
\* A length the ring cannot hold empties it; one the caller's buffer cannot
\* hold leaves the message where it is.
GetCheckLen ==
    /\ cpc = "len"
    /\ \E n \in Lengths(got) :
        LET broken == n + HdrLen > used
        IN /\ IF broken \/ n > MaxBuf THEN ReaderIdle
                                      ELSE cpc' = "copy" /\ len' = n /\ UNCHANGED <<cbeg, cend, used, got>>
           /\ begin' = IF broken THEN SetIndex(begin, cend) ELSE begin
           /\ q' = IF broken THEN <<>> ELSE q
    /\ UNCHANGED <<buf, end, pvars, out, restarts>>

GetByte ==
    /\ cpc = "copy" /\ Len(got) < HdrLen + len
    /\ got' = Append(got, buf[ReadCell])
    /\ UNCHANGED <<buf, begin, end, pvars, cpc, cbeg, cend, used, len, out, restarts, q>>

GetPublish ==
    /\ cpc = "copy" /\ Len(got) = HdrLen + len
    /\ begin' = SetIndex(begin, Wrap(cbeg + len))
    /\ out' = SubSeq(got, HdrLen + 1, Len(got))
    /\ ReaderIdle
    /\ q' = Following(HdrLen + len)
    /\ UNCHANGED <<buf, end, pvars, restarts>>

-----------------------------------------------------------------------------
(* A process dies anywhere and comes back: its locals are gone, and the    *)
(* constructor finds the segment, so Reuse keeps begin, end and the bytes. *)

WriterRestart ==
    /\ restarts.writer > 0 /\ ppc # "idle"
    /\ ppc' = "idle" /\ msg' = NoMsg /\ pbeg' = 0 /\ pend' = 0 /\ off' = 0
    /\ restarts' = [restarts EXCEPT !.writer = @ - 1]
    /\ UNCHANGED <<buf, begin, end, cvars, out, q>>

ReaderRestart ==
    /\ restarts.reader > 0 /\ cpc # "idle"
    /\ ReaderIdle
    /\ restarts' = [restarts EXCEPT !.reader = @ - 1]
    /\ UNCHANGED <<buf, begin, end, pvars, out, q>>

-----------------------------------------------------------------------------
\* A fresh segment: zeroes, and Initialize has run.
Init ==
    /\ buf = [i \in Index |-> Zero] /\ begin = 0 /\ end = 0
    /\ ppc = "idle" /\ msg = NoMsg /\ pbeg = 0 /\ pend = 0 /\ off = 0
    /\ cpc = "idle" /\ cbeg = 0 /\ cend = 0 /\ used = 0 /\ len = 0 /\ got = <<>>
    /\ out = NoData /\ restarts = [writer |-> MaxRestarts, reader |-> MaxRestarts]
    /\ q = <<>>

Writer == AppendGetIndex \/ AppendByte \/ AppendPublish
Reader == GetOneData \/ GetUsed \/ GetLenByte \/ GetCheckLen \/ GetByte \/ GetPublish

Next ==
    \/ \E m \in Msg : AppendOneData(m)
    \/ AppendGetIndex \/ AppendByte \/ AppendPublish
    \/ GetOneData \/ GetUsed \/ GetLenByte \/ GetCheckLen \/ GetByte \/ GetPublish
    \/ WriterRestart \/ ReaderRestart

Spec == Init /\ [][Next]_vars

\* The server loops call GetOneData again and again, and a started call ends.
FairSpec == Spec /\ WF_vars(Reader) /\ WF_vars(Writer)

-----------------------------------------------------------------------------
Frame == [m : Msg, at : Nat]

\* The type of every variable.
TypeOK ==
    /\ buf \in [Index -> Byte] /\ begin \in Index /\ end \in Index
    /\ ppc \in {"idle", "index", "write"} /\ msg \in Msg \cup {NoMsg}
    /\ (ppc # "idle" => msg \in Msg)
    /\ pbeg \in Index /\ pend \in Index /\ off \in Nat
    /\ cpc \in {"idle", "used", "hdr", "len", "copy"}
    /\ cbeg \in Index /\ cend \in Index /\ used \in Nat /\ len \in Nat
    /\ got \in Seq(Byte) /\ out \in Seq(Byte)
    /\ restarts \in [writer : Nat, reader : Nat] /\ q \in Seq(Frame)

\* AppendOneData stays inside the ring and never writes a byte of a message
\* that the reader has not given up, whatever the reader did since the
\* free-space test (shm_pipe.cpp:85-113).
NoOverwrite ==
    ppc = "write" /\ off < FrameLen(msg) =>
        /\ WriteCell \in Index
        /\ Dist(begin, WriteCell) >= Dist(begin, end)

\* GetOneData only copies bytes that have been published, although it picks
\* its memcpy by a tmp_end older than the size it checked (shm_pipe.cpp:126-165).
NoUnpublishedRead ==
    cpc = "hdr" \/ (cpc = "copy" /\ Len(got) < HdrLen + len) =>
        /\ ReadCell \in Index
        /\ Dist(begin, ReadCell) < Dist(begin, end)

\* Between the indices lie exactly the frames appended and not yet taken,
\* byte for byte: no path of GetOneData, the two that empty the ring
\* included, leaves the reader inside a frame.
FramesIntact ==
    /\ q = <<>> => begin = end
    /\ q # <<>> => q[1].at = 0 /\ q[Len(q)].at + FrameLen(q[Len(q)].m) = Dist(begin, end)
    /\ \A k \in 1 .. Len(q) - 1 : q[k + 1].at = q[k].at + FrameLen(q[k].m)
    /\ \A k \in 1 .. Len(q) : \A i \in 0 .. FrameLen(q[k].m) - 1 :
           buf[Wrap(begin + q[k].at + i)] = FrameByte(q[k].m, i)

-----------------------------------------------------------------------------
(* Why the properties hold: what each side knows at each of its steps.     *)

\* Frames do not overlap and lie between the indices.
FramesOrdered ==
    /\ \A k \in 1 .. Len(q) : q[k].at + FrameLen(q[k].m) <= Dist(begin, end)
    /\ \A j, k \in 1 .. Len(q) : j < k => q[j].at + FrameLen(q[j].m) <= q[k].at

\* The room the writer measured has not shrunk, and the bytes written so
\* far follow the published ones.
WriterInv ==
    /\ ppc = "index" => Dist(begin, end) + FrameLen(msg) < Size
    /\ ppc = "write" =>
        /\ off <= FrameLen(msg)
        /\ Dist(begin, end) <= Dist(pbeg, end)
        /\ Dist(pbeg, end) + FrameLen(msg) < Size
        /\ pend = Wrap(end + (IF off < HdrLen THEN off ELSE HdrLen))
        /\ \A i \in 0 .. off - 1 : buf[Wrap(end + i)] = FrameByte(msg, i)

\* The end the reader loaded first is old: either the ring looked empty
\* then, or it already held the whole first frame.
EndLoaded ==
    \/ cend = begin
    \/ /\ q # <<>>
       /\ FrameLen(q[1].m) <= Dist(begin, cend)
       /\ Dist(begin, cend) <= Dist(begin, end)

\* The reader has copied a prefix of the first frame.
ReaderInv ==
    /\ cpc = "idle" => got = <<>>
    /\ cpc = "used" => cbeg = begin /\ got = <<>> /\ EndLoaded
    /\ cpc \in {"hdr", "len", "copy"} =>
        /\ q # <<>> /\ EndLoaded
        /\ FrameLen(q[1].m) <= used
        /\ Len(got) <= FrameLen(q[1].m)
        /\ \A i \in 1 .. Len(got) : got[i] = FrameByte(q[1].m, i - 1)
    /\ cpc = "hdr" => Len(got) < HdrLen /\ cbeg = Wrap(begin + Len(got))
    /\ cpc = "len" => Len(got) = HdrLen /\ cbeg = Wrap(begin + HdrLen)
    /\ cpc = "copy" => /\ len = MsgLen[q[1].m] /\ HdrLen <= Len(got)
                       /\ cbeg = Wrap(begin + HdrLen)

\* The inductive invariant: the ring holds whole frames in order, and what
\* each call knows of it stays true while the other call runs
\* (shm_pipe.cpp:83-171).
PipeInv == TypeOK /\ FramesIntact /\ FramesOrdered /\ WriterInv /\ ReaderInv

-----------------------------------------------------------------------------
Abstract == INSTANCE Fifo WITH
    Bytes <- [m \in Msg |-> Data(m)],
    queue <- [k \in 1 .. Len(q) |-> q[k].m]

\* Every interleaving of the two calls, restarts included, behaves like a
\* FIFO of whole messages.
RefinesFifo == Abstract!Spec

\* The head of the ring is longer than the reader's buffer.
HeadTooLong == q # <<>> /\ MsgLen[q[1].m] > MaxBuf

\* As long as messages keep being in the ring, reads keep succeeding, so with
\* the order above every message is read eventually: unless one longer than
\* the reader's buffer has come to the head, which stays for ever
\* (shm_pipe.cpp:148).
Delivered == []<>(q # <<>>) => []<><<GetPublish>>_vars \/ <>[]HeadTooLong
=============================================================================
