--------------------------- MODULE ShmPipeProofs ---------------------------
(***************************************************************************)
(* The pipe is correct for every ring size, prefix length and set of       *)
(* messages.                                                               *)
(***************************************************************************)
EXTENDS ShmPipe, SequenceTheorems, TLAPS

USE SizeAssumption, HdrAssumption

-----------------------------------------------------------------------------
(* Arithmetic of the ring.  Wrap is the only place where % occurs; once it *)
(* is known on two rounds of the ring the rest is linear.                  *)

\* Sums may be regrouped; the provers need it said.
LEMMA SumAssoc == ASSUME NEW x \in Int, NEW y \in Int, NEW z \in Int PROVE x + y + z = x + (y + z)
OBVIOUS

\* What % does to a position less than two rounds from the start.
LEMMA WrapValue ==
    ASSUME NEW p \in 0 .. 2 * Size - 1
    PROVE  /\ Wrap(p) = IF p < Size THEN p ELSE p - Size
           /\ Wrap(p) \in Index
<1>1. CASE p < Size
  <2>1. p % Size = p
    BY <1>1
  <2>2. QED
    BY <1>1, <2>1 DEF Wrap, Index
<1>2. CASE p >= Size
  <2>1. p % Size = p - Size
    BY <1>2
  <2>2. QED
    BY <1>2, <2>1 DEF Wrap, Index
<1>3. QED
  BY <1>1, <1>2

\* The same for an index moved by at most one round.
LEMMA WrapSum ==
    ASSUME NEW b \in Index, NEW x \in 0 .. Size
    PROVE  /\ Wrap(b + x) = IF b + x < Size THEN b + x ELSE b + x - Size
           /\ Wrap(b + x) \in Index
<1> DEFINE p == b + x
<1>1. p \in 0 .. 2 * Size - 1
  BY DEF Index
<1> HIDE DEF p
<1>2. Wrap(p) = (IF p < Size THEN p ELSE p - Size) /\ Wrap(p) \in Index
  BY <1>1, WrapValue
<1>3. QED
  BY <1>1, <1>2 DEF p, Index

\* Dist counts the steps of Wrap.
LEMMA DistWrap ==
    ASSUME NEW b \in Index, NEW x \in 0 .. Size - 1
    PROVE  Dist(b, Wrap(b + x)) = x
<1>1. b + x \in 0 .. 2 * Size - 1
  BY DEF Index
<1>2. QED
  BY <1>1, WrapValue DEF Dist, Index

\* Dist is less than the ring, and leads from one index to the other.
LEMMA WrapDist ==
    ASSUME NEW b \in Index, NEW e \in Index
    PROVE  /\ Dist(b, e) \in 0 .. Size - 1
           /\ Wrap(b + Dist(b, e)) = e
           /\ Dist(b, e) = 0 <=> b = e
<1>1. Dist(b, e) \in 0 .. Size - 1 /\ (Dist(b, e) = 0 <=> b = e)
  BY DEF Dist, Index
<1>2. b + Dist(b, e) \in 0 .. 2 * Size - 1
  BY <1>1 DEF Index
<1>3. QED
  BY <1>1, <1>2, WrapValue DEF Dist, Index

\* Positions after the end are positions after the beginning.
LEMMA WrapShift ==
    ASSUME NEW b \in Index, NEW x \in Nat, NEW y \in Nat, x + y < Size
    PROVE  Wrap(Wrap(b + x) + y) = Wrap(b + x + y)
<1> DEFINE p == b + x
<1>1. p \in 0 .. 2 * Size - 1
  BY DEF Index
<1> HIDE DEF p
<1>2. Wrap(p) = IF p < Size THEN p ELSE p - Size
  BY <1>1, WrapValue
<1> DEFINE r == Wrap(p) + y
<1>3. r \in 0 .. 2 * Size - 1
  BY <1>1, <1>2
<1> HIDE DEF r
<1>4. Wrap(r) = IF r < Size THEN r ELSE r - Size
  BY <1>3, WrapValue
<1> DEFINE s == b + x + y
<1>5. s \in 0 .. 2 * Size - 1
  BY DEF Index
<1> HIDE DEF s
<1>6. Wrap(s) = IF s < Size THEN s ELSE s - Size
  BY <1>5, WrapValue
<1>7. Wrap(r) = Wrap(s)
  BY <1>2, <1>4, <1>6 DEF p, r, s, Index
<1>8. QED
  BY <1>7 DEF p, r, s

\* Different distances are different cells.
LEMMA WrapInjective ==
    ASSUME NEW b \in Index, NEW x \in 0 .. Size - 1, NEW y \in 0 .. Size - 1, x # y
    PROVE  Wrap(b + x) # Wrap(b + y)
BY DistWrap

\* Publishing n more bytes moves the end n bytes away from the beginning.
LEMMA DistExtend ==
    ASSUME NEW b \in Index, NEW e \in Index, NEW n \in Nat, Dist(b, e) + n < Size
    PROVE  Wrap(e + n) \in Index /\ Dist(b, Wrap(e + n)) = Dist(b, e) + n
<1>1. Dist(b, e) \in 0 .. Size - 1
  BY WrapDist
<1>2. Wrap(e + n) \in Index /\ Wrap(e + n) = IF e + n < Size THEN e + n ELSE e + n - Size
  BY <1>1, WrapSum
<1>3. QED
  BY <1>2 DEF Dist, Index

\* Giving up n bytes moves the beginning n bytes towards the end.
LEMMA DistAdvance ==
    ASSUME NEW b \in Index, NEW e \in Index, NEW n \in Nat, n <= Dist(b, e)
    PROVE  Wrap(b + n) \in Index /\ Dist(Wrap(b + n), e) = Dist(b, e) - n
<1>1. Dist(b, e) \in 0 .. Size - 1
  BY WrapDist
<1>2. Wrap(b + n) \in Index /\ Wrap(b + n) = IF b + n < Size THEN b + n ELSE b + n - Size
  BY <1>1, WrapSum
<1>3. QED
  BY <1>2 DEF Dist, Index

\* GetLeftSize is the free room less the reserved byte.
LEMMA LeftIsRoom ==
    ASSUME NEW b \in Index, NEW e \in Index
    PROVE  GetLeftSize(b, e) = Size - 1 - Dist(b, e)
BY DEF GetLeftSize, Dist, Index

\* GetUsedSize never reports less than the ring holds.
LEMMA UsedCovers ==
    ASSUME NEW b \in Index, NEW e \in Index
    PROVE  /\ GetUsedSize(b, e) \in Nat
           /\ Dist(b, e) <= GetUsedSize(b, e)
           /\ GetUsedSize(b, e) = 0 <=> b = e
BY DEF GetUsedSize, Dist, Index

-----------------------------------------------------------------------------
(* Frames.                                                                 *)

\* A frame is longer than its header.
LEMMA FrameLenType ==
    ASSUME NEW m \in Msg
    PROVE  FrameLen(m) \in Nat /\ HdrLen < FrameLen(m) /\ MsgLen[m] \in Nat \ {0}
BY MsgLenAssumption DEF FrameLen

\* What a frame consists of are bytes.
LEMMA FrameByteType ==
    ASSUME NEW m \in Msg, NEW i \in 0 .. FrameLen(m) - 1
    PROVE  FrameByte(m, i) \in Byte
<1> USE FrameLenType
<1>1. CASE i < HdrLen
  BY <1>1 DEF FrameByte, Byte
<1>2. CASE ~(i < HdrLen)
  <2>1. i - HdrLen \in 0 .. MsgLen[m] - 1
    BY <1>2 DEF FrameLen
  <2>2. QED
    BY <1>2, <2>1 DEF FrameByte, Byte
<1>3. QED
  BY <1>1, <1>2

\* The prefix of a frame spells the length of its message and no other.
LEMMA PrefixSpells ==
    ASSUME NEW m \in Msg, NEW h,
           \A i \in 1 .. HdrLen : h[i] = FrameByte(m, i - 1)
    PROVE  Lengths(h) = {MsgLen[m]}
<1>1. \A i \in 0 .. HdrLen - 1 : h[i + 1] = LenByte(MsgLen[m], i)
  <2>1. SUFFICES ASSUME NEW i \in 0 .. HdrLen - 1
                 PROVE  h[i + 1] = LenByte(MsgLen[m], i)
    OBVIOUS
  <2>2. i + 1 \in 1 .. HdrLen /\ (i + 1) - 1 = i
    OBVIOUS
  <2>3. h[i + 1] = FrameByte(m, i)
    BY <2>2
  <2>4. QED
    BY <2>3 DEF FrameByte
<1>2. ASSUME NEW n, \A i \in 0 .. HdrLen - 1 : h[i + 1] = LenByte(n, i)
      PROVE  n = MsgLen[m]
  <2>1. 0 \in 0 .. HdrLen - 1
    OBVIOUS
  <2>2. LenByte(n, 0) = LenByte(MsgLen[m], 0)
    BY <1>1, <1>2, <2>1
  <2>3. QED
    BY <2>2 DEF LenByte
<1>3. QED
  BY <1>1, <1>2 DEF Lengths

-----------------------------------------------------------------------------
(* What the invariant says about the next byte of each call.               *)

\* The writer's room is there for as long as it writes, and its next byte
\* goes right behind the last one.
LEMMA WriterCell ==
    ASSUME PipeInv, ppc = "write"
    PROVE  /\ Dist(begin, end) + FrameLen(msg) < Size
           /\ off < FrameLen(msg) => WriteCell = Wrap(end + off) /\ WriteCell \in Index
<1>a. /\ msg \in Msg /\ begin \in Index /\ end \in Index /\ pbeg \in Index /\ pend \in Index
      /\ off \in Nat
  BY DEF PipeInv, TypeOK
<1>b. /\ Dist(begin, end) <= Dist(pbeg, end)
      /\ Dist(pbeg, end) + FrameLen(msg) < Size
      /\ pend = Wrap(end + (IF off < HdrLen THEN off ELSE HdrLen))
  BY DEF PipeInv, WriterInv
<1>c. /\ FrameLen(msg) \in Nat /\ HdrLen < FrameLen(msg) /\ MsgLen[msg] \in Nat
      /\ FrameLen(msg) = HdrLen + MsgLen[msg]
  BY <1>a, FrameLenType DEF FrameLen
<1>0. /\ begin \in Nat /\ end \in Nat /\ pend \in Nat /\ begin < Size /\ end < Size /\ pend < Size
  BY <1>a DEF Index
<1>1. Dist(begin, end) \in 0 .. Size - 1 /\ Dist(pbeg, end) \in 0 .. Size - 1
  BY <1>a, WrapDist
<1>2. Dist(begin, end) + FrameLen(msg) < Size
  BY <1>b, <1>c, <1>1
<1>3. ASSUME off < FrameLen(msg)
      PROVE  WriteCell = Wrap(end + off)
  <2>1. CASE off < HdrLen
    BY <2>1, <1>b DEF WriteCell
  <2>2. CASE ~(off < HdrLen)
    <3>1. pend = Wrap(end + HdrLen)
      BY <2>2, <1>b
    <3>2. off - HdrLen \in 0 .. MsgLen[msg] - 1 /\ MsgLen[msg] < Size
      BY <1>a, <1>c, <1>2, <1>1, <1>3, <2>2
    <3>4. pend = IF end + HdrLen < Size THEN end + HdrLen ELSE end + HdrLen - Size
      <4>1. HdrLen \in 0 .. Size
        BY <1>a, <1>c, <1>1, <1>2
      <4>2. QED
        BY <1>a, <3>1, <4>1, WrapSum
    <3>5. pbeg > pend => pend + MsgLen[msg] <= Size
      <4>1. Dist(pbeg, end) + HdrLen + MsgLen[msg] < Size
        BY <1>b, <1>c, <1>1
      <4>2. QED
        BY <4>1, <3>4, <1>a, <1>c DEF Dist, Index
    <3>6. BlockCell(pbeg > pend, pend, MsgLen[msg], off - HdrLen) = Wrap(pend + (off - HdrLen))
      <4> DEFINE i == off - HdrLen
      <4>1. i \in 0 .. MsgLen[msg] - 1 /\ MsgLen[msg] < Size
        BY <3>2
      <4> HIDE DEF i
      <4>2. i \in 0 .. Size /\ Wrap(pend + i) = IF pend + i < Size THEN pend + i ELSE pend + i - Size
        BY <4>1, <1>a, <1>c, WrapSum
      <4>3. BlockCell(pbeg > pend, pend, MsgLen[msg], i) = Wrap(pend + i)
        BY <4>1, <4>2, <3>5, <1>0, <1>c DEF BlockCell
      <4>4. QED
        BY <4>3 DEF i
    <3>7. Wrap(pend + (off - HdrLen)) = Wrap(end + HdrLen + (off - HdrLen))
      <4> DEFINE i == off - HdrLen
      <4>1. i \in Nat /\ HdrLen + i < Size
        BY <3>2, <1>2, <1>1, <1>c
      <4> HIDE DEF i
      <4>2. Wrap(Wrap(end + HdrLen) + i) = Wrap(end + HdrLen + i)
        BY <4>1, <1>a, WrapShift
      <4>3. QED
        BY <4>2, <3>1 DEF i
    <3>8. end + HdrLen + (off - HdrLen) = end + off
      BY <1>0, <1>a
    <3>9. QED
      BY <2>2, <3>6, <3>7, <3>8 DEF WriteCell
  <2>3. QED
    BY <2>1, <2>2
<1>4. off < FrameLen(msg) => Wrap(end + off) \in Index
  <2>1. ASSUME off < FrameLen(msg) PROVE off \in 0 .. Size
    BY <2>1, <1>0, <1>a, <1>c, <1>1, <1>2
  <2>2. QED
    BY <1>a, <2>1, WrapSum
<1>5. QED
  BY <1>2, <1>3, <1>4

\* The frame being read is the first one, and the indices span it.
LEMMA FirstFrame ==
    ASSUME PipeInv, q # <<>>
    PROVE  /\ Len(q) \in Nat /\ 1 \in 1 .. Len(q)
           /\ q[1].m \in Msg /\ q[1].at = 0
           /\ FrameLen(q[1].m) \in Nat /\ HdrLen < FrameLen(q[1].m)
           /\ FrameLen(q[1].m) <= Dist(begin, end)
           /\ Dist(begin, end) \in 0 .. Size - 1
           /\ \A i \in 0 .. FrameLen(q[1].m) - 1 : buf[Wrap(begin + i)] = FrameByte(q[1].m, i)
<1>1. q \in Seq(Frame) /\ begin \in Index /\ end \in Index
  BY DEF PipeInv, TypeOK
<1>2. Len(q) \in Nat /\ 1 \in 1 .. Len(q) /\ q[1] \in Frame
  BY <1>1
<1>3. q[1].at = 0 /\ q[1].m \in Msg
  BY <1>2 DEF PipeInv, FramesIntact, Frame
<1>4. FrameLen(q[1].m) \in Nat /\ HdrLen < FrameLen(q[1].m)
  BY <1>3, FrameLenType
<1>5. Dist(begin, end) \in 0 .. Size - 1
  BY <1>1, WrapDist
<1>6. q[1].at + FrameLen(q[1].m) <= Dist(begin, end)
  BY <1>2 DEF PipeInv, FramesOrdered
<1>7. FrameLen(q[1].m) <= Dist(begin, end)
  BY <1>3, <1>4, <1>5, <1>6
<1>8. \A i \in 0 .. FrameLen(q[1].m) - 1 : buf[Wrap(begin + i)] = FrameByte(q[1].m, i)
  <2>1. SUFFICES ASSUME NEW i \in 0 .. FrameLen(q[1].m) - 1
                 PROVE  buf[Wrap(begin + i)] = FrameByte(q[1].m, i)
    OBVIOUS
  <2>2. buf[Wrap(begin + q[1].at + i)] = FrameByte(q[1].m, i)
    BY <1>2 DEF PipeInv, FramesIntact
  <2>3. begin + q[1].at + i = begin + i
    BY <1>1, <1>3 DEF Index
  <2>4. QED
    BY <2>2, <2>3
<1>9. QED
  BY <1>2, <1>3, <1>4, <1>5, <1>7, <1>8

\* The reader's next byte is the next byte of the first frame, whichever
\* memcpy the old tmp_end selects.
LEMMA ReaderCell ==
    ASSUME PipeInv, cpc = "hdr" \/ (cpc = "copy" /\ Len(got) < HdrLen + len)
    PROVE  /\ q # <<>> /\ Len(got) \in Nat
           /\ Len(got) < FrameLen(q[1].m)
           /\ ReadCell = Wrap(begin + Len(got)) /\ ReadCell \in Index
           /\ buf[ReadCell] = FrameByte(q[1].m, Len(got))
<1>a. /\ begin \in Index /\ end \in Index /\ cbeg \in Index /\ cend \in Index
      /\ Len(got) \in Nat /\ len \in Nat
  BY DEF PipeInv, TypeOK
<1>b. q # <<>> /\ EndLoaded
  BY DEF PipeInv, ReaderInv
<1> DEFINE f == q[1].m
           n == Len(got)
<1>c. /\ f \in Msg /\ FrameLen(f) \in Nat /\ HdrLen < FrameLen(f)
      /\ FrameLen(f) <= Dist(begin, end) /\ Dist(begin, end) \in 0 .. Size - 1
  BY <1>b, FirstFrame
<1>d. MsgLen[f] \in Nat /\ FrameLen(f) = HdrLen + MsgLen[f]
  BY <1>c, FrameLenType DEF FrameLen
<1>e. \A i \in 0 .. FrameLen(f) - 1 : buf[Wrap(begin + i)] = FrameByte(f, i)
  BY <1>b, FirstFrame
<1>1. n < FrameLen(f) /\ n \in 0 .. FrameLen(f) - 1 /\ n \in 0 .. Size
  <2>1. CASE cpc = "hdr"
    <3>1. n < HdrLen
      BY <2>1 DEF PipeInv, ReaderInv
    <3>2. QED
      BY <3>1, <1>a, <1>c
  <2>2. CASE cpc = "copy" /\ n < HdrLen + len
    <3>1. len = MsgLen[f]
      BY <2>2 DEF PipeInv, ReaderInv
    <3>2. QED
      BY <2>2, <3>1, <1>a, <1>c, <1>d
  <2>3. QED
    BY <2>1, <2>2
<1>2. ReadCell = Wrap(begin + n)
  <2>1. CASE cpc = "hdr"
    BY <2>1 DEF PipeInv, ReaderInv, ReadCell
  <2>2. CASE cpc = "copy" /\ n < HdrLen + len
    <3>1. len = MsgLen[f] /\ HdrLen <= n /\ cbeg = Wrap(begin + HdrLen)
      BY <2>2 DEF PipeInv, ReaderInv
    <3>2. cbeg = IF begin + HdrLen < Size THEN begin + HdrLen ELSE begin + HdrLen - Size
      BY <3>1, <1>a, <1>c, WrapSum
    <3>3. cbeg < cend => cbeg + len <= Size
      <4>1. CASE cend = begin
        <5>0. HdrLen + len \in 0 .. Size - 1 /\ HdrLen + len < Size
          <6>1. HdrLen + len = FrameLen(f)
            BY <3>1, <1>d
          <6>2. QED
            BY <6>1, <1>c
        <5>1. begin \in Nat /\ begin < Size /\ HdrLen \in Nat /\ HdrLen + len < Size
          BY <5>0, <1>a DEF Index
        <5>2. cbeg < begin => cbeg = begin + HdrLen - Size
          BY <3>2, <5>1
        <5>3. QED
          BY <4>1, <5>1, <5>2, <1>a
      <4>2. CASE FrameLen(f) <= Dist(begin, cend)
        <5>1. Dist(begin, cend) = IF begin <= cend THEN cend - begin ELSE Size - begin + cend
          BY DEF Dist
        <5>2. HdrLen + len <= Dist(begin, cend) /\ begin \in Nat /\ cend \in Nat /\ cend < Size
          BY <4>2, <3>1, <1>a, <1>d DEF Index
        <5>3. QED
          BY <5>1, <5>2, <3>2, <1>a DEF Index
      <4>3. QED
        BY <4>1, <4>2, <1>b DEF EndLoaded
    <3> DEFINE i == n - HdrLen
    <3>4. i \in 0 .. len - 1 /\ i \in 0 .. Size /\ i \in Nat /\ HdrLen + i < Size /\ n = HdrLen + i
      <4>1. HdrLen \in Nat /\ HdrLen <= n /\ n < HdrLen + len /\ HdrLen + len < Size /\ n \in Nat /\ len \in Nat
        BY <3>1, <2>2, <1>a, <1>c, <1>d
      <4>2. QED
        BY <4>1, <1>a
    <3>5. cpc # "hdr" /\ ReadCell = BlockCell(cbeg < cend, cbeg, len, i)
      BY <2>2 DEF ReadCell
    <3> HIDE DEF i, n
    <3>6. Wrap(cbeg + i) = IF cbeg + i < Size THEN cbeg + i ELSE cbeg + i - Size
      BY <3>4, <1>a, WrapSum
    <3>7. BlockCell(cbeg < cend, cbeg, len, i) = Wrap(cbeg + i)
      BY <3>3, <3>4, <3>6, <1>a DEF BlockCell, Index
    <3>8. Wrap(Wrap(begin + HdrLen) + i) = Wrap(begin + HdrLen + i)
      BY <3>4, <1>a, WrapShift
    <3>9. begin + HdrLen + i = begin + n
      BY <3>4, <1>a DEF Index
    <3>10. QED
      BY <3>1, <3>5, <3>7, <3>8, <3>9
  <2>3. QED
    BY <2>1, <2>2
<1>3. Wrap(begin + n) \in Index
  BY <1>1, <1>a, WrapSum
<1>4. QED
  BY <1>a, <1>b, <1>e, <1>1, <1>2, <1>3

-----------------------------------------------------------------------------
(* The invariant is inductive: one lemma per action.                       *)

\* It holds of an empty pipe.
LEMMA InitInv == Init => PipeInv
<1>1. SUFFICES ASSUME Init PROVE PipeInv
  OBVIOUS
<1>2. TypeOK
  BY <1>1, BoundAssumption DEF Init, TypeOK, Index, Byte, NoData
<1>3. FramesIntact /\ FramesOrdered
  BY <1>1 DEF Init, FramesIntact, FramesOrdered
<1>4. WriterInv /\ ReaderInv
  BY <1>1 DEF Init, WriterInv, ReaderInv
<1>5. QED
  BY <1>2, <1>3, <1>4 DEF PipeInv

\* The writer begins a frame.
LEMMA AppendOneDataInv ==
    ASSUME PipeInv, NEW m \in Msg, AppendOneData(m)
    PROVE  PipeInv'
<1> USE DEF AppendOneData
<1>1. TypeOK'
  BY DEF PipeInv, TypeOK, cvars
<1>2. FramesIntact' /\ FramesOrdered'
  BY DEF PipeInv, FramesIntact, FramesOrdered
<1>3. WriterInv'
  <2>1. begin \in Index /\ end \in Index /\ FrameLen(m) \in Nat
    BY FrameLenType DEF PipeInv, TypeOK
  <2>2. Dist(begin, end) \in 0 .. Size - 1 /\ GetLeftSize(begin, end) = Size - 1 - Dist(begin, end)
    BY <2>1, LeftIsRoom, WrapDist
  <2>3. Dist(begin, end) + FrameLen(m) < Size
    BY <2>1, <2>2
  <2>4. QED
    BY <2>3 DEF WriterInv
<1>4. ReaderInv'
  BY DEF PipeInv, ReaderInv, EndLoaded, cvars
<1>5. QED
  BY <1>1, <1>2, <1>3, <1>4 DEF PipeInv

\* It reads where the reader stands.
LEMMA AppendGetIndexInv ==
    ASSUME PipeInv, AppendGetIndex
    PROVE  PipeInv'
<1> USE DEF AppendGetIndex
<1>1. TypeOK'
  BY DEF PipeInv, TypeOK, cvars
<1>2. FramesIntact' /\ FramesOrdered'
  BY DEF PipeInv, FramesIntact, FramesOrdered
<1>3. WriterInv'
  <2>1. /\ begin \in Index /\ end \in Index /\ FrameLen(msg) \in Nat /\ HdrLen < FrameLen(msg)
        /\ Dist(begin, end) + FrameLen(msg) < Size
    BY FrameLenType DEF PipeInv, TypeOK, WriterInv
  <2>2. Wrap(end + 0) = end
    BY <2>1, WrapSum DEF Index
  <2>3. Dist(begin, end) \in 0 .. Size - 1
    BY <2>1, WrapDist
  <2>4. pend' = Wrap(end + (IF 0 < HdrLen THEN 0 ELSE HdrLen))
    BY <2>2
  <2>5. QED
    BY <2>1, <2>3, <2>4 DEF WriterInv
<1>4. ReaderInv'
  BY DEF PipeInv, ReaderInv, EndLoaded, cvars
<1>5. QED
  BY <1>1, <1>2, <1>3, <1>4 DEF PipeInv

\* It writes a byte.
LEMMA AppendByteInv ==
    ASSUME PipeInv, AppendByte
    PROVE  PipeInv'
<1>a. /\ begin \in Index /\ end \in Index /\ pend \in Index /\ off \in Nat /\ msg \in Msg
      /\ buf \in [Index -> Byte] /\ q \in Seq(Frame)
      /\ ppc = "write" /\ off < FrameLen(msg)
  BY DEF PipeInv, TypeOK, AppendByte
<1>b. /\ FrameLen(msg) \in Nat /\ HdrLen < FrameLen(msg)
      /\ Dist(begin, end) \in 0 .. Size - 1 /\ end = Wrap(begin + Dist(begin, end))
  BY <1>a, FrameLenType, WrapDist
<1>c. /\ Dist(begin, end) + FrameLen(msg) < Size
      /\ WriteCell = Wrap(end + off) /\ WriteCell \in Index
  BY <1>a, WriterCell
<1>d. /\ buf' = [buf EXCEPT ![Wrap(end + off)] = FrameByte(msg, off)]
      /\ off' = off + 1
      /\ pend' = IF off < HdrLen THEN Wrap(pend + 1) ELSE pend
      /\ UNCHANGED <<begin, end, ppc, msg, pbeg, cvars, out, restarts, q>>
  BY <1>c DEF AppendByte
<1>e. /\ buf'[Wrap(end + off)] = FrameByte(msg, off)
      /\ \A c \in Index : c # Wrap(end + off) => buf'[c] = buf[c]
  BY <1>a, <1>c, <1>d
<1>f. pend' = Wrap(end + (IF off + 1 < HdrLen THEN off + 1 ELSE HdrLen)) /\ pend' \in Index
  <2>1. CASE off < HdrLen
    <3>1. pend = Wrap(end + off)
      BY <2>1, <1>a DEF PipeInv, WriterInv
    <3>2. off + 1 < Size
      BY <1>a, <1>b, <1>c
    <3>3. Wrap(Wrap(end + off) + 1) = Wrap(end + off + 1)
      BY <3>2, <1>a, WrapShift
    <3>4. off + 1 = IF off + 1 < HdrLen THEN off + 1 ELSE HdrLen
      BY <2>1, <1>a
    <3>5. end + off + 1 = end + (off + 1)
      BY <1>a DEF Index
    <3>6. off + 1 \in 0 .. Size
      BY <3>2, <1>a
    <3>7. Wrap(end + (off + 1)) \in Index
      BY <3>6, <1>a, WrapSum
    <3>8. pend' = Wrap(end + (off + 1))
      BY <2>1, <1>d, <3>1, <3>3, <3>5
    <3>9. QED
      BY <3>4, <3>7, <3>8
  <2>2. CASE ~(off < HdrLen)
    <3>1. pend = Wrap(end + HdrLen)
      BY <2>2, <1>a DEF PipeInv, WriterInv
    <3>2. HdrLen = IF off + 1 < HdrLen THEN off + 1 ELSE HdrLen
      BY <2>2, <1>a
    <3>3. QED
      BY <2>2, <3>1, <3>2, <1>a, <1>d
  <2>3. QED
    BY <2>1, <2>2
<1>1. TypeOK'
  <2>1. FrameByte(msg, off) \in Byte
    BY <1>a, <1>b, FrameByteType
  <2>2. buf' \in [Index -> Byte]
    BY <2>1, <1>a, <1>c, <1>d
  <2>3. off' \in Nat
    BY <1>a, <1>d
  <2>4. QED
    BY <2>2, <2>3, <1>f, <1>d DEF PipeInv, TypeOK, cvars
<1>2. FramesOrdered'
  BY <1>d DEF PipeInv, FramesOrdered
<1>3. FramesIntact'
  <2>1. ASSUME NEW k \in 1 .. Len(q), NEW i \in 0 .. FrameLen(q[k].m) - 1
        PROVE  buf'[Wrap(begin + q[k].at + i)] = FrameByte(q[k].m, i)
    <3>0. q[k] \in Frame
      BY <1>a
    <3>1. q[k].m \in Msg /\ q[k].at \in Nat /\ FrameLen(q[k].m) \in Nat
      BY <3>0, FrameLenType DEF Frame
    <3>2. q[k].at + FrameLen(q[k].m) <= Dist(begin, end)
      BY DEF PipeInv, FramesOrdered
    <3> DEFINE x == q[k].at + i
               y == Dist(begin, end) + off
    <3>3. x \in 0 .. Size - 1 /\ y \in 0 .. Size - 1 /\ x # y
      <4>1. x \in Nat /\ x < Dist(begin, end)
        BY <3>1, <3>2, <1>b
      <4>2. y \in Nat /\ y >= Dist(begin, end) /\ y < Size
        BY <1>a, <1>b, <1>c
      <4>3. QED
        BY <4>1, <4>2, <1>b
    <3>4. begin + q[k].at + i = begin + x /\ begin + Dist(begin, end) + off = begin + y
      <4>1. begin \in Int /\ q[k].at \in Int /\ i \in Int /\ Dist(begin, end) \in Int /\ off \in Int
        BY <3>1, <1>a, <1>b DEF Index
      <4>2. QED
        BY <4>1, SumAssoc
    <3>5. Wrap(end + off) = Wrap(begin + Dist(begin, end) + off)
      BY <1>a, <1>b, <1>c, WrapShift
    <3> HIDE DEF x, y
    <3>6. Wrap(begin + x) # Wrap(begin + y) /\ Wrap(begin + x) \in Index
      BY <3>3, <1>a, WrapInjective, WrapSum
    <3>7. buf[Wrap(begin + q[k].at + i)] = FrameByte(q[k].m, i)
      BY DEF PipeInv, FramesIntact
    <3>8. QED
      BY <3>4, <3>5, <3>6, <3>7, <1>e
  <2>2. QED
    BY <2>1, <1>d DEF PipeInv, FramesIntact
<1>4. WriterInv'
  <2>1. ASSUME NEW i \in 0 .. off
        PROVE  buf'[Wrap(end + i)] = FrameByte(msg, i)
    <3>1. CASE i = off
      BY <3>1, <1>e
    <3>2. CASE i # off
      <4>1. i \in 0 .. Size - 1 /\ off \in 0 .. Size - 1 /\ i \in 0 .. off - 1
        BY <3>2, <1>a, <1>b, <1>c
      <4>2. Wrap(end + i) # Wrap(end + off) /\ Wrap(end + i) \in Index
        BY <4>1, <3>2, <1>a, WrapInjective, WrapSum
      <4>3. buf[Wrap(end + i)] = FrameByte(msg, i)
        BY <4>1, <1>a DEF PipeInv, WriterInv
      <4>4. QED
        BY <4>2, <4>3, <1>e
    <3>3. QED
      BY <3>1, <3>2
  <2>2. off' - 1 = off /\ off' <= FrameLen(msg)
    BY <1>a, <1>b, <1>d
  <2>3. QED
    BY <2>1, <2>2, <1>a, <1>d, <1>f DEF PipeInv, WriterInv
<1>5. ReaderInv'
  BY <1>d DEF PipeInv, ReaderInv, EndLoaded, cvars
<1>6. QED
  BY <1>1, <1>2, <1>3, <1>4, <1>5 DEF PipeInv

\* Publishing turns the bytes written into the last frame.
LEMMA AppendPublishInv ==
    ASSUME PipeInv, AppendPublish
    PROVE  PipeInv'
<1>a. /\ begin \in Index /\ end \in Index /\ pend \in Index /\ off \in Nat /\ msg \in Msg
      /\ q \in Seq(Frame) /\ ppc = "write" /\ off = FrameLen(msg)
  BY DEF PipeInv, TypeOK, AppendPublish
<1> DEFINE d == Dist(begin, end)
           n == FrameLen(msg)
           f == [m |-> msg, at |-> d]
<1>b. /\ n \in Nat /\ HdrLen < n /\ MsgLen[msg] \in Nat /\ n = HdrLen + MsgLen[msg]
      /\ d \in 0 .. Size - 1 /\ end = Wrap(begin + d)
  BY <1>a, FrameLenType, WrapDist DEF FrameLen
<1>c. d + n < Size
  BY <1>a, WriterCell
<1>d. Wrap(pend + MsgLen[msg]) = Wrap(end + n)
  <2>1. pend = Wrap(end + HdrLen)
    BY <1>a, <1>b DEF PipeInv, WriterInv
  <2>2. Wrap(Wrap(end + HdrLen) + MsgLen[msg]) = Wrap(end + HdrLen + MsgLen[msg])
    BY <1>a, <1>b, <1>c, WrapShift
  <2>3. end + HdrLen + MsgLen[msg] = end + n
    BY <1>a, <1>b, SumAssoc DEF Index
  <2>4. QED
    BY <2>1, <2>2, <2>3
<1>e. Wrap(end + n) \in Index /\ Dist(begin, Wrap(end + n)) = d + n
  BY <1>a, <1>b, <1>c, DistExtend
<1>f. /\ end' = Wrap(end + n) /\ end' \in Index /\ Dist(begin, end') = d + n
      /\ q' = Append(q, f)
      /\ ppc' = "idle" /\ msg' = NoMsg /\ pbeg' = 0 /\ pend' = 0 /\ off' = 0
      /\ UNCHANGED <<buf, begin, cvars, out, restarts>>
  <2>1. SetIndex(end, Wrap(end + n)) = Wrap(end + n)
    BY <1>e DEF SetIndex, Index
  <2>2. end' = Wrap(end + n)
    BY <2>1, <1>d DEF AppendPublish
  <2>3. QED
    BY <2>2, <1>e DEF AppendPublish
<1>g. f \in Frame /\ f.m = msg /\ f.at = d
  BY <1>a, <1>b DEF Frame
<1> HIDE DEF d, n, f
<1>h. /\ q' \in Seq(Frame) /\ Len(q) \in Nat /\ Len(q') = Len(q) + 1 /\ q'[Len(q) + 1] = f
      /\ \A k \in 1 .. Len(q) : q'[k] = q[k] /\ q[k] \in Frame
  BY <1>a, <1>f, <1>g
<1>i. ASSUME NEW k \in 1 .. Len(q)
      PROVE  /\ q[k].m \in Msg /\ q[k].at \in Nat /\ FrameLen(q[k].m) \in Nat
             /\ q[k].at + FrameLen(q[k].m) <= d
  BY <1>h, FrameLenType DEF Frame, PipeInv, FramesOrdered, d
<1>1. TypeOK'
  BY <1>f, <1>h, NoMsgAssumption DEF PipeInv, TypeOK, cvars, Index
<1>2. FramesOrdered'
  <2>1. ASSUME NEW k \in 1 .. Len(q')
        PROVE  q'[k].at + FrameLen(q'[k].m) <= Dist(begin, end')
    <3>1. CASE k \in 1 .. Len(q)
      <4>1. /\ q'[k] = q[k] /\ q[k].at \in Nat /\ FrameLen(q[k].m) \in Nat
            /\ q[k].at + FrameLen(q[k].m) <= d
        BY <3>1, <1>h, <1>i
      <4>2. q[k].at + FrameLen(q[k].m) <= d + n
        <5>1. d \in Nat /\ d <= d + n
          BY <1>b
        <5>2. n \in Nat
          BY <1>b
        <5>3. QED
          BY <4>1, <5>1, <5>2
      <4>3. QED
        BY <4>1, <4>2, <1>f
    <3>2. CASE k = Len(q) + 1
      <4>1. q'[k].at = d /\ FrameLen(q'[k].m) = n
        BY <3>2, <1>g, <1>h DEF n
      <4>2. QED
        BY <4>1, <1>b, <1>f
    <3>3. QED
      BY <3>1, <3>2, <1>h
  <2>2. ASSUME NEW j \in 1 .. Len(q'), NEW k \in 1 .. Len(q'), j < k
        PROVE  q'[j].at + FrameLen(q'[j].m) <= q'[k].at
    <3>1. j \in 1 .. Len(q)
      BY <2>2, <1>h
    <3>2. CASE k \in 1 .. Len(q)
      BY <3>1, <3>2, <2>2, <1>h DEF PipeInv, FramesOrdered
    <3>3. CASE k = Len(q) + 1
      BY <3>1, <3>3, <1>g, <1>h, <1>i
    <3>4. QED
      BY <3>2, <3>3, <1>h
  <2>3. QED
    BY <2>1, <2>2, <1>f DEF FramesOrdered
<1>3. FramesIntact'
  <2>1. q' # <<>>
    BY <1>h
  <2>2. q'[1].at = 0
    <3>1. CASE q = <<>>
      <4>1. d = 0
        BY <3>1, <1>a, WrapDist DEF PipeInv, FramesIntact, d
      <4>2. QED
        BY <3>1, <4>1, <1>g, <1>h
    <3>2. CASE q # <<>>
      BY <3>2, <1>a, <1>h DEF PipeInv, FramesIntact
    <3>3. QED
      BY <3>1, <3>2
  <2>3. q'[Len(q')].at + FrameLen(q'[Len(q')].m) = Dist(begin, end')
    BY <1>b, <1>f, <1>g, <1>h DEF n
  <2>4. ASSUME NEW k \in 1 .. Len(q') - 1
        PROVE  q'[k + 1].at = q'[k].at + FrameLen(q'[k].m)
    <3>1. k \in 1 .. Len(q)
      BY <1>h
    <3>2. CASE k \in 1 .. Len(q) - 1
      <4>1. k + 1 \in 1 .. Len(q)
        BY <3>2, <1>h
      <4>2. QED
        BY <4>1, <3>1, <3>2, <1>h DEF PipeInv, FramesIntact
    <3>3. CASE k = Len(q)
      <4>1. q # <<>> /\ q[Len(q)].at + FrameLen(q[Len(q)].m) = d
        BY <3>1, <3>3, <1>a DEF PipeInv, FramesIntact, d
      <4>2. QED
        BY <4>1, <3>1, <3>3, <1>g, <1>h
    <3>4. QED
      BY <3>1, <3>2, <3>3, <1>h
  <2>5. ASSUME NEW k \in 1 .. Len(q'), NEW i \in 0 .. FrameLen(q'[k].m) - 1
        PROVE  buf[Wrap(begin + q'[k].at + i)] = FrameByte(q'[k].m, i)
    <3>1. CASE k \in 1 .. Len(q)
      BY <3>1, <1>h DEF PipeInv, FramesIntact
    <3>2. CASE k = Len(q) + 1
      <4>1. q'[k].m = msg /\ q'[k].at = d
        BY <3>2, <1>g, <1>h
      <4>2. i \in 0 .. n - 1 /\ i \in 0 .. off - 1
        BY <4>1, <1>a DEF n
      <4>3. i \in Nat /\ d + i < Size /\ d \in Nat
        BY <4>2, <1>b, <1>c
      <4>4. Wrap(begin + d + i) = Wrap(end + i)
        BY <4>3, <1>a, <1>b, WrapShift
      <4>5. buf[Wrap(end + i)] = FrameByte(msg, i)
        BY <4>2, <1>a DEF PipeInv, WriterInv
      <4>6. QED
        BY <4>1, <4>4, <4>5
    <3>3. QED
      BY <3>1, <3>2, <1>h
  <2>6. QED
    BY <2>1, <2>2, <2>3, <2>4, <2>5, <1>f DEF FramesIntact
<1>4. WriterInv'
  BY <1>f DEF WriterInv
<1>5. ReaderInv'
  <2>1. q # <<>> => q' # <<>> /\ q'[1] = q[1]
    BY <1>a, <1>h
  <2>2. d <= Dist(begin, end')
    BY <1>b, <1>f
  <2>3. Dist(begin, cend) \in Int
    BY <1>a, WrapDist DEF PipeInv, TypeOK
  <2>4. EndLoaded => EndLoaded'
    BY <2>1, <2>2, <2>3, <1>b, <1>f DEF EndLoaded, d, cvars
  <2>5. UNCHANGED <<cpc, cbeg, got, used, len, begin>>
    BY <1>f DEF cvars
  <2>6. QED
    BY <2>1, <2>4, <2>5 DEF PipeInv, ReaderInv
<1>6. QED
  BY <1>1, <1>2, <1>3, <1>4, <1>5 DEF PipeInv

\* The writer's part of the invariant depends on the reader's index only.
LEMMA WriterUndisturbed ==
    ASSUME PipeInv, UNCHANGED <<buf, begin, end, pvars>>
    PROVE  WriterInv'
BY DEF PipeInv, WriterInv, pvars

\* The reader begins.
LEMMA GetOneDataInv ==
    ASSUME PipeInv, GetOneData
    PROVE  PipeInv'
<1> USE DEF GetOneData
<1>1. TypeOK'
  BY DEF PipeInv, TypeOK, pvars
<1>2. FramesIntact' /\ FramesOrdered'
  BY DEF PipeInv, FramesIntact, FramesOrdered
<1>3. WriterInv'
  BY WriterUndisturbed
<1>4. ReaderInv'
  <2>1. q = <<>> => end = begin
    BY DEF PipeInv, FramesIntact
  <2>2. q # <<>> => FrameLen(q[1].m) <= Dist(begin, end) /\ Dist(begin, end) \in Int
    BY FirstFrame
  <2>3. EndLoaded'
    BY <2>1, <2>2 DEF EndLoaded
  <2>4. got = <<>>
    BY DEF PipeInv, ReaderInv
  <2>5. QED
    BY <2>3, <2>4 DEF ReaderInv
<1>5. QED
  BY <1>1, <1>2, <1>3, <1>4 DEF PipeInv

\* GetUsed never finds a ring that is neither empty nor a whole frame long.
LEMMA GetUsedInv ==
    ASSUME PipeInv, GetUsed
    PROVE  PipeInv'
<1> DEFINE u == GetUsedSize(begin, end)
<1>a. begin \in Index /\ end \in Index
  BY DEF PipeInv, TypeOK
<1>b. u \in Nat /\ Dist(begin, end) <= u /\ (u = 0 <=> begin = end)
  BY <1>a, UsedCovers
<1>c. u # 0 => q # <<>> /\ HdrLen < FrameLen(q[1].m) /\ FrameLen(q[1].m) <= u
  <2>1. u # 0 => q # <<>>
    BY <1>b DEF PipeInv, FramesIntact
  <2>2. q # <<>> => /\ HdrLen < FrameLen(q[1].m) /\ FrameLen(q[1].m) <= Dist(begin, end)
                    /\ FrameLen(q[1].m) \in Nat /\ Dist(begin, end) \in Int
    BY FirstFrame
  <2>3. QED
    BY <2>1, <2>2, <1>b
<1>d. ~(u # 0 /\ u < HdrLen)
  <2>1. q # <<>> => FrameLen(q[1].m) \in Nat
    BY FirstFrame
  <2>2. QED
    BY <2>1, <1>b, <1>c
<1>e. /\ IF u < HdrLen THEN ReaderIdle
                       ELSE cpc' = "hdr" /\ used' = u /\ UNCHANGED <<cbeg, cend, len, got>>
      /\ UNCHANGED <<begin, q, buf, end, pvars, out, restarts>>
      /\ cpc = "used"
  BY <1>d DEF GetUsed
<1> HIDE DEF u
<1>1. TypeOK'
  <2>1. CASE u < HdrLen
    BY <2>1, <1>e DEF PipeInv, TypeOK, ReaderIdle, pvars, Index
  <2>2. CASE ~(u < HdrLen)
    BY <2>2, <1>b, <1>e DEF PipeInv, TypeOK, pvars
  <2>3. QED
    BY <2>1, <2>2
<1>2. FramesIntact' /\ FramesOrdered'
  BY <1>e DEF PipeInv, FramesIntact, FramesOrdered
<1>3. WriterInv'
  BY <1>e, WriterUndisturbed
<1>4. ReaderInv'
  <2>1. CASE u < HdrLen
    BY <2>1, <1>e DEF ReaderInv, ReaderIdle
  <2>2. CASE ~(u < HdrLen)
    <3>1. cpc' = "hdr" /\ used' = u /\ UNCHANGED <<cbeg, cend, len, got, begin, end, q>>
      BY <2>2, <1>e
    <3>2. cbeg = begin /\ got = <<>> /\ EndLoaded
      BY <1>e DEF PipeInv, ReaderInv
    <3>3. u # 0
      BY <2>2, <1>b
    <3>4. q # <<>> /\ FrameLen(q[1].m) <= u /\ 0 <= FrameLen(q[1].m)
      BY <3>3, <1>c, FirstFrame
    <3>5. Wrap(begin + 0) = begin
      BY <1>a, WrapSum DEF Index
    <3>6. EndLoaded'
      BY <3>1, <3>2 DEF EndLoaded
    <3>7. Len(got') = 0 /\ Len(got) = 0
      BY <3>1, <3>2
    <3>8. QED
      BY <3>1, <3>2, <3>4, <3>5, <3>6, <3>7 DEF ReaderInv
  <2>3. QED
    BY <2>1, <2>2
<1>5. QED
  BY <1>1, <1>2, <1>3, <1>4 DEF PipeInv

\* One more byte of the first frame: common to both copying loops.
LEMMA CopyByte ==
    ASSUME PipeInv, cpc = "hdr" \/ (cpc = "copy" /\ Len(got) < HdrLen + len),
           got' = Append(got, buf[ReadCell])
    PROVE  /\ got' \in Seq(Byte) /\ Len(got') = Len(got) + 1
           /\ Len(got') <= FrameLen(q[1].m)
           /\ \A i \in 1 .. Len(got') : got'[i] = FrameByte(q[1].m, i - 1)
<1>1. /\ got \in Seq(Byte) /\ buf \in [Index -> Byte]
  BY DEF PipeInv, TypeOK
<1>2. /\ q # <<>> /\ Len(got) \in Nat /\ Len(got) < FrameLen(q[1].m)
      /\ ReadCell \in Index /\ buf[ReadCell] = FrameByte(q[1].m, Len(got))
  BY ReaderCell
<1>3. /\ got' \in Seq(Byte) /\ Len(got') = Len(got) + 1 /\ got'[Len(got) + 1] = buf[ReadCell]
      /\ \A i \in 1 .. Len(got) : got'[i] = got[i]
  BY <1>1, <1>2
<1>4. FrameLen(q[1].m) \in Nat
  BY <1>2, FirstFrame
<1>5. \A i \in 1 .. Len(got) : got[i] = FrameByte(q[1].m, i - 1)
  BY DEF PipeInv, ReaderInv
<1>6. ASSUME NEW i \in 1 .. Len(got')
      PROVE  got'[i] = FrameByte(q[1].m, i - 1)
  <2>1. CASE i \in 1 .. Len(got)
    BY <2>1, <1>3, <1>5
  <2>2. CASE i = Len(got) + 1
    <3>1. i - 1 = Len(got)
      BY <2>2, <1>2
    <3>2. QED
      BY <2>2, <3>1, <1>2, <1>3
  <2>3. QED
    BY <2>1, <2>2, <1>2, <1>3
<1>7. QED
  BY <1>2, <1>3, <1>4, <1>6

\* It reads a byte of the length field.
LEMMA GetLenByteInv ==
    ASSUME PipeInv, GetLenByte
    PROVE  PipeInv'
<1>a. /\ cpc = "hdr" /\ got' = Append(got, buf[ReadCell]) /\ cbeg' = Wrap(cbeg + 1)
      /\ cpc' = IF Len(got) + 1 = HdrLen THEN "len" ELSE "hdr"
      /\ UNCHANGED <<buf, begin, end, pvars, cend, used, len, out, restarts, q>>
  BY DEF GetLenByte
<1>b. /\ got' \in Seq(Byte) /\ Len(got') = Len(got) + 1
      /\ Len(got') <= FrameLen(q[1].m)
      /\ \A i \in 1 .. Len(got') : got'[i] = FrameByte(q[1].m, i - 1)
  BY <1>a, CopyByte
<1>c. /\ q # <<>> /\ Len(got) \in Nat /\ begin \in Index /\ FrameLen(q[1].m) \in Nat
      /\ Len(got) < HdrLen /\ cbeg = Wrap(begin + Len(got)) /\ EndLoaded /\ FrameLen(q[1].m) <= used
  BY <1>a, FirstFrame DEF PipeInv, TypeOK, ReaderInv
<1>d. Len(got) + 1 < Size
  BY <1>b, <1>c, FirstFrame
<1>e. cbeg' = Wrap(begin + (Len(got) + 1)) /\ cbeg' \in Index
  <2>1. Wrap(Wrap(begin + Len(got)) + 1) = Wrap(begin + Len(got) + 1)
    BY <1>c, <1>d, WrapShift
  <2>2. begin + Len(got) + 1 = begin + (Len(got) + 1)
    BY <1>c, SumAssoc DEF Index
  <2>3. Len(got) + 1 \in 0 .. Size
    BY <1>c, <1>d
  <2>4. Wrap(begin + (Len(got) + 1)) \in Index
    BY <2>3, <1>c, WrapSum
  <2>5. QED
    BY <2>1, <2>2, <2>4, <1>a, <1>c
<1>1. TypeOK'
  BY <1>a, <1>b, <1>e DEF PipeInv, TypeOK, pvars
<1>2. FramesIntact' /\ FramesOrdered'
  BY <1>a DEF PipeInv, FramesIntact, FramesOrdered
<1>3. WriterInv'
  BY <1>a, WriterUndisturbed
<1>4. ReaderInv'
  <2>1. EndLoaded'
    BY <1>a, <1>c DEF EndLoaded
  <2>2. CASE Len(got) + 1 = HdrLen
    BY <2>1, <2>2, <1>a, <1>b, <1>c, <1>e DEF ReaderInv
  <2>3. CASE Len(got) + 1 # HdrLen
    <3>1. Len(got') < HdrLen
      BY <2>3, <1>b, <1>c
    <3>2. QED
      BY <2>1, <2>3, <3>1, <1>a, <1>b, <1>c, <1>e DEF ReaderInv
  <2>4. QED
    BY <2>2, <2>3
<1>5. QED
  BY <1>1, <1>2, <1>3, <1>4 DEF PipeInv

\* The length read is the first message's, so the ring is never emptied.
LEMMA GetCheckLenInv ==
    ASSUME PipeInv, GetCheckLen
    PROVE  PipeInv'
<1> DEFINE n == MsgLen[q[1].m]
<1>a. /\ cpc = "len" /\ q # <<>> /\ EndLoaded /\ FrameLen(q[1].m) <= used
      /\ \A i \in 1 .. HdrLen : got[i] = FrameByte(q[1].m, i - 1)
      /\ Len(got) = HdrLen /\ cbeg = Wrap(begin + HdrLen)
      /\ Len(got) <= FrameLen(q[1].m)
  BY DEF PipeInv, ReaderInv, GetCheckLen
<1>b. q[1].m \in Msg /\ n \in Nat /\ FrameLen(q[1].m) = HdrLen + n
  BY <1>a, FirstFrame, FrameLenType DEF FrameLen
<1>c. Lengths(got) = {n}
  BY <1>a, <1>b, PrefixSpells
<1>d. ~(n + HdrLen > used)
  <2>1. used \in Nat
    BY DEF PipeInv, TypeOK
  <2>2. QED
    BY <2>1, <1>a, <1>b
<1>e. /\ IF n > MaxBuf THEN ReaderIdle
                       ELSE cpc' = "copy" /\ len' = n /\ UNCHANGED <<cbeg, cend, used, got>>
      /\ UNCHANGED <<begin, q, buf, end, pvars, out, restarts>>
  BY <1>c, <1>d DEF GetCheckLen
<1> HIDE DEF n
<1>1. TypeOK'
  <2>1. CASE n > MaxBuf
    BY <2>1, <1>e DEF PipeInv, TypeOK, ReaderIdle, pvars, Index
  <2>2. CASE ~(n > MaxBuf)
    BY <2>2, <1>b, <1>e DEF PipeInv, TypeOK, pvars
  <2>3. QED
    BY <2>1, <2>2
<1>2. FramesIntact' /\ FramesOrdered'
  BY <1>e DEF PipeInv, FramesIntact, FramesOrdered
<1>3. WriterInv'
  BY <1>e, WriterUndisturbed
<1>4. ReaderInv'
  <2>1. CASE n > MaxBuf
    BY <2>1, <1>e DEF ReaderInv, ReaderIdle
  <2>2. CASE ~(n > MaxBuf)
    <3>1. EndLoaded'
      BY <2>2, <1>a, <1>e DEF EndLoaded
    <3>2. QED
      BY <2>2, <3>1, <1>a, <1>e DEF ReaderInv, n
  <2>3. QED
    BY <2>1, <2>2
<1>5. QED
  BY <1>1, <1>2, <1>3, <1>4 DEF PipeInv

\* It reads a byte of the frame.
LEMMA GetByteInv ==
    ASSUME PipeInv, GetByte
    PROVE  PipeInv'
<1>a. /\ cpc = "copy" /\ Len(got) < HdrLen + len /\ got' = Append(got, buf[ReadCell])
      /\ UNCHANGED <<buf, begin, end, pvars, cpc, cbeg, cend, used, len, out, restarts, q>>
  BY DEF GetByte
<1>b. /\ got' \in Seq(Byte) /\ Len(got') = Len(got) + 1
      /\ Len(got') <= FrameLen(q[1].m)
      /\ \A i \in 1 .. Len(got') : got'[i] = FrameByte(q[1].m, i - 1)
  BY <1>a, CopyByte
<1>1. TypeOK'
  BY <1>a, <1>b DEF PipeInv, TypeOK, pvars
<1>2. FramesIntact' /\ FramesOrdered'
  BY <1>a DEF PipeInv, FramesIntact, FramesOrdered
<1>3. WriterInv'
  BY <1>a, WriterUndisturbed
<1>4. ReaderInv'
  <2>1. /\ q # <<>> /\ EndLoaded /\ FrameLen(q[1].m) <= used /\ HdrLen <= Len(got)
        /\ len = MsgLen[q[1].m] /\ cbeg = Wrap(begin + HdrLen)
    BY <1>a DEF PipeInv, ReaderInv
  <2>2. EndLoaded'
    BY <2>1, <1>a DEF EndLoaded
  <2>3. HdrLen <= Len(got')
    <3>1. Len(got) \in Nat
      BY DEF PipeInv, TypeOK
    <3>2. QED
      BY <3>1, <2>1, <1>b
  <2>4. QED
    BY <2>1, <2>2, <2>3, <1>a, <1>b DEF ReaderInv
<1>5. QED
  BY <1>1, <1>2, <1>3, <1>4 DEF PipeInv

\* What is left of a sequence without its first h elements.
LEMMA WithoutPrefix ==
    ASSUME NEW S, NEW t \in Seq(S), NEW h \in Nat, NEW l \in Nat, Len(t) = h + l
    PROVE  SubSeq(t, h + 1, Len(t)) = [i \in 1 .. l |-> t[h + i]]
<1> DEFINE m == h + 1
           n == Len(t)
           r == SubSeq(t, m, n)
<1>1. m \in Int /\ n \in Int /\ n - m + 1 = l /\ \A i \in m .. n : t[i] \in S
  OBVIOUS
<1> HIDE DEF m, n
<1>2. /\ r \in Seq(S) /\ Len(r) = (IF m <= n THEN n - m + 1 ELSE 0)
      /\ \A i \in 1 .. n - m + 1 : r[i] = t[m + i - 1]
  BY <1>1, SubSeqProperties, SMTT(60)
<1> HIDE DEF r
<1>3. Len(r) = l
  BY <1>1, <1>2
<1>4. \A i \in 1 .. l : r[i] = t[h + i]
  <2>1. \A i \in 1 .. l : m + i - 1 = h + i
    BY DEF m
  <2>2. QED
    BY <2>1, <1>1, <1>2
<1>5. r = [i \in 1 .. l |-> r[i]]
  BY <1>2, <1>3
<1>6. QED
  BY <1>4, <1>5 DEF r, m, n

\* A completed read hands out the data of the first message.
LEMMA PublishedData ==
    ASSUME PipeInv, cpc = "copy", Len(got) = HdrLen + len
    PROVE  /\ q # <<>> /\ q[1].m \in Msg
           /\ HdrLen + len = FrameLen(q[1].m)
           /\ SubSeq(got, HdrLen + 1, Len(got)) = Data(q[1].m)
           /\ Data(q[1].m) \in Seq(Byte)
<1> DEFINE f == q[1].m
           s == SubSeq(got, HdrLen + 1, Len(got))
<1>1. /\ q # <<>> /\ len = MsgLen[f] /\ got \in Seq(Byte) /\ Len(got) \in Nat
      /\ \A i \in 1 .. Len(got) : got[i] = FrameByte(f, i - 1)
  BY DEF PipeInv, ReaderInv, TypeOK
<1>2. f \in Msg /\ len \in Nat \ {0} /\ FrameLen(f) = HdrLen + len
  BY <1>1, FirstFrame, FrameLenType DEF FrameLen
<1>3. s \in Seq(Byte) /\ Len(s) = len /\ \A i \in 1 .. len : s[i] = got[HdrLen + i]
  <2>2. s = [i \in 1 .. len |-> got[HdrLen + i]]
    BY <1>1, <1>2, WithoutPrefix
  <2> HIDE DEF s
  <2>3. \A i \in 1 .. len : got[HdrLen + i] \in Byte
    BY <1>1, <1>2
  <2>4. s \in [1 .. len -> Byte] /\ len \in Nat
    BY <2>2, <2>3, <1>2
  <2>5. s \in Seq(Byte) /\ Len(s) = len
    BY <2>4
  <2>6. \A i \in 1 .. len : s[i] = got[HdrLen + i]
    BY <2>2
  <2>7. QED
    BY <2>5, <2>6
<1> HIDE DEF s, f
<1>4. ASSUME NEW i \in 1 .. len
      PROVE  s[i] = DataByte(f, i - 1)
  <2>1. HdrLen + i \in 1 .. Len(got) /\ ~(HdrLen + i - 1 < HdrLen) /\ HdrLen + i - 1 - HdrLen = i - 1
    BY <1>2
  <2>2. s[i] = FrameByte(f, HdrLen + i - 1)
    <3>1. s[i] = got[HdrLen + i]
      BY <1>3
    <3> DEFINE j == HdrLen + i
    <3>2. j \in 1 .. Len(got)
      BY <2>1
    <3> HIDE DEF j
    <3>3. got[j] = FrameByte(f, j - 1)
      BY <3>2, <1>1
    <3>4. QED
      BY <3>1, <3>3 DEF j
  <2>3. QED
    BY <2>1, <2>2 DEF FrameByte
<1>5. s = Data(f)
  <2>1. s = [i \in 1 .. len |-> s[i]]
    BY <1>3
  <2>2. QED
    BY <2>1, <1>1, <1>4 DEF Data
<1>6. QED
  BY <1>1, <1>2, <1>3, <1>5 DEF s, f

\* The first frame leaves the ring and all others move up.
LEMMA GetPublishInv ==
    ASSUME PipeInv, GetPublish
    PROVE  PipeInv' /\ out' = Data(q[1].m)
<1> DEFINE n == FrameLen(q[1].m)
           d == Dist(begin, end)
<1>a. /\ cpc = "copy" /\ Len(got) = HdrLen + len
      /\ begin' = SetIndex(begin, Wrap(cbeg + len)) /\ q' = Following(HdrLen + len)
      /\ ReaderIdle /\ UNCHANGED <<buf, end, pvars, restarts>>
      /\ out' = SubSeq(got, HdrLen + 1, Len(got))
  BY DEF GetPublish
<1>b. /\ q # <<>> /\ HdrLen + len = n /\ out' = Data(q[1].m) /\ out' \in Seq(Byte)
  BY <1>a, PublishedData
<1>c. /\ begin \in Index /\ end \in Index /\ q \in Seq(Frame) /\ len \in Nat
      /\ cbeg = Wrap(begin + HdrLen)
  BY <1>a DEF PipeInv, TypeOK, ReaderInv
<1>d. n \in Nat /\ n <= d /\ d \in 0 .. Size - 1 /\ Len(q) \in Nat /\ 1 \in 1 .. Len(q) /\ q[1].at = 0
  BY <1>b, FirstFrame
<1>e. /\ begin' = Wrap(begin + n) /\ begin' \in Index /\ Dist(begin', end) = d - n
  <2>1. Wrap(Wrap(begin + HdrLen) + len) = Wrap(begin + HdrLen + len)
    BY <1>b, <1>c, <1>d, WrapShift
  <2>2. begin + HdrLen + len = begin + n
    BY <1>b, <1>c, SumAssoc DEF Index
  <2>3. Wrap(begin + n) \in Index /\ Dist(Wrap(begin + n), end) = d - n
    BY <1>c, <1>d, DistAdvance
  <2>4. begin' = Wrap(begin + n)
    BY <2>1, <2>2, <2>3, <1>a, <1>c DEF SetIndex, Index
  <2>5. QED
    BY <2>3, <2>4
<1> HIDE DEF n, d
<1>f. ASSUME NEW k \in 1 .. Len(q)
      PROVE  /\ q[k] \in Frame /\ q[k].m \in Msg /\ q[k].at \in Nat /\ FrameLen(q[k].m) \in Nat
             /\ q[k].at + FrameLen(q[k].m) <= d
             /\ 1 < k => n <= q[k].at
  <2>1. q[k] \in Frame
    BY <1>c
  <2>2. q[k].m \in Msg /\ q[k].at \in Nat /\ FrameLen(q[k].m) \in Nat
    BY <2>1, FrameLenType DEF Frame
  <2>3. q[k].at + FrameLen(q[k].m) <= d
    BY DEF PipeInv, FramesOrdered, d
  <2>4. ASSUME 1 < k PROVE n <= q[k].at
    <3>1. q[1].at + FrameLen(q[1].m) <= q[k].at
      BY <2>4, <1>d DEF PipeInv, FramesOrdered
    <3>2. QED
      BY <3>1, <1>d DEF n
  <2>5. QED
    BY <2>1, <2>2, <2>3, <2>4
<1>g. q' = [k \in 1 .. Len(q) - 1 |-> [m |-> q[k + 1].m, at |-> q[k + 1].at - n]]
  BY <1>a, <1>b DEF Following
<1>h. ASSUME NEW k \in 1 .. Len(q) - 1
      PROVE  /\ k + 1 \in 1 .. Len(q) /\ 1 < k + 1
             /\ q'[k].m = q[k + 1].m /\ q'[k].at = q[k + 1].at - n /\ q'[k] \in Frame
  <2>1. k + 1 \in 1 .. Len(q) /\ 1 < k + 1
    BY <1>d
  <2>2. q'[k] = [m |-> q[k + 1].m, at |-> q[k + 1].at - n]
    BY <1>g
  <2>3. q[k + 1].m \in Msg /\ q[k + 1].at - n \in Nat
    BY <2>1, <1>d, <1>f
  <2>4. QED
    BY <2>1, <2>2, <2>3 DEF Frame
<1>i. q' \in Seq(Frame) /\ Len(q') = Len(q) - 1
  <2>1. q' \in [1 .. Len(q) - 1 -> Frame] /\ Len(q) - 1 \in Nat
    BY <1>d, <1>g, <1>h
  <2>2. QED
    BY <2>1
<1>1. TypeOK'
  BY <1>a, <1>b, <1>e, <1>i DEF PipeInv, TypeOK, ReaderIdle, pvars, Index
<1>2. FramesOrdered'
  <2>1. ASSUME NEW k \in 1 .. Len(q')
        PROVE  q'[k].at + FrameLen(q'[k].m) <= Dist(begin', end)
    <3>1. k \in 1 .. Len(q) - 1
      BY <1>i
    <3>2. k + 1 \in 1 .. Len(q) /\ q'[k].m = q[k + 1].m /\ q'[k].at = q[k + 1].at - n
      BY <3>1, <1>h
    <3>3. /\ q[k + 1].at \in Nat /\ FrameLen(q[k + 1].m) \in Nat
          /\ q[k + 1].at + FrameLen(q[k + 1].m) <= d
      BY <3>2, <1>f
    <3>4. QED
      BY <3>2, <3>3, <1>d, <1>e
  <2>2. ASSUME NEW j \in 1 .. Len(q'), NEW k \in 1 .. Len(q'), j < k
        PROVE  q'[j].at + FrameLen(q'[j].m) <= q'[k].at
    <3>1. j \in 1 .. Len(q) - 1 /\ k \in 1 .. Len(q) - 1 /\ j + 1 < k + 1
      BY <1>i, <2>2
    <3>2. /\ j + 1 \in 1 .. Len(q) /\ q'[j].m = q[j + 1].m /\ q'[j].at = q[j + 1].at - n
          /\ k + 1 \in 1 .. Len(q) /\ q'[k].at = q[k + 1].at - n
      BY <3>1, <1>h
    <3>3. /\ q[j + 1].at \in Nat /\ FrameLen(q[j + 1].m) \in Nat /\ q[k + 1].at \in Nat
      BY <3>2, <1>f
    <3>4. q[j + 1].at + FrameLen(q[j + 1].m) <= q[k + 1].at
      BY <3>1, <3>2 DEF PipeInv, FramesOrdered
    <3> DEFINE x == q[j + 1].at
               y == FrameLen(q[j + 1].m)
               z == q[k + 1].at
    <3>5. x \in Int /\ y \in Int /\ z \in Int /\ x + y <= z /\ n \in Int
      BY <3>3, <3>4, <1>d
    <3> HIDE DEF x, y, z
    <3>6. x - n + y <= z - n
      BY <3>5
    <3>7. QED
      BY <3>2, <3>6 DEF x, y, z
  <2>3. QED
    BY <2>1, <2>2, <1>a DEF FramesOrdered
<1>3. FramesIntact'
  <2>1. q' = <<>> => begin' = end
    <3>1. ASSUME q' = <<>> PROVE begin' = end
      <4>1. Len(q) = 1
        BY <3>1, <1>d, <1>i
      <4>2. q[Len(q)].at + FrameLen(q[Len(q)].m) = d
        BY <1>b DEF PipeInv, FramesIntact, d
      <4>3. d = n
        BY <4>1, <4>2, <1>d DEF n
      <4>4. QED
        BY <4>3, <1>c, <1>d, <1>e, WrapDist
    <3>2. QED
      BY <3>1
  <2>2. ASSUME q' # <<>>
        PROVE  q'[1].at = 0 /\ q'[Len(q')].at + FrameLen(q'[Len(q')].m) = Dist(begin', end)
    <3>1. 1 \in 1 .. Len(q) - 1 /\ Len(q') \in 1 .. Len(q) - 1 /\ Len(q') + 1 = Len(q)
      BY <2>2, <1>d, <1>i
    <3>2. q[1 + 1].at = q[1].at + FrameLen(q[1].m)
      BY <3>1 DEF PipeInv, FramesIntact
    <3>3. q'[1].at = 0
      BY <3>1, <3>2, <1>d, <1>h DEF n
    <3>4. q[Len(q)].at + FrameLen(q[Len(q)].m) = d
      BY <1>b DEF PipeInv, FramesIntact, d
    <3>5. /\ q'[Len(q')].m = q[Len(q)].m /\ q'[Len(q')].at = q[Len(q)].at - n
      BY <3>1, <1>h
    <3>6. q[Len(q)].at \in Nat /\ FrameLen(q[Len(q)].m) \in Nat
      BY <3>1, <1>d, <1>f
    <3>7. QED
      BY <3>3, <3>4, <3>5, <3>6, <1>d, <1>e
  <2>3. ASSUME NEW k \in 1 .. Len(q') - 1
        PROVE  q'[k + 1].at = q'[k].at + FrameLen(q'[k].m)
    <3>1. k \in 1 .. Len(q) - 1 /\ k + 1 \in 1 .. Len(q) - 1
      BY <1>d, <1>i
    <3>2. q[k + 1 + 1].at = q[k + 1].at + FrameLen(q[k + 1].m)
      BY <3>1 DEF PipeInv, FramesIntact
    <3>3. /\ q'[k].m = q[k + 1].m /\ q'[k].at = q[k + 1].at - n /\ q'[k + 1].at = q[k + 1 + 1].at - n
      BY <3>1, <1>h
    <3>4. q[k + 1].at \in Nat /\ FrameLen(q[k + 1].m) \in Nat
      BY <3>1, <1>f
    <3>5. QED
      BY <3>2, <3>3, <3>4, <1>d
  <2>4. ASSUME NEW k \in 1 .. Len(q'), NEW i \in 0 .. FrameLen(q'[k].m) - 1
        PROVE  buf[Wrap(begin' + q'[k].at + i)] = FrameByte(q'[k].m, i)
    <3>1. k \in 1 .. Len(q) - 1
      BY <1>i
    <3>2. k + 1 \in 1 .. Len(q) /\ 1 < k + 1 /\ q'[k].m = q[k + 1].m /\ q'[k].at = q[k + 1].at - n
      BY <3>1, <1>h
    <3>3. /\ q[k + 1].at \in Nat /\ FrameLen(q[k + 1].m) \in Nat /\ n <= q[k + 1].at
          /\ q[k + 1].at + FrameLen(q[k + 1].m) <= d
      BY <3>2, <1>f
    <3> DEFINE z == q[k + 1].at
               y == z - n + i
    <3>i. i \in 0 .. FrameLen(q[k + 1].m) - 1
      BY <3>2
    <3>z. z \in Nat /\ n <= z /\ i \in Nat /\ z + i < d
      BY <3>i, <3>3, <1>d
    <3> HIDE DEF z
    <3>4. y \in Nat /\ n + y < Size /\ n + y = z + i
      BY <3>z, <1>d
    <3>5. /\ begin' + q'[k].at + i = begin' + y
          /\ begin + n + y = begin + q[k + 1].at + i
      <4>1. /\ begin \in Int /\ begin' \in Int /\ n \in Int /\ z \in Int /\ i \in Int
            /\ z - n \in Int
        BY <3>z, <1>c, <1>d, <1>e DEF Index
      <4>2. begin' + (z - n) + i = begin' + y
        BY <4>1, SumAssoc
      <4>3. begin + n + y = begin + z + i
        BY <4>1, <3>4
      <4>4. QED
        BY <4>2, <4>3, <3>2 DEF z
    <3> HIDE DEF y
    <3>6. Wrap(begin' + y) = Wrap(begin + n + y)
      BY <3>4, <1>c, <1>d, <1>e, WrapShift
    <3>7. buf[Wrap(begin + q[k + 1].at + i)] = FrameByte(q[k + 1].m, i)
      BY <3>2 DEF PipeInv, FramesIntact
    <3>8. QED
      BY <3>2, <3>5, <3>6, <3>7
  <2>5. QED
    BY <2>1, <2>2, <2>3, <2>4, <1>a DEF FramesIntact
<1>4. WriterInv'
  <2>1. Dist(begin', end) <= d
    BY <1>d, <1>e
  <2>2. msg \in Msg => FrameLen(msg) \in Nat
    BY FrameLenType
  <2>3. Dist(pbeg, end) \in Int
    BY <1>c, WrapDist DEF PipeInv, TypeOK
  <2>4. Dist(begin', end) \in Int
    BY <1>d, <1>e
  <2>5. ppc # "idle" => msg \in Msg
    BY DEF PipeInv, TypeOK
  <2>6. QED
    <3>1. WriterInv /\ UNCHANGED <<buf, end, ppc, msg, pbeg, pend, off>> /\ d = Dist(begin, end)
      BY <1>a DEF PipeInv, pvars, d
    <3>2. d \in Int
      BY <1>d
    <3> HIDE DEF d
    <3>3. ppc = "index" => Dist(begin', end) + FrameLen(msg) < Size
      BY <3>1, <3>2, <2>1, <2>2, <2>4, <2>5 DEF WriterInv
    <3>4. ppc = "write" => Dist(begin', end) <= Dist(pbeg, end)
      BY <3>1, <3>2, <2>1, <2>3, <2>4 DEF WriterInv
    <3>5. QED
      BY <3>1, <3>3, <3>4 DEF WriterInv
<1>5. ReaderInv'
  BY <1>a DEF ReaderInv, ReaderIdle
<1>6. QED
  BY <1>b, <1>1, <1>2, <1>3, <1>4, <1>5 DEF PipeInv

\* Dying in the middle of a call leaves a ring of whole frames.
LEMMA RestartInv ==
    ASSUME PipeInv, WriterRestart \/ ReaderRestart
    PROVE  PipeInv'
<1>1. CASE WriterRestart
  <2> USE <1>1 DEF WriterRestart
  <2>0. restarts' \in [writer : Nat, reader : Nat]
    <3>1. restarts \in [writer : Nat, reader : Nat]
      BY DEF PipeInv, TypeOK
    <3>2. restarts' = [restarts EXCEPT !.writer = restarts.writer - 1] /\ restarts.writer > 0
      OBVIOUS
    <3>3. restarts.writer \in Nat /\ restarts.writer - 1 \in Nat
      BY <3>1, <3>2
    <3>4. QED
      BY <3>1, <3>2, <3>3
  <2>9. /\ ppc' = "idle" /\ msg' = NoMsg /\ pbeg' = 0 /\ pend' = 0 /\ off' = 0
        /\ UNCHANGED <<buf, begin, end, cvars, out, q>>
    OBVIOUS
  <2> HIDE <1>1 DEF WriterRestart
  <2>1. TypeOK'
    BY <2>0, <2>9 DEF PipeInv, TypeOK, cvars, Index
  <2>2. FramesIntact' /\ FramesOrdered'
    BY <2>9 DEF PipeInv, FramesIntact, FramesOrdered
  <2>3. WriterInv'
    BY <2>9 DEF WriterInv
  <2>4. ReaderInv'
    BY <2>9 DEF PipeInv, ReaderInv, EndLoaded, cvars
  <2>5. QED
    BY <2>1, <2>2, <2>3, <2>4 DEF PipeInv
<1>2. CASE ReaderRestart
  <2> USE <1>2 DEF ReaderRestart
  <2>0. restarts' \in [writer : Nat, reader : Nat]
    <3>1. restarts \in [writer : Nat, reader : Nat]
      BY DEF PipeInv, TypeOK
    <3>2. restarts' = [restarts EXCEPT !.reader = restarts.reader - 1] /\ restarts.reader > 0
      OBVIOUS
    <3>3. restarts.reader \in Nat /\ restarts.reader - 1 \in Nat
      BY <3>1, <3>2
    <3>4. QED
      BY <3>1, <3>2, <3>3
  <2>9. /\ ReaderIdle /\ UNCHANGED <<buf, begin, end, pvars, out, q>>
    OBVIOUS
  <2> HIDE <1>2 DEF ReaderRestart
  <2>1. TypeOK'
    BY <2>0, <2>9 DEF PipeInv, TypeOK, ReaderIdle, pvars, Index
  <2>2. FramesIntact' /\ FramesOrdered'
    BY <2>9 DEF PipeInv, FramesIntact, FramesOrdered
  <2>3. WriterInv'
    BY <2>9, WriterUndisturbed
  <2>4. ReaderInv'
    BY <2>9 DEF ReaderInv, ReaderIdle
  <2>5. QED
    BY <2>1, <2>2, <2>3, <2>4 DEF PipeInv
<1>3. QED
  BY <1>1, <1>2

\* Nothing changes.
LEMMA StutterInv ==
    ASSUME PipeInv, UNCHANGED vars
    PROVE  PipeInv'
<1> USE DEF vars, pvars, cvars
<1>1. TypeOK'
  BY DEF PipeInv, TypeOK
<1>2. FramesIntact' /\ FramesOrdered'
  BY DEF PipeInv, FramesIntact, FramesOrdered
<1>3. WriterInv' /\ ReaderInv'
  BY DEF PipeInv, WriterInv, ReaderInv, EndLoaded
<1>4. QED
  BY <1>1, <1>2, <1>3 DEF PipeInv

-----------------------------------------------------------------------------
\* The ring holds whole frames, in order, in every reachable state, for
\* every ring size and every set of messages (AppendOneData, GetOneData).
THEOREM PipeInvariant == Spec => []PipeInv
<1>1. Init => PipeInv
  BY InitInv
<1>2. PipeInv /\ [Next]_vars => PipeInv'
  <2>1. SUFFICES ASSUME PipeInv, [Next]_vars PROVE PipeInv'
    OBVIOUS
  <2>2. CASE \E m \in Msg : AppendOneData(m)
    BY <2>1, <2>2, AppendOneDataInv
  <2>3. CASE AppendGetIndex
    BY <2>1, <2>3, AppendGetIndexInv
  <2>4. CASE AppendByte
    BY <2>1, <2>4, AppendByteInv
  <2>5. CASE AppendPublish
    BY <2>1, <2>5, AppendPublishInv
  <2>6. CASE GetOneData
    BY <2>1, <2>6, GetOneDataInv
  <2>7. CASE GetUsed
    BY <2>1, <2>7, GetUsedInv
  <2>8. CASE GetLenByte
    BY <2>1, <2>8, GetLenByteInv
  <2>9. CASE GetCheckLen
    BY <2>1, <2>9, GetCheckLenInv
  <2>10. CASE GetByte
    BY <2>1, <2>10, GetByteInv
  <2>11. CASE GetPublish
    BY <2>1, <2>11, GetPublishInv
  <2>12. CASE WriterRestart \/ ReaderRestart
    BY <2>1, <2>12, RestartInv
  <2>13. CASE UNCHANGED vars
    BY <2>1, <2>13, StutterInv
  <2>14. QED
    BY <2>1, <2>2, <2>3, <2>4, <2>5, <2>6, <2>7, <2>8, <2>9, <2>10, <2>11, <2>12, <2>13 DEF Next
<1>3. QED
  BY <1>1, <1>2, PTL DEF Spec

\* The writer stays inside the ring and off every byte not yet given up.
THEOREM WriterStaysClear == Spec => []NoOverwrite
<1>1. PipeInv => NoOverwrite
  <2>1. SUFFICES ASSUME PipeInv, ppc = "write", off < FrameLen(msg)
                 PROVE  WriteCell \in Index /\ Dist(begin, WriteCell) >= Dist(begin, end)
    BY DEF NoOverwrite
  <2>2. /\ Dist(begin, end) + FrameLen(msg) < Size
        /\ WriteCell = Wrap(end + off) /\ WriteCell \in Index
    BY <2>1, WriterCell
  <2>3. /\ begin \in Index /\ end \in Index /\ off \in Nat /\ FrameLen(msg) \in Nat
        /\ Dist(begin, end) \in 0 .. Size - 1
    BY <2>1, FrameLenType, WrapDist DEF PipeInv, TypeOK
  <2>4. Dist(begin, end) + off < Size
    BY <2>1, <2>2, <2>3
  <2>5. Dist(begin, Wrap(end + off)) = Dist(begin, end) + off
    BY <2>3, <2>4, DistExtend
  <2>6. QED
    BY <2>2, <2>3, <2>5
<1>2. QED
  BY <1>1, PipeInvariant, PTL

\* The reader copies published bytes only.
THEOREM ReaderStaysBehind == Spec => []NoUnpublishedRead
<1>1. PipeInv => NoUnpublishedRead
  <2>1. SUFFICES ASSUME PipeInv, cpc = "hdr" \/ (cpc = "copy" /\ Len(got) < HdrLen + len)
                 PROVE  ReadCell \in Index /\ Dist(begin, ReadCell) < Dist(begin, end)
    BY DEF NoUnpublishedRead
  <2>2. /\ q # <<>> /\ Len(got) \in Nat /\ Len(got) < FrameLen(q[1].m)
        /\ ReadCell = Wrap(begin + Len(got)) /\ ReadCell \in Index
    BY <2>1, ReaderCell
  <2>3. /\ FrameLen(q[1].m) \in Nat /\ FrameLen(q[1].m) <= Dist(begin, end)
        /\ Dist(begin, end) \in 0 .. Size - 1
    BY <2>1, <2>2, FirstFrame
  <2>4. begin \in Index /\ Len(got) \in 0 .. Size - 1
    BY <2>1, <2>2, <2>3 DEF PipeInv, TypeOK
  <2>5. Dist(begin, ReadCell) = Len(got)
    BY <2>2, <2>4, DistWrap
  <2>6. QED
    BY <2>2, <2>3, <2>5
<1>2. QED
  BY <1>1, PipeInvariant, PTL

-----------------------------------------------------------------------------
(* Refinement.                                                             *)

Messages(s) == [k \in 1 .. Len(s) |-> s[k].m]

\* The messages of a queue of frames.
LEMMA MessagesType ==
    ASSUME NEW s \in Seq(Frame)
    PROVE  Messages(s) \in Seq(Msg) /\ Len(Messages(s)) = Len(s)
<1>1. \A k \in 1 .. Len(s) : s[k].m \in Msg
  <2>1. \A k \in 1 .. Len(s) : s[k] \in Frame
    OBVIOUS
  <2>2. QED
    BY <2>1 DEF Frame
<1>2. Messages(s) \in [1 .. Len(s) -> Msg] /\ Len(s) \in Nat
  BY <1>1 DEF Messages
<1>3. QED
  BY <1>2

\* Only a completed append and a completed read touch what the FIFO shows.
LEMMA OthersInvisible ==
    ASSUME PipeInv, [Next]_vars, ~AppendPublish, ~GetPublish
    PROVE  UNCHANGED <<q, out>>
<1>1. CASE \E m \in Msg : AppendOneData(m)
  BY <1>1 DEF AppendOneData
<1>2. CASE AppendGetIndex \/ AppendByte
  BY <1>2 DEF AppendGetIndex, AppendByte
<1>3. CASE GetOneData \/ GetLenByte \/ GetByte
  BY <1>3 DEF GetOneData, GetLenByte, GetByte
<1>4. CASE GetUsed
  <2>1. begin \in Index /\ end \in Index
    BY DEF PipeInv, TypeOK
  <2>2. ~(GetUsedSize(begin, end) # 0 /\ GetUsedSize(begin, end) < HdrLen)
    <3>1. /\ GetUsedSize(begin, end) \in Nat /\ Dist(begin, end) <= GetUsedSize(begin, end)
          /\ GetUsedSize(begin, end) = 0 <=> begin = end
      BY <2>1, UsedCovers
    <3>2. begin # end => q # <<>>
      BY DEF PipeInv, FramesIntact
    <3>3. q # <<>> => HdrLen < Dist(begin, end) /\ Dist(begin, end) \in Nat
      BY FirstFrame
    <3>4. QED
      BY <3>1, <3>2, <3>3
  <2>3. QED
    BY <1>4, <2>2 DEF GetUsed
<1>5. CASE GetCheckLen
  <2>1. /\ q # <<>> /\ FrameLen(q[1].m) <= used /\ used \in Nat
        /\ \A i \in 1 .. HdrLen : got[i] = FrameByte(q[1].m, i - 1)
    BY <1>5 DEF PipeInv, TypeOK, ReaderInv, GetCheckLen
  <2>2. q[1].m \in Msg /\ MsgLen[q[1].m] \in Nat /\ FrameLen(q[1].m) = HdrLen + MsgLen[q[1].m]
    BY <2>1, FirstFrame, FrameLenType DEF FrameLen
  <2>3. Lengths(got) = {MsgLen[q[1].m]}
    BY <2>1, <2>2, PrefixSpells
  <2>4. ~(MsgLen[q[1].m] + HdrLen > used)
    BY <2>1, <2>2
  <2>5. QED
    BY <1>5, <2>3, <2>4 DEF GetCheckLen
<1>6. CASE WriterRestart \/ ReaderRestart
  BY <1>6 DEF WriterRestart, ReaderRestart
<1>7. CASE UNCHANGED vars
  BY <1>7 DEF vars
<1>8. QED
  BY <1>1, <1>2, <1>3, <1>4, <1>5, <1>6, <1>7 DEF Next

\* The pipe behaves like a FIFO of whole messages under every interleaving
\* of AppendOneData and GetOneData and every restart of either process.
THEOREM PipeRefinesFifo == Spec => RefinesFifo
<1>1. Init => Abstract!Init
  BY DEF Init, Abstract!Init
<1>2. PipeInv /\ [Next]_vars => [Abstract!Next]_(Abstract!fifoVars)
  <2>1. SUFFICES ASSUME PipeInv, [Next]_vars
                 PROVE  \/ Abstract!Next
                        \/ Messages(q') = Messages(q) /\ out' = out
    BY DEF Abstract!fifoVars, Messages
  <2>2. q \in Seq(Frame)
    BY <2>1 DEF PipeInv, TypeOK
  <2>3. CASE AppendPublish
    <3>1. /\ q' = Append(q, [m |-> msg, at |-> Dist(begin, end)]) /\ out' = out /\ msg \in Msg
          /\ begin \in Index /\ end \in Index
      BY <2>1, <2>3 DEF AppendPublish, PipeInv, TypeOK
    <3>2. Messages(q') = Append(Messages(q), msg)
      <4> DEFINE f == [m |-> msg, at |-> Dist(begin, end)]
      <4>1. f \in Frame /\ f.m = msg
        BY <3>1, WrapDist DEF Frame
      <4> HIDE DEF f
      <4>2. /\ Len(q') = Len(q) + 1 /\ q'[Len(q) + 1] = f /\ Len(q) \in Nat
            /\ \A k \in 1 .. Len(q) : q'[k] = q[k]
        BY <4>1, <3>1, <2>2 DEF f
      <4>3. Messages(q) \in Seq(Msg) /\ Len(Messages(q)) = Len(q)
        BY <2>2, MessagesType
      <4>4. QED
        BY <4>1, <4>2, <4>3, <3>1 DEF Messages
    <3>3. \E m \in Msg : Abstract!Put(m)
      BY <3>1, <3>2 DEF Abstract!Put, Messages
    <3>4. QED
      BY <3>3 DEF Abstract!Next
  <2>4. CASE GetPublish
    <3>1. /\ q # <<>> /\ q[1].m \in Msg /\ q' = Following(HdrLen + len) /\ out' = Data(q[1].m)
      BY <2>1, <2>4, PublishedData, GetPublishInv DEF GetPublish
    <3>2. Len(q) \in Nat /\ Len(q) - 1 \in Nat
      BY <2>2, <3>1
    <3>3. /\ Len(q') = Len(q) - 1
          /\ \A k \in 1 .. Len(q) - 1 : q'[k].m = q[k + 1].m
      BY <3>1, <3>2 DEF Following
    <3>4. Messages(q) \in Seq(Msg) /\ Len(Messages(q)) = Len(q)
      BY <2>2, MessagesType
    <3>5. Messages(q) # <<>> /\ Head(Messages(q)) = q[1].m
      BY <2>2, <3>1, <3>4 DEF Messages
    <3>6. Messages(q') = Tail(Messages(q))
      <4>1. /\ Tail(Messages(q)) \in Seq(Msg) /\ Len(Tail(Messages(q))) = Len(q) - 1
            /\ \A k \in 1 .. Len(q) - 1 : Tail(Messages(q))[k] = Messages(q)[k + 1]
        BY <3>2, <3>4, <3>5
      <4>2. \A k \in 1 .. Len(q) - 1 : Messages(q)[k + 1] = q[k + 1].m
        BY <3>2 DEF Messages
      <4> DEFINE t == Tail(Messages(q))
      <4>0. t \in Seq(Msg) /\ Len(t) = Len(q) - 1
        BY <4>1
      <4> HIDE DEF t
      <4>3. t = [k \in 1 .. Len(q) - 1 |-> t[k]]
        BY <4>0
      <4>4. Messages(q') = [k \in 1 .. Len(q) - 1 |-> q'[k].m]
        BY <3>3 DEF Messages
      <4>5. QED
        BY <4>1, <4>2, <4>3, <4>4, <3>3 DEF t
    <3>7. out' = [m \in Msg |-> Data(m)][Head(Messages(q))]
      BY <3>1, <3>5
    <3>8. Abstract!Take
      BY <3>5, <3>6, <3>7 DEF Abstract!Take, Messages
    <3>9. QED
      BY <3>8 DEF Abstract!Next
  <2>5. CASE ~AppendPublish /\ ~GetPublish
    BY <2>1, <2>5, OthersInvisible
  <2>6. QED
    BY <2>3, <2>4, <2>5
<1>3. QED
  BY <1>1, <1>2, PipeInvariant, PTL DEF Spec, RefinesFifo, Abstract!Spec
=============================================================================
