--------------------------- MODULE FrameRecvProofs ---------------------------
(***************************************************************************)
(* proxysvr and CenterMng cut every stream of frames right, for every size *)
(* of buffer, every set of lengths and every portioning by the network;    *)
(* and the offsets of all three receivers stay 32-bit values.              *)
(***************************************************************************)
EXTENDS FrameRecv, BasicFacts, TLAPS

-----------------------------------------------------------------------------
(* The inductive invariant.  It compares the bytes not yet cut off, those  *)
(* in recv_buf and those still on the way, with the frames that were sent. *)

Data == Nat \cup {Junk}

Typed ==
    /\ side \in Sides /\ off \in 0 .. Word - 1 /\ rest \in 0 .. Word - 1 /\ ptr \in Nat
    /\ pc \in {"idle", "held", "recv", "parse", "closed"}
    /\ sent \in Seq(Lens) /\ wire \in Seq(Nat) /\ buf \in [1 .. Cap -> Data] /\ out \in Seq(Seq(Data))

\* The bytes of recv_buf that are not yet cut off, and the i-th byte of these
\* and of what follows them on the wire.
Live == IF pc = "parse" THEN rest ELSE off
Base == IF pc = "parse" THEN ptr ELSE 0
Pending(i) == IF i <= Live THEN buf[Base + i] ELSE wire[i - Live]

\* start[k] is where in the whole stream frame k starts; the next frame to be
\* cut starts where the pending bytes do, and from there on every byte is the
\* byte of its frame.
Chain(start) ==
    /\ \A k \in 1 .. Len(sent) : start[k + 1] = start[k] + sent[k]
    /\ \A k, m \in 1 .. Len(sent) + 1 : k <= m => start[k] <= start[m]
    /\ start[Len(sent) + 1] = start[Len(out) + 1] + Live + Len(wire)
    /\ \A k \in Len(out) + 1 .. Len(sent) : \A j \in 1 .. sent[k] :
          Pending(start[k] - start[Len(out) + 1] + j) = Frame(k, sent[k])[j]

\* No complete frame is in the first n bytes that are pending.
Short(n) == Len(out) = Len(sent) \/ n < sent[Len(out) + 1]

InStep ==
    /\ pc # "closed" /\ off <= Cap /\ (pc = "parse" => ptr + rest = off) /\ (pc = "held" => side = "center_mng")
    /\ Len(out) <= Len(sent) /\ \A k \in 1 .. Len(out) : out[k] = Frame(k, sent[k])
    /\ \E start \in [1 .. Len(sent) + 1 -> Nat] : Chain(start)
    /\ pc = "idle" \/ (pc = "recv" /\ side = "proxysvr") => Short(off)

IInv == Typed /\ (side # "tcpsvr" => InStep)

-----------------------------------------------------------------------------
(* Frames and the stream.                                                  *)

\* The sizes.
LEMMA Sizes ==
    /\ MaxLen \in Nat /\ Cap \in Nat /\ Word \in Nat /\ MaxLen < Cap /\ Cap < Word
    /\ Sides \subseteq {"tcpsvr", "proxysvr", "center_mng"}
BY FrameAssumption

\* A frame: its length, and what its header says.
LEMMA FrameFacts ==
    ASSUME NEW k \in Nat, NEW l \in Lens
    PROVE  /\ l \in Nat /\ Hdr < l /\ l <= MaxLen
           /\ Frame(k, l) \in Seq(Nat) /\ Len(Frame(k, l)) = l
           /\ Frame(k, l)[1] \in Nat /\ Frame(k, l)[2] \in Nat
           /\ Frame(k, l)[1] + Frame(k, l)[2] * Byte = l
<1>1. l \in Nat /\ Hdr < l /\ l <= MaxLen
    BY FrameAssumption DEF Hdr
<1>2. l % Byte \in Nat /\ l \div Byte \in Nat /\ (l % Byte) + (l \div Byte) * Byte = l
    BY <1>1 DEF Byte
<1> DEFINE f == [j \in 1 .. l |-> CASE j = 1 -> l % Byte [] j = 2 -> l \div Byte [] OTHER -> k]
<1>3. \A j \in 1 .. l : f[j] \in Nat
    BY <1>2
<1>4. f \in Seq(Nat) /\ Len(f) = l
    <2>1. f = [j \in 1 .. l |-> f[j]]
        OBVIOUS
    <2> HIDE DEF f
    <2>2. f \in [1 .. l -> Nat]
        BY <1>3, <2>1
    <2> QED BY <1>1, <2>2
<1>5. f[1] = l % Byte /\ f[2] = l \div Byte
    BY <1>1 DEF Hdr
<1>6. f = Frame(k, l)
    BY DEF Frame
<1> HIDE DEF f
<1> QED BY <1>1, <1>2, <1>4, <1>5, <1>6

\* Every byte of a frame that is still to be cut is pending.
LEMMA InRange ==
    ASSUME Typed, Len(out) <= Len(sent), NEW start \in [1 .. Len(sent) + 1 -> Nat], Chain(start),
           NEW k \in Len(out) + 1 .. Len(sent), NEW j \in 1 .. sent[k]
    PROVE  start[k] - start[Len(out) + 1] + j \in 1 .. Live + Len(wire)
<1>1. Len(sent) \in Nat /\ Len(out) \in Nat /\ Len(wire) \in Nat /\ Live \in Nat
    BY Sizes DEF Typed, Live
<1>2. k \in 1 .. Len(sent) /\ k + 1 \in 1 .. Len(sent) + 1 /\ Len(out) + 1 \in 1 .. Len(sent) + 1
    BY <1>1
<1>3. sent[k] \in Nat
    <2>1. sent[k] \in Lens
        BY <1>2 DEF Typed
    <2> QED BY <1>1, <2>1, FrameFacts
<1>4. /\ start[k + 1] = start[k] + sent[k] /\ start[Len(out) + 1] <= start[k]
      /\ start[k + 1] <= start[Len(sent) + 1]
      /\ start[Len(sent) + 1] = start[Len(out) + 1] + Live + Len(wire)
    <2>1. /\ \A i \in 1 .. Len(sent) : start[i + 1] = start[i] + sent[i]
          /\ \A i, m \in 1 .. Len(sent) + 1 : i <= m => start[i] <= start[m]
          /\ start[Len(sent) + 1] = start[Len(out) + 1] + Live + Len(wire)
        BY DEF Chain
    <2>2. k \in Nat /\ Len(out) + 1 <= k /\ k + 1 <= Len(sent) + 1 /\ k \in 1 .. Len(sent) + 1
             /\ Len(sent) + 1 \in 1 .. Len(sent) + 1
        BY <1>1
    <2> QED BY <1>2, <2>1, <2>2
<1>5. /\ start[k] \in Nat /\ start[k + 1] \in Nat
      /\ start[Len(out) + 1] \in Nat /\ start[Len(sent) + 1] \in Nat
    BY <1>1, <1>2
<1> HIDE DEF Live
<1>6. ASSUME NEW a \in Nat, NEW b \in Nat, NEW c \in Nat, NEW l \in Nat, NEW n \in Nat, NEW e \in Nat,
             b = a + l, c <= a, b <= e, e = c + n, j \in 1 .. l
      PROVE  a - c + j \in 1 .. n
    BY <1>6
<1>7. Live + Len(wire) \in Nat /\ start[Len(sent) + 1] = start[Len(out) + 1] + (Live + Len(wire))
    BY <1>1, <1>4, <1>5
<1> QED BY <1>3, <1>4, <1>5, <1>6, <1>7

\* Moving the pending bytes about, from the wire to recv_buf and in recv_buf,
\* changes nothing.
LEMMA SameStream ==
    ASSUME Typed, Len(out) <= Len(sent), NEW start \in [1 .. Len(sent) + 1 -> Nat], Chain(start),
           sent' = sent, out' = out, Live' + Len(wire') = Live + Len(wire),
           \A i \in 1 .. Live + Len(wire) : Pending(i)' = Pending(i),
           Live' \in Nat, Len(wire') \in Nat
    PROVE  Chain(start)'
<1>1. Len(sent) \in Nat /\ Len(out) \in Nat /\ Len(wire) \in Nat /\ Live \in Nat
    BY Sizes DEF Typed, Live
<1>2. start[Len(sent) + 1] \in Nat /\ start[Len(out) + 1] \in Nat
    BY <1>1
<1>3. start[Len(sent') + 1] = start[Len(out') + 1] + Live' + Len(wire')
    <2>1. start[Len(sent) + 1] = start[Len(out) + 1] + Live + Len(wire)
        BY DEF Chain
    <2>2. /\ Live' \in Int /\ Len(wire') \in Int /\ Live \in Int /\ Len(wire) \in Int
          /\ start[Len(sent) + 1] \in Int /\ start[Len(out) + 1] \in Int
        BY <1>1, <1>2
    <2>3. Live' + Len(wire') = Live + Len(wire) /\ sent' = sent /\ out' = out
        OBVIOUS
    <2>4. start[Len(sent) + 1] = start[Len(out) + 1] + Live' + Len(wire')
        <3> DEFINE f == start[Len(out) + 1]
        <3>1. f + Live + Len(wire) = f + (Live + Len(wire)) /\ f + Live' + Len(wire') = f + (Live' + Len(wire'))
            BY <2>2, SumOfThree, Zenon
        <3> QED BY <2>1, <2>3, <3>1, Zenon
    <2> QED BY <2>3, <2>4, Zenon
<1>4. ASSUME NEW k \in Len(out) + 1 .. Len(sent), NEW j \in 1 .. sent[k]
      PROVE  Pending(start[k] - start[Len(out) + 1] + j)' = Frame(k, sent[k])[j]
    <2> DEFINE i == start[k] - start[Len(out) + 1] + j
    <2>1. i \in 1 .. Live + Len(wire)
        BY InRange
    <2>2. Pending(i) = Frame(k, sent[k])[j]
        BY DEF Chain
    <2>3. i' = i
        OBVIOUS
    <2> HIDE DEF i
    <2>4. Pending(i)' = Pending(i)
        BY <2>1, <2>3 DEF Pending
    <2> QED BY <2>2, <2>4 DEF i
<1> QED BY <1>3, <1>4 DEF Chain

-----------------------------------------------------------------------------
(* Types.                                                                  *)

\* A byte read at tmp_recv or behind it.
LEMMA ByteRead ==
    ASSUME Typed, NEW j \in Nat, 1 <= j
    PROVE  At(j) \in Data
<1>1. j <= Cap => j \in 1 .. Cap
    BY Sizes
<1> QED BY <1>1 DEF At, Data, Typed

\* A length read there is a natural number.
LEMMA LengthRead ==
    ASSUME Typed, NEW l \in LenHere
    PROVE  l \in Nat
<1>1. ptr \in Nat /\ At(ptr + 1) \in Data /\ At(ptr + 2) \in Data
    BY ByteRead DEF Typed
<1>2. CASE Junk \in {At(ptr + 1), At(ptr + 2)}
    <2>1. l \in Lens \cup {0, MaxLen + 1}
        BY <1>2 DEF LenHere
    <2>2. \A x \in Lens : x \in Nat
        BY FrameFacts
    <2> QED BY <2>1, <2>2, Sizes
<1>3. CASE Junk \notin {At(ptr + 1), At(ptr + 2)}
    <2>1. l = At(ptr + 1) + At(ptr + 2) * Byte
        BY <1>3 DEF LenHere
    <2>2. At(ptr + 1) \in Nat /\ At(ptr + 2) \in Nat
        BY <1>1, <1>3 DEF Data
    <2> QED BY <2>1, <2>2 DEF Byte
<1> QED BY <1>2, <1>3

\* The length of the frame sent is right.
LEMMA SendTyped ==
    ASSUME Typed, NEW l \in Lens, Send(l)
    PROVE  Typed'
<1>1. Len(sent) + 1 \in Nat /\ sent \in Seq(Lens) /\ wire \in Seq(Nat)
    BY DEF Typed
<1>2. Frame(Len(sent) + 1, l) \in Seq(Nat)
    BY <1>1, FrameFacts
<1>3. sent' \in Seq(Lens) /\ wire' \in Seq(Nat)
    BY <1>1, <1>2 DEF Send
<1> QED BY <1>3 DEF Typed, Send

\* Receiving keeps the types.
LEMMA RecvTyped ==
    ASSUME Typed, Wake \/ WakeOther \/ RecvFull \/ RecvSome \/ RecvAgain
    PROVE  Typed'
<1>1. CASE Wake
    BY <1>1 DEF Wake, Typed
<1>2. CASE WakeOther \/ RecvFull
    <2>1. 0 \in Nat
        OBVIOUS
    <2> QED BY <1>2, <2>1 DEF WakeOther, RecvFull, ParseFrom, Typed
<1>3. CASE RecvSome
    <2>1. PICK n \in 1 .. Lowest(Len(wire), Cap - off) :
            /\ buf' = [j \in 1 .. Cap |-> IF j \in off + 1 .. off + n THEN wire[j - off] ELSE buf[j]]
            /\ wire' = SubSeq(wire, n + 1, Len(wire))
            /\ off' = off + n
        BY <1>3 DEF RecvSome
    <2>2. off \in Nat /\ off < Cap /\ wire \in Seq(Nat) /\ Len(wire) \in Nat /\ buf \in [1 .. Cap -> Data]
        BY <1>3 DEF RecvSome, Typed
    <2>3. n \in Nat /\ 1 <= n /\ n <= Len(wire) /\ n <= Cap - off
        BY <2>2, Sizes DEF Lowest
    <2>4. off' \in 0 .. Word - 1
        BY <2>1, <2>2, <2>3, Sizes
    <2>5. wire' \in Seq(Nat)
        BY <2>1, <2>2, <2>3
    <2>6. buf' \in [1 .. Cap -> Data]
        <3>1. ASSUME NEW j \in 1 .. Cap
              PROVE  (IF j \in off + 1 .. off + n THEN wire[j - off] ELSE buf[j]) \in Data
            <4>1. j \in off + 1 .. off + n => j - off \in 1 .. Len(wire)
                BY <2>2, <2>3
            <4> QED BY <2>2, <4>1 DEF Data
        <3> QED BY <2>1, <3>1
    <2>7. (pc' = pc \/ pc' = "parse") /\ (rest' = rest \/ rest' = off') /\ (ptr' = ptr \/ ptr' = 0)
        BY <1>3 DEF RecvSome, ParseFrom
    <2>8. side' = side /\ sent' = sent /\ out' = out
        BY <1>3 DEF RecvSome
    <2> QED BY <2>4, <2>5, <2>6, <2>7, <2>8 DEF Typed
<1>4. CASE RecvAgain
    <2>1. off' = AfterAgain(off) /\ off \in 0 .. Word - 1
        BY <1>4 DEF RecvAgain, Typed
    <2>2. off' \in 0 .. Word - 1
        BY <2>1, Sizes DEF AfterAgain
    <2>3. (pc' = "idle" \/ pc' = "parse") /\ (rest' = rest \/ rest' = off') /\ (ptr' = ptr \/ ptr' = 0)
        BY <1>4 DEF RecvAgain, ParseFrom
    <2>4. side' = side /\ sent' = sent /\ out' = out /\ wire' = wire /\ buf' = buf
        BY <1>4 DEF RecvAgain
    <2> QED BY <2>2, <2>3, <2>4 DEF Typed
<1> QED BY <1>1, <1>2, <1>3, <1>4

\* The end of the loop keeps them.
LEMMA LoopEndTyped ==
    ASSUME Typed, LoopEnd \/ CutBrokenOff
    PROVE  Typed'
<1>1. buf' \in [1 .. Cap -> Data]
    <2>1. ASSUME NEW j \in 1 .. Cap
          PROVE  (IF j <= rest /\ rest # off THEN At(ptr + j) ELSE buf[j]) \in Data
        <3>1. ptr + j \in Nat /\ 1 <= ptr + j
            BY DEF Typed
        <3>2. At(ptr + j) \in Data
            BY <3>1, ByteRead
        <3> QED BY <3>2 DEF Typed
    <2> QED BY <2>1 DEF LoopEnd, CutBrokenOff, MoveUp
<1>2. /\ off' = rest /\ pc' \in {"recv", "idle", "held"}
      /\ side' = side /\ sent' = sent /\ wire' = wire /\ ptr' = ptr /\ rest' = rest /\ out' = out
    BY DEF LoopEnd, CutBrokenOff, MoveUp
<1> QED BY <1>1, <1>2 DEF Typed

\* Cutting keeps them.
LEMMA CutTyped ==
    ASSUME Typed, CutFrame \/ CutInvalid \/ CutEnd \/ CutBrokenOff \/ CutPipeFull
    PROVE  Typed'
<1>1. CASE CutFrame
    <2>1. PICK l \in LenHere :
            /\ Enough(l)
            /\ out' = Append(out, [j \in 1 .. l |-> At(ptr + j)])
            /\ rest' = rest - l /\ ptr' = ptr + l
            /\ buf' = IF side # "tcpsvr" THEN buf
                      ELSE [j \in 1 .. Cap |-> IF j \in ptr - HeadLen + 1 .. ptr THEN Junk ELSE buf[j]]
        BY <1>1 DEF CutFrame
    <2>2. l \in Nat /\ l <= rest
        BY <2>1, LengthRead DEF Enough
    <2>3. rest' \in 0 .. Word - 1 /\ ptr' \in Nat
        BY <2>1, <2>2, Sizes DEF Typed
    <2>4. buf' \in [1 .. Cap -> Data]
        <3>1. \A j \in 1 .. Cap : buf[j] \in Data /\ Junk \in Data
            BY DEF Typed, Data
        <3>2. buf \in [1 .. Cap -> Data]
            BY DEF Typed
        <3> QED BY <2>1, <3>1, <3>2
    <2>5. out' \in Seq(Seq(Data))
        <3> DEFINE f == [j \in 1 .. l |-> At(ptr + j)]
        <3>1. ASSUME NEW j \in 1 .. l
              PROVE  At(ptr + j) \in Data
            <4>1. ptr + j \in Nat /\ 1 <= ptr + j
                BY <2>2 DEF Typed
            <4> QED BY <4>1, ByteRead
        <3>2. f \in [1 .. l -> Data]
            BY <3>1
        <3> HIDE DEF f
        <3>3. f \in Seq(Data)
            BY <2>2, <3>2
        <3>4. out' = Append(out, f)
            BY <2>1 DEF f
        <3>5. out \in Seq(Seq(Data))
            BY DEF Typed
        <3> QED BY <3>3, <3>4, <3>5
    <2>6. side' = side /\ sent' = sent /\ wire' = wire /\ off' = off /\ pc' = pc
        BY <1>1 DEF CutFrame
    <2> QED BY <2>3, <2>4, <2>5, <2>6 DEF Typed
<1>2. CASE CutInvalid \/ (CutPipeFull /\ ~LoopEnd)
    <2>1. wire' = <<>> /\ pc' = "closed"
        BY <1>2 DEF CutInvalid, CutPipeFull
    <2>2. side' = side /\ sent' = sent /\ buf' = buf /\ off' = off /\ ptr' = ptr /\ rest' = rest /\ out' = out
        BY <1>2 DEF CutInvalid, CutPipeFull
    <2>3. wire' \in Seq(Nat)
        BY <2>1
    <2> QED BY <2>1, <2>2, <2>3 DEF Typed
<1>3. CASE CutEnd \/ CutBrokenOff \/ (CutPipeFull /\ LoopEnd)
    BY <1>3, LoopEndTyped DEF CutEnd
<1> QED BY <1>1, <1>2, <1>3

-----------------------------------------------------------------------------
(* The next frame.                                                         *)

\* While a frame is still to be cut, it is the front of the pending bytes; when
\* none is, no byte is pending.
LEMMA NextFrame ==
    ASSUME Typed, InStep
    PROVE  /\ Len(out) = Len(sent) => Live = 0 /\ Len(wire) = 0
           /\ Len(out) < Len(sent) =>
                /\ sent[Len(out) + 1] \in Lens
                /\ sent[Len(out) + 1] <= Live + Len(wire)
                /\ \A j \in 1 .. sent[Len(out) + 1] :
                      Pending(j) = Frame(Len(out) + 1, sent[Len(out) + 1])[j]
<1>1. Len(sent) \in Nat /\ Len(out) \in Nat /\ Len(wire) \in Nat /\ Live \in Nat /\ Len(out) <= Len(sent)
    BY Sizes DEF Typed, Live, InStep
<1>2. PICK start \in [1 .. Len(sent) + 1 -> Nat] : Chain(start)
    BY DEF InStep
<1>3. start[Len(out) + 1] \in Nat /\ start[Len(sent) + 1] \in Nat
    BY <1>1
<1>4. start[Len(sent) + 1] = start[Len(out) + 1] + Live + Len(wire)
    BY <1>2 DEF Chain
<1> HIDE DEF Live
<1>5. Len(out) = Len(sent) => Live = 0 /\ Len(wire) = 0
    BY <1>1, <1>3, <1>4
<1>6. ASSUME Len(out) < Len(sent)
      PROVE  /\ sent[Len(out) + 1] \in Lens
             /\ sent[Len(out) + 1] <= Live + Len(wire)
             /\ \A j \in 1 .. sent[Len(out) + 1] :
                   Pending(j) = Frame(Len(out) + 1, sent[Len(out) + 1])[j]
    <2> DEFINE q == Len(out) + 1
    <2>1. q \in 1 .. Len(sent) /\ q \in Len(out) + 1 .. Len(sent)
        BY <1>1, <1>6
    <2>2. sent[q] \in Lens
        BY <2>1 DEF Typed
    <2>3. sent[q] \in Nat /\ Hdr < sent[q]
        BY <1>1, <2>2, FrameFacts
    <2>4. start[q] - start[q] = 0 /\ start[q] \in Nat
        BY <1>3
    <2>5. \A j \in 1 .. sent[q] : Pending(start[q] - start[q] + j) = Frame(q, sent[q])[j]
        BY <1>2, <2>1 DEF Chain
    <2>6. \A j \in 1 .. sent[q] : start[q] - start[q] + j \in 1 .. Live + Len(wire)
        BY <1>1, <1>2, <2>1, InRange
    <2> HIDE DEF q
    <2>7. \A j \in 1 .. sent[q] : start[q] - start[q] + j = j
        BY <2>3, <2>4
    <2>8. sent[q] \in 1 .. sent[q]
        BY <2>3 DEF Hdr
    <2>9. sent[q] <= Live + Len(wire)
        BY <1>1, <2>3, <2>6, <2>7, <2>8
    <2>10. \A j \in 1 .. sent[q] : Pending(j) = Frame(q, sent[q])[j]
        BY <2>5, <2>7
    <2> QED BY <2>2, <2>9, <2>10 DEF q
<1> QED BY <1>5, <1>6

\* What the loop reads as a length is the length of the next frame.
LEMMA HeaderRead ==
    ASSUME Typed, InStep, side # "tcpsvr", Cutting
    PROVE  /\ Len(out) < Len(sent)
           /\ LenHere = {sent[Len(out) + 1]} /\ ~Invalid(sent[Len(out) + 1])
<1>1. /\ Len(sent) \in Nat /\ Len(out) \in Nat /\ Len(out) <= Len(sent)
      /\ ptr \in Nat /\ rest \in Nat /\ ptr + rest <= Cap /\ rest > 2 /\ Live = rest /\ Base = ptr
    BY Sizes DEF Typed, Live, Base, InStep, Cutting, Hdr
<1>2. Len(out) < Len(sent)
    BY <1>1, NextFrame
<1> DEFINE l == sent[Len(out) + 1]
           q == Len(out) + 1
<1>3. /\ l \in Lens /\ q \in Nat
      /\ \A j \in 1 .. l : Pending(j) = Frame(q, l)[j]
    BY <1>1, <1>2, NextFrame
<1> HIDE DEF l, q
<1>4. /\ l \in Nat /\ Hdr < l /\ l <= MaxLen
      /\ Frame(q, l)[1] \in Nat /\ Frame(q, l)[2] \in Nat
      /\ Frame(q, l)[1] + Frame(q, l)[2] * Byte = l
    BY <1>3, FrameFacts
<1>5. Pending(1) = Frame(q, l)[1] /\ Pending(2) = Frame(q, l)[2]
    BY <1>3, <1>4 DEF Hdr
<1>6. Pending(1) = buf[ptr + 1] /\ Pending(2) = buf[ptr + 2]
    BY <1>1 DEF Pending
<1>7. At(ptr + 1) = buf[ptr + 1] /\ At(ptr + 2) = buf[ptr + 2]
    BY <1>1, Sizes DEF At
<1>8. Junk \notin {At(ptr + 1), At(ptr + 2)}
    BY <1>4, <1>5, <1>6, <1>7 DEF Junk
<1>9. LenHere = {At(ptr + 1) + At(ptr + 2) * Byte}
    BY <1>8 DEF LenHere
<1>10. LenHere = {l}
    BY <1>4, <1>5, <1>6, <1>7, <1>9
<1>11. ~Invalid(l)
    BY <1>4, Sizes DEF Invalid
<1> QED BY <1>2, <1>10, <1>11 DEF l

-----------------------------------------------------------------------------
(* Every step keeps the receiver in step with the sender.                  *)

\* Steps that move the pending bytes about and cut nothing.
LEMMA Moved ==
    ASSUME Typed, Typed', InStep, sent' = sent, out' = out,
           Live' + Len(wire') = Live + Len(wire),
           \A i \in 1 .. Live + Len(wire) : Pending(i)' = Pending(i)
    PROVE  /\ Len(out') <= Len(sent') /\ \A k \in 1 .. Len(out') : out'[k] = Frame(k, sent'[k])
           /\ \E start \in [1 .. Len(sent') + 1 -> Nat] : Chain(start)'
<1>1. PICK start \in [1 .. Len(sent) + 1 -> Nat] : Chain(start)
    BY DEF InStep
<1>2. Len(out) <= Len(sent) /\ \A k \in 1 .. Len(out) : out[k] = Frame(k, sent[k])
    BY DEF InStep
<1>3. Live' \in Nat /\ Len(wire') \in Nat
    BY Sizes DEF Typed, Live
<1>4. Chain(start)'
    BY <1>1, <1>2, <1>3, SameStream
<1> QED BY <1>1, <1>2, <1>4

\* Init.
LEMMA StartsInStep ==
    ASSUME Init
    PROVE  IInv
<1>1. Typed
    <2>1. buf = [j \in 1 .. Cap |-> 0] /\ 0 \in Data
        BY DEF Init, Data
    <2>2. sent = <<>> /\ wire = <<>> /\ out = <<>>
        BY DEF Init
    <2>3. sent \in Seq(Lens) /\ wire \in Seq(Nat) /\ out \in Seq(Seq(Data)) /\ buf \in [1 .. Cap -> Data]
        BY <2>1, <2>2
    <2>4. 0 \in 0 .. Word - 1 /\ 0 \in Nat
        BY Sizes
    <2> QED BY <2>3, <2>4 DEF Init, Typed
<1>2. InStep
    <2>1. Len(sent) = 0 /\ Len(out) = 0 /\ Len(wire) = 0 /\ off = 0 /\ pc = "idle" /\ Live = 0
        BY DEF Init, Live
    <2> DEFINE start == [k \in 1 .. Len(sent) + 1 |-> 0]
    <2>2. start \in [1 .. Len(sent) + 1 -> Nat]
        OBVIOUS
    <2>3. \A k \in 1 .. 1 : start[k] = 0
        BY <2>1
    <2> HIDE DEF start
    <2>4. Chain(start)
        BY <2>1, <2>3 DEF Chain
    <2> QED BY <2>1, <2>2, <2>4, Sizes DEF InStep, Short
<1> QED BY <1>1, <1>2 DEF IInv

\* A frame sent lengthens the stream by its bytes.
LEMMA SendInStep ==
    ASSUME Typed, InStep, NEW l \in Lens, Send(l)
    PROVE  InStep'
<1> DEFINE n == Len(sent)
           q == Len(out) + 1
           w == Len(wire)
           f == Frame(n + 1, l)
<1>1. n \in Nat /\ Len(out) \in Nat /\ q \in Nat /\ w \in Nat /\ Live \in Nat /\ Len(out) <= n /\ q <= n + 1 /\ 1 <= q
    BY Sizes DEF Typed, Live, InStep
<1>2. /\ l \in Nat /\ Hdr < l /\ f \in Seq(Nat) /\ Len(f) = l
    BY <1>1, FrameFacts
<1>3. /\ sent' = Append(sent, l) /\ wire' = wire \o f
      /\ out' = out /\ buf' = buf /\ off' = off /\ pc' = pc /\ ptr' = ptr /\ rest' = rest /\ side' = side
    BY DEF Send
<1>4. Live' = Live /\ Base' = Base
    BY <1>3 DEF Live, Base
<1>5. /\ Len(sent') = n + 1 /\ sent'[n + 1] = l /\ \A k \in 1 .. n : sent'[k] = sent[k]
      /\ Len(wire') = w + l /\ (\A i \in 1 .. w : wire'[i] = wire[i]) /\ \A j \in 1 .. l : wire'[w + j] = f[j]
    <2>1. sent \in Seq(Lens) /\ wire \in Seq(Nat)
        BY DEF Typed
    <2> HIDE DEF f
    <2>2. Len(sent') = n + 1 /\ sent'[n + 1] = l /\ \A k \in 1 .. n : sent'[k] = sent[k]
        BY <1>3, <2>1
    <2>3. Len(wire') = w + l
        BY <1>2, <1>3, <2>1, ConcatProperties
    <2>4. \A i \in 1 .. w : wire'[i] = wire[i]
        BY <1>2, <1>3, <2>1
    <2>5. \A j \in 1 .. l : wire'[w + j] = f[j]
        BY <1>2, <1>3, <2>1
    <2> QED BY <2>2, <2>3, <2>4, <2>5
<1>6. PICK start \in [1 .. n + 1 -> Nat] : Chain(start)
    BY DEF InStep
<1>7. \A k \in 1 .. n + 1 : start[k] \in Nat
    OBVIOUS
<1>8. /\ \A k \in 1 .. n : start[k + 1] = start[k] + sent[k]
      /\ \A k, m \in 1 .. n + 1 : k <= m => start[k] <= start[m]
      /\ start[n + 1] = start[q] + Live + w
      /\ \A k \in q .. n : \A j \in 1 .. sent[k] : Pending(start[k] - start[q] + j) = Frame(k, sent[k])[j]
    BY <1>6 DEF Chain
<1>9. \A k \in q .. n : \A j \in 1 .. sent[k] : start[k] - start[q] + j \in 1 .. Live + w
    BY <1>1, <1>6, InRange
<1>10. PICK next \in [1 .. n + 2 -> Nat] :
            /\ \A k \in 1 .. n + 1 : next[k] = start[k]
            /\ next[n + 2] = start[n + 1] + l
    <2> DEFINE g == [k \in 1 .. n + 2 |-> IF k <= n + 1 THEN start[k] ELSE start[n + 1] + l]
    <2>1. \A k \in 1 .. n + 2 : (IF k <= n + 1 THEN start[k] ELSE start[n + 1] + l) \in Nat
        <3>1. n + 1 \in 1 .. n + 1 /\ \A k \in 1 .. n + 2 : k <= n + 1 => k \in 1 .. n + 1
            BY <1>1
        <3>2. start[n + 1] \in Nat
            BY <1>7, <3>1
        <3>3. start[n + 1] + l \in Nat
            BY <1>2, <3>2
        <3> HIDE DEF n
        <3> QED BY <1>7, <3>1, <3>3
    <2>2. g \in [1 .. n + 2 -> Nat]
        BY <2>1
    <2>3. (\A k \in 1 .. n + 1 : g[k] = start[k]) /\ g[n + 2] = start[n + 1] + l
        BY <1>1
    <2> HIDE DEF g
    <2> QED BY <2>2, <2>3
<1>11. \A i \in 1 .. Live + w : Pending(i)' = Pending(i)
    <2> SUFFICES ASSUME NEW i \in 1 .. Live + w
                 PROVE  (IF i <= Live' THEN buf'[Base' + i] ELSE wire'[i - Live'])
                            = (IF i <= Live THEN buf[Base + i] ELSE wire[i - Live])
        BY DEF Pending
    <2> HIDE DEF w, Live, Base
    <2>1. i <= Live \/ i - Live \in 1 .. w
        BY <1>1
    <2> QED BY <1>3, <1>4, <1>5, <2>1
<1>12. ASSUME NEW j \in 1 .. l, NEW i \in Nat, i = Live + w + j
       PROVE  Pending(i)' = f[j]
    <2> SUFFICES (IF i <= Live' THEN buf'[Base' + i] ELSE wire'[i - Live']) = f[j]
        BY DEF Pending
    <2> HIDE DEF w, Live, Base, f
    <2>1. ~(i <= Live) /\ i - Live = w + j
        BY <1>1, <1>12
    <2> QED BY <1>3, <1>4, <1>5, <2>1
<1>13. Chain(next)'
    <2>1. \A k \in 1 .. n + 1 : next[k + 1] = next[k] + sent'[k]
        <3> SUFFICES ASSUME NEW k \in 1 .. n + 1 PROVE next[k + 1] = next[k] + sent'[k]
            OBVIOUS
        <3> HIDE DEF n
        <3>1. CASE k = n + 1
            BY <1>1, <1>5, <1>10, <3>1
        <3>2. CASE k # n + 1
            <4>1. k \in 1 .. n /\ k + 1 \in 1 .. n + 1
                BY <1>1, <3>2
            <4> QED BY <1>5, <1>8, <1>10, <4>1
        <3> QED BY <3>1, <3>2
    <2>2. \A k, m \in 1 .. n + 2 : k <= m => next[k] <= next[m]
        <3> SUFFICES ASSUME NEW k \in 1 .. n + 2, NEW m \in 1 .. n + 2, k <= m PROVE next[k] <= next[m]
            OBVIOUS
        <3> HIDE DEF n
        <3>1. n + 1 \in 1 .. n + 1 /\ (k \in 1 .. n + 1 \/ k = n + 2) /\ (m \in 1 .. n + 1 \/ m = n + 2)
            BY <1>1
        <3>2. \A i \in 1 .. n + 1 : next[i] = start[i] /\ start[i] <= start[n + 1]
            BY <1>1, <1>8, <1>10, <3>1
        <3>3. \A i \in 1 .. n + 2 : next[i] \in Nat
            BY <1>10
        <3>4. CASE m = n + 2
            <4>1. start[n + 1] \in Nat
                BY <1>7, <3>1
            <4>2. start[n + 1] <= next[m]
                BY <1>2, <1>10, <3>4, <4>1
            <4>3. CASE k = n + 2
                BY <3>3, <3>4, <4>3
            <4>4. CASE k \in 1 .. n + 1
                BY <1>7, <3>2, <3>3, <4>1, <4>2, <4>4
            <4> QED BY <3>1, <4>3, <4>4
        <3>5. CASE m \in 1 .. n + 1
            <4>1. k \in 1 .. n + 1
                BY <1>1, <3>5
            <4> QED BY <1>8, <1>10, <3>5, <4>1
        <3> QED BY <3>1, <3>4, <3>5
    <2>3. next[n + 2] = next[q] + Live' + Len(wire')
        <3> HIDE DEF n, q, w
        <3>1. q \in 1 .. n + 1 /\ n + 1 \in 1 .. n + 1
            BY <1>1
        <3>2. start[q] \in Nat /\ start[n + 1] \in Nat
            BY <1>7, <3>1
        <3> QED BY <1>1, <1>2, <1>4, <1>5, <1>8, <1>10, <3>1, <3>2
    <2>4. ASSUME NEW k \in q .. n + 1, NEW j \in 1 .. sent'[k], NEW i, i = next[k] - next[q] + j
          PROVE  Pending(i)' = Frame(k, sent'[k])[j]
        <3>1. q \in 1 .. n + 1 /\ k \in 1 .. n + 1 /\ n + 1 \in 1 .. n + 1
            BY <1>1
        <3>2. next[k] = start[k] /\ next[q] = start[q] /\ start[k] \in Nat /\ start[q] \in Nat
            BY <1>7, <1>10, <3>1
        <3> HIDE DEF q, w
        <3>3. CASE k = n + 1
            <4>1. sent'[k] = l
                BY <1>5, <3>3
            <4>2. i = Live + w + j /\ i \in Nat
                <5> HIDE DEF n, Live
                <5> DEFINE a == start[n + 1]
                           b == start[q]
                           d == Live
                <5>1. i = a - b + j /\ a = b + d + w /\ j \in Nat /\ a \in Nat
                    BY <1>2, <1>8, <2>4, <3>2, <3>3, <4>1
                <5>2. d \in Nat /\ w \in Nat /\ b \in Nat
                    BY <1>1, <3>2
                <5>3. i = d + w + j /\ i \in Nat
                    <6> HIDE DEF a, b, d
                    <6> QED BY <5>1, <5>2
                <5> QED BY <5>3
            <4>3. Pending(i)' = f[j]
                BY <1>12, <4>1, <4>2
            <4> QED BY <3>3, <4>1, <4>3
        <3>4. CASE k # n + 1
            <4>1. k \in 1 .. n /\ k \in q .. n
                BY <1>1, <3>4
            <4>2. sent'[k] = sent[k]
                BY <1>5, <4>1
            <4>3. i \in 1 .. Live + w
                BY <1>9, <2>4, <3>2, <4>1, <4>2
            <4>4. Pending(i)' = Pending(i)
                BY <1>11, <4>3
            <4>5. Pending(i) = Frame(k, sent[k])[j]
                BY <1>8, <2>4, <3>2, <4>1, <4>2
            <4> QED BY <4>2, <4>4, <4>5
        <3> QED BY <3>3, <3>4
    <2>5. Len(sent') = n + 1 /\ Len(out') + 1 = q
        BY <1>3, <1>5
    <2>6. ASSUME NEW k \in q .. n + 1, NEW j \in 1 .. sent'[k]
          PROVE  Pending(next[k] - next[Len(out) + 1] + j)' = Frame(k, sent'[k])[j]
        <3> DEFINE i == next[k] - next[Len(out) + 1] + j
        <3>1. i' = i /\ i = next[k] - next[q] + j
            BY <1>3
        <3> HIDE DEF i
        <3>2. ASSUME NEW x, x = i PROVE Pending(i)' = Pending(x)'
            BY <3>1, <3>2 DEF Pending
        <3>3. ASSUME NEW x, x = i PROVE Pending(x)' = Frame(k, sent'[k])[j]
            BY <2>4, <3>1, <3>3
        <3> QED BY <3>2, <3>3 DEF i
    <2>7. n + 2 = Len(sent') + 1
        BY <1>1, <2>5
    <2> HIDE DEF n, q, w, f
    <2> QED BY <2>1, <2>2, <2>3, <2>5, <2>6, <2>7 DEF Chain
<1>14. /\ Len(out') <= Len(sent')
       /\ \A k \in 1 .. Len(out') : out'[k] = Frame(k, sent'[k])
    <2>1. \A k \in 1 .. Len(out) : out[k] = Frame(k, sent[k]) /\ k \in 1 .. n
        BY <1>1 DEF InStep
    <2> QED BY <1>1, <1>3, <1>5, <2>1
<1>15. pc = "idle" \/ (pc = "recv" /\ side = "proxysvr") => Short(off)'
    <2> SUFFICES ASSUME pc = "idle" \/ (pc = "recv" /\ side = "proxysvr") PROVE Short(off)'
        OBVIOUS
    <2>1. Short(off) /\ Live = off
        BY DEF InStep, Live
    <2>2. CASE Len(out) = n
        <3>1. off = 0
            BY <2>1, <2>2, NextFrame
        <3>2. sent'[Len(out') + 1] = l
            BY <1>3, <1>5, <2>2
        <3> QED BY <1>2, <1>3, <3>1, <3>2 DEF Short, Hdr
    <2>3. CASE Len(out) < n
        <3>1. off < sent[q] /\ q \in 1 .. n
            BY <1>1, <2>1, <2>3 DEF Short
        <3> QED BY <1>3, <1>5, <3>1 DEF Short
    <2> QED BY <1>1, <2>2, <2>3
<1> QED
    <2>1. Len(sent') + 1 = n + 2
        BY <1>1, <1>5
    <2>2. pc # "closed" /\ off <= Cap /\ (pc = "parse" => ptr + rest = off) /\ (pc = "held" => side = "center_mng")
        BY DEF InStep
    <2> HIDE DEF n
    <2> QED BY <1>3, <1>10, <1>13, <1>14, <1>15, <2>1, <2>2 DEF InStep

\* Receiving moves bytes from the wire to recv_buf.
LEMMA RecvInStep ==
    ASSUME Typed, Typed', InStep, side # "tcpsvr", Wake \/ WakeOther \/ RecvFull \/ RecvSome \/ RecvAgain
    PROVE  InStep'
<1>1. /\ off \in Nat /\ off <= Cap /\ Len(wire) \in Nat /\ sent' = sent /\ out' = out /\ side' = side
      /\ pc \in {"idle", "held", "recv"} /\ (pc = "held" => side = "center_mng") /\ pc' \in {"idle", "recv", "parse"}
      /\ pc = "idle" \/ (pc = "recv" /\ side = "proxysvr") => Short(off)
    BY Sizes DEF Typed, InStep, Asleep, Wake, WakeOther, RecvFull, RecvSome, RecvAgain, ParseFrom
<1>2. Live = off /\ Base = 0
    BY <1>1 DEF Live, Base
<1>3. CASE Wake \/ WakeOther \/ RecvFull \/ RecvAgain
    <2>1. /\ off' = off /\ wire' = wire /\ buf' = buf
          /\ pc' = "parse" => ptr' = 0 /\ rest' = off /\ side # "proxysvr"
          /\ pc' = "recv" => pc = "idle" \/ (pc = "held" /\ side = "center_mng")
          /\ pc' = "idle" => side = "proxysvr" /\ pc = "recv"
        <3>1. side \in {"proxysvr", "center_mng"}
            BY Sizes DEF Typed
        <3>2. CASE Wake
            BY <1>1, <3>2 DEF Wake, Asleep
        <3>3. CASE WakeOther \/ RecvFull
            BY <3>1, <3>3 DEF WakeOther, RecvFull, ParseFrom
        <3>4. CASE RecvAgain
            BY <3>1, <3>4 DEF RecvAgain, ParseFrom, AfterAgain
        <3> QED BY <1>3, <3>2, <3>3, <3>4
    <2>2. Live' = off /\ Base' = 0
        BY <2>1 DEF Live, Base
    <2>3. \A i : Pending(i)' = Pending(i)
        BY <1>2, <2>1, <2>2 DEF Pending
    <2>4. /\ Len(out') <= Len(sent') /\ \A k \in 1 .. Len(out') : out'[k] = Frame(k, sent'[k])
          /\ \E start \in [1 .. Len(sent') + 1 -> Nat] : Chain(start)'
        BY <1>1, <1>2, <2>1, <2>2, <2>3, Moved
    <2>5. pc' = "idle" \/ (pc' = "recv" /\ side' = "proxysvr") => Short(off)'
        BY <1>1, <2>1 DEF Short
    <2>6. pc' # "closed" /\ off' <= Cap /\ (pc' = "parse" => ptr' + rest' = off') /\ pc' # "held"
        BY <1>1, <2>1
    <2> QED BY <2>4, <2>5, <2>6 DEF InStep
<1>4. CASE RecvSome
    <2>1. PICK n \in 1 .. Lowest(Len(wire), Cap - off) :
            /\ buf' = [j \in 1 .. Cap |-> IF j \in off + 1 .. off + n THEN wire[j - off] ELSE buf[j]]
            /\ wire' = SubSeq(wire, n + 1, Len(wire))
            /\ off' = off + n
        BY <1>4 DEF RecvSome
    <2>2. n \in Nat /\ 1 <= n /\ n <= Len(wire) /\ n <= Cap - off /\ off + n \in Nat /\ off + n <= Cap
        BY <1>1, <2>1, Sizes DEF Lowest
    <2>3. wire \in Seq(Nat)
        BY DEF Typed
    <2>4. Len(wire') = Len(wire) - n /\ \A i \in 1 .. Len(wire) - n : wire'[i] = wire[i + n]
        BY <2>1, <2>2, <2>3
    <2>5. /\ pc' = "recv" => side = "center_mng"
          /\ pc' \in {"recv", "parse"} /\ (pc' = "parse" => ptr' = 0 /\ rest' = off')
        BY <1>4 DEF RecvSome, ParseFrom
    <2>6. Live' = off + n /\ Base' = 0
        BY <2>1, <2>5 DEF Live, Base
    <2>7. \A i \in 1 .. Live + Len(wire) : Pending(i)' = Pending(i)
        <3> SUFFICES ASSUME NEW i \in 1 .. off + Len(wire)
                     PROVE  (IF i <= off + n THEN buf'[0 + i] ELSE wire'[i - (off + n)])
                                = (IF i <= off THEN buf[0 + i] ELSE wire[i - off])
            BY <1>2, <2>6 DEF Pending
        <3>1. CASE i <= off
            <4>1. i \in 1 .. Cap /\ 0 + i = i /\ i <= off + n /\ i \notin off + 1 .. off + n
                BY <1>1, <2>2, <3>1, Sizes
            <4>2. buf'[i] = buf[i]
                BY <2>1, <4>1
            <4> QED BY <3>1, <4>1, <4>2
        <3>2. CASE ~(i <= off) /\ i <= off + n
            <4>1. i \in 1 .. Cap /\ 0 + i = i /\ i \in off + 1 .. off + n
                BY <1>1, <2>2, <3>2, Sizes
            <4>2. buf'[i] = wire[i - off]
                BY <2>1, <4>1
            <4> QED BY <3>2, <4>1, <4>2
        <3>3. CASE ~(i <= off + n)
            <4>1. ~(i <= off) /\ i - (off + n) \in 1 .. Len(wire) - n /\ i - (off + n) + n = i - off
                BY <1>1, <2>2, <3>3
            <4> QED BY <2>4, <3>3, <4>1
        <3> QED BY <3>1, <3>2, <3>3
    <2>8. Live' + Len(wire') = Live + Len(wire)
        BY <1>1, <1>2, <2>2, <2>4, <2>6
    <2>9. /\ Len(out') <= Len(sent') /\ \A k \in 1 .. Len(out') : out'[k] = Frame(k, sent'[k])
          /\ \E start \in [1 .. Len(sent') + 1 -> Nat] : Chain(start)'
        BY <1>1, <2>7, <2>8, Moved
    <2>10. pc' # "closed" /\ off' <= Cap /\ (pc' = "parse" => ptr' + rest' = off') /\ pc' # "held"
        BY <2>1, <2>2, <2>5
    <2>11. ~(pc' = "idle" \/ (pc' = "recv" /\ side' = "proxysvr"))
        BY <1>1, <2>5
    <2> QED BY <2>9, <2>10, <2>11 DEF InStep
<1> QED BY <1>3, <1>4

\* What is left over moves to the front unharmed, and is less than a frame unless
\* the round is broken off.
LEMMA CutEndInStep ==
    ASSUME Typed, Typed', InStep, side # "tcpsvr", CutEnd \/ CutBrokenOff
    PROVE  InStep'
<1>1. /\ off \in Nat /\ off <= Cap /\ ptr \in Nat /\ rest \in Nat /\ ptr + rest = off
      /\ Len(wire) \in Nat /\ Len(sent) \in Nat /\ Len(out) \in Nat /\ Len(out) <= Len(sent)
      /\ pc = "parse"
    BY Sizes DEF Typed, InStep, CutEnd, CutBrokenOff
<1>2. /\ sent' = sent /\ out' = out /\ side' = side /\ wire' = wire /\ off' = rest
      /\ pc' \in {"recv", "idle", "held"}
      /\ buf' = [j \in 1 .. Cap |-> IF j <= rest /\ rest # off THEN At(ptr + j) ELSE buf[j]]
    BY DEF CutEnd, CutBrokenOff, LoopEnd, MoveUp
<1>3. Live = rest /\ Base = ptr /\ Live' = rest /\ Base' = 0
    BY <1>1, <1>2 DEF Live, Base
<1>4. ASSUME NEW i \in 1 .. rest
      PROVE  buf'[i] = buf[ptr + i]
    <2>1. i \in 1 .. Cap /\ i <= rest /\ ptr + i <= Cap
        BY <1>1, Sizes
    <2>2. rest = off => ptr + i = i
        BY <1>1
    <2> QED BY <1>2, <2>1, <2>2 DEF At
<1>5. ASSUME NEW i \in 1 .. Live + Len(wire)
      PROVE  Pending(i)' = Pending(i)
    <2> SUFFICES (IF i <= rest THEN buf'[0 + i] ELSE wire[i - rest])
                    = (IF i <= rest THEN buf[ptr + i] ELSE wire[i - rest])
        BY <1>2, <1>3 DEF Pending
    <2>1. i \in Nat /\ 1 <= i /\ 0 + i = i
        BY <1>1, <1>3
    <2>2. i <= rest => i \in 1 .. rest
        BY <1>1, <2>1
    <2> QED BY <1>4, <2>1, <2>2
<1>6. /\ Len(out') <= Len(sent') /\ \A k \in 1 .. Len(out') : out'[k] = Frame(k, sent'[k])
      /\ \E start \in [1 .. Len(sent') + 1 -> Nat] : Chain(start)'
    BY <1>2, <1>3, <1>5, Moved
<1>7. ASSUME CutEnd PROVE Short(rest)
    <2>1. CASE rest <= Hdr
        <3>1. Len(out) < Len(sent) => sent[Len(out) + 1] \in Lens
            BY NextFrame
        <3>2. Len(out) < Len(sent) => sent[Len(out) + 1] \in Nat /\ Hdr < sent[Len(out) + 1]
            BY <1>1, <3>1, FrameFacts
        <3> QED BY <1>1, <2>1, <3>2 DEF Short, Hdr
    <2>2. CASE ~(rest <= Hdr)
        <3>1. Cutting
            BY <1>1, <2>2 DEF Cutting, Hdr
        <3>2. Len(out) < Len(sent) /\ LenHere = {sent[Len(out) + 1]}
            BY <3>1, HeaderRead
        <3>3. ~Enough(sent[Len(out) + 1])
            BY <1>7, <2>2, <3>2 DEF CutEnd
        <3>4. sent[Len(out) + 1] \in Lens
            BY <3>2, NextFrame
        <3>5. sent[Len(out) + 1] \in Nat
            BY <1>1, <3>4, FrameFacts
        <3> QED BY <1>1, <3>3, <3>5 DEF Short, Enough
    <2> QED BY <2>1, <2>2
<1>8. (pc' = "held" /\ side = "center_mng") \/ (pc' # "held" /\ Short(off)')
    <2>1. CASE CutEnd
        BY <1>2, <1>7, <2>1 DEF Short, CutEnd, LoopEnd
    <2>2. CASE CutBrokenOff
        BY <2>2 DEF CutBrokenOff
    <2> QED BY <2>1, <2>2
<1>9. pc' # "closed" /\ off' <= Cap /\ pc' # "parse"
    BY <1>1, <1>2, Sizes
<1> QED BY <1>2, <1>6, <1>8, <1>9 DEF InStep

\* The frame cut off is the next one, and the stream goes on behind it.
LEMMA CutFrameInStep ==
    ASSUME Typed, Typed', InStep, side # "tcpsvr", CutFrame
    PROVE  InStep'
<1> DEFINE n == Len(sent)
           q == Len(out) + 1
           l == sent[q]
           w == Len(wire)
<1>1. Cutting /\ pc = "parse"
    BY DEF CutFrame, Cutting
<1>2. /\ off \in Nat /\ off <= Cap /\ ptr \in Nat /\ rest \in Nat /\ ptr + rest = off
      /\ w \in Nat /\ n \in Nat /\ Len(out) \in Nat /\ q \in Nat
    BY <1>1, Sizes DEF Typed, InStep
<1>3. Len(out) < n /\ LenHere = {l}
    BY <1>1, HeaderRead
<1>4. q \in 1 .. n /\ q + 1 \in 1 .. n + 1 /\ q \in 1 .. n + 1
    BY <1>2, <1>3
<1>5. l \in Lens /\ \A j \in 1 .. l : Pending(j) = Frame(q, l)[j]
    BY <1>3, NextFrame
<1>6. l \in Nat /\ Hdr < l /\ Frame(q, l) \in Seq(Nat) /\ Len(Frame(q, l)) = l
    BY <1>2, <1>5, FrameFacts
<1>7. /\ l <= rest /\ out' = Append(out, [j \in 1 .. l |-> At(ptr + j)])
      /\ rest' = rest - l /\ ptr' = ptr + l /\ buf' = buf
      /\ side' = side /\ sent' = sent /\ wire' = wire /\ off' = off /\ pc' = pc
    BY <1>3 DEF CutFrame, Enough
<1>8. Live = rest /\ Base = ptr /\ Live' = rest - l /\ Base' = ptr + l
    BY <1>1, <1>7 DEF Live, Base
<1>9. [j \in 1 .. l |-> At(ptr + j)] = Frame(q, l)
    <2> HIDE DEF l, q
    <2>1. ASSUME NEW j \in 1 .. l
          PROVE  At(ptr + j) = Frame(q, l)[j]
        <3>1. j <= rest /\ ptr + j <= Cap
            BY <1>2, <1>6, <1>7, Sizes
        <3>2. Pending(j) = buf[ptr + j]
            BY <1>8, <3>1 DEF Pending
        <3> QED BY <1>5, <3>1, <3>2 DEF At
    <2>2. Frame(q, l) = [j \in 1 .. l |-> Frame(q, l)[j]]
        BY DEF Frame
    <2> QED BY <2>1, <2>2
<1>10. /\ Len(out') = q /\ out'[q] = Frame(q, l) /\ \A k \in 1 .. Len(out) : out'[k] = out[k]
    <2> DEFINE f == Frame(q, l)
    <2>1. out' = Append(out, f)
        BY <1>7, <1>9
    <2>2. out \in Seq(Seq(Data))
        BY DEF Typed
    <2> HIDE DEF f
    <2>3. Len(out') = q /\ out'[q] = f /\ \A k \in 1 .. Len(out) : out'[k] = out[k]
        BY <2>1, <2>2
    <2> QED BY <2>3 DEF f
<1>11. /\ Len(out') <= Len(sent')
       /\ \A k \in 1 .. Len(out') : out'[k] = Frame(k, sent'[k])
    <2>1. \A k \in 1 .. Len(out) : out[k] = Frame(k, sent[k])
        BY DEF InStep
    <2>2. \A k \in 1 .. q : k \in 1 .. Len(out) \/ k = q
        BY <1>2
    <2>3. Len(out') <= Len(sent')
        BY <1>2, <1>3, <1>7, <1>10
    <2>4. \A k \in 1 .. Len(out') : out'[k] = Frame(k, sent[k])
        <3> HIDE DEF q
        <3> QED BY <1>10, <2>1, <2>2 DEF l
    <2> QED BY <1>7, <2>3, <2>4
<1>12. PICK start \in [1 .. n + 1 -> Nat] : Chain(start)
    BY DEF InStep
<1>13. \A k \in 1 .. n + 1 : start[k] \in Nat
    OBVIOUS
<1>14. /\ \A k \in 1 .. n : start[k + 1] = start[k] + sent[k]
       /\ \A k, m \in 1 .. n + 1 : k <= m => start[k] <= start[m]
       /\ start[n + 1] = start[q] + Live + w
       /\ \A k \in q .. n : \A j \in 1 .. sent[k] : Pending(start[k] - start[q] + j) = Frame(k, sent[k])[j]
    BY <1>12 DEF Chain
<1>15. start[q] \in Nat /\ start[q + 1] \in Nat /\ start[q + 1] = start[q] + l
    BY <1>4, <1>13, <1>14
<1>16. ASSUME NEW k \in q + 1 .. n, NEW j \in 1 .. sent[k], NEW i, i = start[k] - start[q + 1] + j
       PROVE  Pending(i)' = Frame(k, sent[k])[j]
    <2>1. k \in q .. n /\ k \in 1 .. n /\ k \in 1 .. n + 1 /\ q + 1 <= k
        BY <1>2
    <2>2. start[k] \in Nat /\ start[q + 1] <= start[k]
        BY <1>4, <1>13, <1>14, <2>1
    <2>3. sent[k] \in Nat
        <3>1. sent[k] \in Lens
            BY <2>1 DEF Typed
        <3> QED BY <1>2, <3>1, FrameFacts
    <2>4. j \in Nat /\ 1 <= j
        BY <2>3
    <2> HIDE DEF q, l, w, n
    <2>5. i \in Nat /\ 1 <= i /\ start[k] - start[q] + j = i + l
        <3>1. l \in Nat
            BY <1>6
        <3>2. start[q] + l <= start[k]
            BY <1>15, <2>2
        <3>3. i = start[k] - (start[q] + l) + j
            BY <1>15, <1>16, Zenon
        <3>4. start[k] \in Nat /\ start[q] \in Nat /\ j \in Nat /\ 1 <= j
            BY <1>15, <2>2, <2>4
        <3>5. /\ start[k] - (start[q] + l) + j \in Nat /\ 1 <= start[k] - (start[q] + l) + j
              /\ start[k] - start[q] + j = (start[k] - (start[q] + l) + j) + l
            BY <3>1, <3>2, <3>4, PositionBehind
        <3> QED BY <3>3, <3>5, Zenon
    <2> SUFFICES ASSUME NEW x, x = start[k] - start[q] + j
                 PROVE  Pending(i)' = Frame(k, sent[k])[j]
        OBVIOUS
    <2>6. Pending(x) = Frame(k, sent[k])[j]
        BY <1>14, <2>1
    <2>7. (IF i <= rest - l THEN buf[ptr + l + i] ELSE wire[i - (rest - l)])
            = (IF x <= rest THEN buf[ptr + x] ELSE wire[x - rest])
        <3>1. /\ (i <= rest - l) = (x <= rest) /\ ptr + l + i = ptr + x
              /\ i - (rest - l) = x - rest
            <4>1. l \in Int /\ rest \in Int /\ ptr \in Int /\ i \in Int /\ x \in Int
                BY <1>2, <1>6, <2>5
            <4> QED BY <2>5, <4>1, PieceBehind
        <3> QED BY <3>1
    <2>8. Pending(x) = IF x <= rest THEN buf[ptr + x] ELSE wire[x - rest]
        BY <1>8 DEF Pending
    <2>9. Pending(i)' = IF i <= rest - l THEN buf[ptr + l + i] ELSE wire[i - (rest - l)]
        BY <1>7, <1>8 DEF Pending
    <2> QED BY <2>6, <2>7, <2>8, <2>9
<1>17. Chain(start)'
    <2>1. start[Len(sent') + 1] = start[Len(out') + 1] + Live' + Len(wire')
        <3>1. Len(sent') + 1 = n + 1 /\ Len(out') + 1 = q + 1 /\ Len(wire') = w /\ Live' = rest - l
            BY <1>7, <1>8, <1>10
        <3>2. start[n + 1] = start[q] + rest + w
            BY <1>8, <1>14
        <3> HIDE DEF q, l, w, n
        <3>3. start[n + 1] = start[q + 1] + (rest - l) + w
            BY <1>2, <1>6, <1>15, <3>2
        <3> QED BY <3>1, <3>3
    <2>2. ASSUME NEW k \in Len(out') + 1 .. Len(sent'), NEW j \in 1 .. sent'[k]
          PROVE  Pending(start[k] - start[Len(out) + 1] + j)' = Frame(k, sent'[k])[j]
        <3> DEFINE i == start[k] - start[Len(out') + 1] + j
        <3>1. k \in q + 1 .. n /\ j \in 1 .. sent[k] /\ i = start[k] - start[q + 1] + j
            BY <1>7, <1>10
        <3>2. ASSUME NEW x, x = i
              PROVE  Pending(start[k] - start[Len(out) + 1] + j)' = Pending(x)'
            BY <3>2 DEF Pending
        <3>3. ASSUME NEW x, x = i
              PROVE  Pending(x)' = Frame(k, sent'[k])[j]
            <4>1. Pending(x)' = Frame(k, sent[k])[j]
                BY <1>16, <3>1, <3>3
            <4> QED BY <1>7, <4>1
        <3> QED BY <3>2, <3>3
    <2> QED BY <1>7, <1>14, <2>1, <2>2 DEF Chain
<1>18. pc' = "parse" /\ off' <= Cap /\ ptr' + rest' = off'
    <2> HIDE DEF l
    <2> QED BY <1>1, <1>2, <1>6, <1>7
<1> QED BY <1>7, <1>11, <1>12, <1>17, <1>18 DEF InStep

-----------------------------------------------------------------------------
(* The theorems.                                                           *)

\* The invariant is inductive.
LEMMA StepKeepsIInv ==
    ASSUME IInv, [Next]_vars
    PROVE  IInv'
<1>1. Typed /\ (side # "tcpsvr" => InStep)
    BY DEF IInv
<1>2. ASSUME NEW l \in Lens, Send(l)
      PROVE  IInv'
    BY <1>1, <1>2, SendTyped, SendInStep DEF IInv, Send
<1>3. CASE Wake \/ WakeOther \/ RecvFull \/ RecvSome \/ RecvAgain
    <2>1. Typed' /\ side' = side
        BY <1>1, <1>3, RecvTyped DEF Wake, WakeOther, RecvFull, RecvSome, RecvAgain
    <2> QED BY <1>1, <1>3, <2>1, RecvInStep DEF IInv
<1>4. CASE CutFrame \/ CutInvalid \/ CutEnd \/ CutBrokenOff \/ CutPipeFull
    <2>1. Typed'
        BY <1>1, <1>4, CutTyped
    <2>2. side' = side
        BY <1>4 DEF CutFrame, CutInvalid, CutEnd, CutBrokenOff, CutPipeFull, LoopEnd
    <2>3. CutPipeFull => side = "tcpsvr"
        BY DEF CutPipeFull
    <2>4. CutInvalid /\ side # "tcpsvr" => FALSE
        BY <1>1, HeaderRead DEF CutInvalid
    <2> QED BY <1>1, <1>4, <2>1, <2>2, <2>3, <2>4, CutFrameInStep, CutEndInStep DEF IInv
<1>5. CASE UNCHANGED vars
    <2>1. Typed'
        BY <1>1, <1>5 DEF vars, Typed
    <2>2. Live' = Live /\ Base' = Base
        BY <1>5 DEF vars, Live, Base
    <2>3. \A i : Pending(i)' = Pending(i)
        BY <1>5, <2>2 DEF vars, Pending
    <2>4. side # "tcpsvr" => InStep'
        <3> SUFFICES ASSUME side # "tcpsvr" PROVE InStep'
            OBVIOUS
        <3>1. /\ Len(out') <= Len(sent') /\ \A k \in 1 .. Len(out') : out'[k] = Frame(k, sent'[k])
              /\ \E start \in [1 .. Len(sent') + 1 -> Nat] : Chain(start)'
            BY <1>1, <1>5, <2>1, <2>2, <2>3, Moved DEF vars
        <3> QED BY <1>1, <1>5, <3>1 DEF vars, InStep, Short
    <2> QED BY <1>5, <2>1, <2>4 DEF IInv, vars
<1> QED BY <1>2, <1>3, <1>4, <1>5 DEF Next

\* The invariant holds throughout.
THEOREM ReceiverInvariant == Spec => []IInv
<1>1. Init => IInv
    BY StartsInStep
<1>2. IInv /\ [Next]_vars => IInv'
    BY StepKeepsIInv
<1> QED BY <1>1, <1>2, PTL DEF Spec

\* The offsets of all three receivers stay 32-bit values, and so does what is
\* left to cut (TypeOK; tcpsvr.cpp:341-374, where -1 is added to one).
THEOREM FrameTypes == Spec => []TypeOK
<1>1. IInv => TypeOK
    BY DEF IInv, Typed, TypeOK, Data
<1> QED BY <1>1, ReceiverInvariant, PTL

\* proxysvr and CenterMng hand on exactly the frames sent, whole, in order and
\* each once (FramesInOrder; proxysvr.cpp:323-371, center_mng.cpp:149-199).
THEOREM FramesStayInOrder == Spec => []FramesInOrder
<1>1. IInv => FramesInOrder
    BY DEF IInv, InStep, FramesInOrder
<1> QED BY <1>1, ReceiverInvariant, PTL

\* They never end a round with a complete frame left, unless GetCenterMessage
\* breaks it off (NothingWaits; server.cpp:274, 285-286).
THEOREM NothingIsLeftWaiting == Spec => []NothingWaits
<1>1. IInv => NothingWaits
    BY DEF IInv, InStep, Short, NothingWaits
<1> QED BY <1>1, ReceiverInvariant, PTL

\* Neither of them takes a length it reads for an invalid one, so they keep the
\* connection of a peer that sends only well-formed frames; tcpsvr does not.
THEOREM ValidPeersStayConnected == Spec => [](side # "tcpsvr" => ValidStaysOpen)
<1>1. IInv => (side # "tcpsvr" => ValidStaysOpen)
    BY DEF IInv, InStep, ValidStaysOpen
<1> QED BY <1>1, ReceiverInvariant, PTL
=============================================================================
