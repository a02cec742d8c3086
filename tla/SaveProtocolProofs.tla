------------------------- MODULE SaveProtocolProofs -------------------------
(***************************************************************************)
(* The optimistic lock of the save protocol is correct for any number of   *)
(* logic servers, players and sessions, whatever is lost, times out, fails *)
(* or is restarted and however often.                                      *)
(***************************************************************************)
EXTENDS SaveProtocol, BasicFacts, TLAPS

USE RedoAssumption, BoundsAssumption

-----------------------------------------------------------------------------
(* The inductive invariant.  The messages under way matter as much as the  *)
(* state of the processes: each of them carries a claim about the row that *)
(* must still be true when it is taken.                                    *)

Requests(s, u) == Range(toDb[s][u])
Answers(s, u) == Range(toSvr[s][u])

Queues(S) == [Svr -> [Uid -> Seq(S)]]

GetReq == [kind : {"get"}, sid : Nat, w : Work]
SaveReq == [kind : {"save"}, sid : Nat, w : Work, changed : SUBSET Key, datas : [Key -> Row]]
Ans == [kind : {"get", "save"}, sid : Nat, w : Work, result : {OK, ERROR, VER_DIFFER}, datas : Datas]

\* Every save carries both keys: an answer sets the mark of every key it has,
\* and the answer without any registers the player anew.
Typed ==
    /\ TypeOK /\ left \in Int
    /\ sess = [s \in Svr |-> sess[s]] /\ \A s \in Svr : DOMAIN sess[s] \subseteq Nat
    /\ toDb \in Queues(GetReq \cup SaveReq)
    /\ toSvr \in Queues(Ans)

\* The row of a player who is not registered is empty.
RowShape ==
    \A u \in Uid : /\ row[u]["base"].ver = 0 <=> row[u]["base"].blob = {}
                   /\ row[u]["base"].ver = 0 => row[u]["money"].blob = {}

\* Data read from the rows of player u: of this version or an older one, with
\* the money the player still has; and as long as statements do not fail a
\* version has one content.
ReadFrom(u, d) ==
    /\ d \in [Key -> Row] /\ \A k \in Key : d[k].ver <= row[u][k].ver
    /\ d["base"].ver = 0 <=> d["base"].blob = {}
    /\ d["base"].ver > 0 => d["money"].blob = row[u]["money"].blob
    /\ Reliable /\ d["base"].ver = row[u]["base"].ver => d["base"].blob = row[u]["base"].blob

\* An answer that makes its session go on carries such data.
AnswerOk(u, m) ==
    /\ m.kind = "get" /\ m.result = OK => ReadFrom(u, m.datas)
    /\ m.kind = "save" /\ m.result = VER_DIFFER => m.datas = <<>> \/ ReadFrom(u, m.datas)
    /\ m.kind = "save" /\ m.result = OK => \E x \in committed : x.w = m.w

\* A save: one version on from what was read; the first one gives money, the
\* later ones keep it; and nothing of the row it replaces is missing.
SaveOk(u, m) ==
    LET d == m.datas
    IN /\ \A k \in Key : 1 <= d[k].ver /\ d[k].ver <= row[u][k].ver + 1
       /\ m.w \in d["base"].blob
       /\ d["base"].ver = 1 => m.w \in d["money"].blob
       /\ d["base"].ver > 1 => d["money"].blob = row[u]["money"].blob /\ "money" \notin m.changed
       /\ Reliable /\ d["base"].ver = row[u]["base"].ver + 1 => row[u]["base"].blob \subseteq d["base"].blob

MessagesOk ==
    \A s \in Svr, u \in Uid : /\ \A m \in Answers(s, u) : AnswerOk(u, m)
                              /\ \A m \in Requests(s, u) : m.kind = "save" => SaveOk(u, m)

\* The cache is the row, until a statement fails.
CacheIsRow == Reliable => \A u \in Uid, k \in Key : cache[u][k] # 0 => cache[u][k] = row[u][k].ver

\* Unless an id was reused too early, a message under way that finds a session
\* is that session's own.
Own(s, m) == m.sid \in DOMAIN sess[s] => m.w = sess[s][m.sid].w
OwnMessages ==
    "reuse" \notin seen => \A s \in Svr, u \in Uid : \A m \in Answers(s, u) \cup Requests(s, u) : Own(s, m)

IInv ==
    /\ Typed /\ RowShape /\ MessagesOk /\ CacheIsRow /\ OwnMessages
    /\ CacheLag /\ RegisteredHasMoney /\ NoLostUpdate /\ OwnIdAckedIsSaved

-----------------------------------------------------------------------------
(* The queues.                                                             *)

\* Replacing one queue leaves the others alone.
LEMMA OneQueue ==
    ASSUME NEW S, NEW f \in Queues(S), NEW s \in Svr, NEW u \in Uid, NEW q \in Seq(S)
    PROVE  LET g == [f EXCEPT ![s][u] = q]
           IN /\ g \in Queues(S) /\ g[s][u] = q
              /\ \A t \in Svr, v \in Uid : t # s \/ v # u => g[t][v] = f[t][v]
BY DEF Queues

\* Sending adds one message to one queue.
Sent(f, s, u, m) == [f EXCEPT ![s][u] = Append(@, m)]
\* Nothing else in the network changes with it.
LEMMA Sending ==
    ASSUME NEW S, NEW f \in Queues(S), NEW s \in Svr, NEW u \in Uid, NEW m \in S
    PROVE  /\ Sent(f, s, u, m) \in Queues(S)
           /\ Range(Sent(f, s, u, m)[s][u]) = Range(f[s][u]) \cup {m}
           /\ \A t \in Svr, v \in Uid : t # s \/ v # u => Sent(f, s, u, m)[t][v] = f[t][v]
<1> DEFINE q == Append(f[s][u], m)
<1>1. f[s][u] \in Seq(S)
    BY DEF Queues
<1>2. q \in Seq(S) /\ Range(q) = Range(f[s][u]) \cup {m}
    BY <1>1, RangeAppend
<1> HIDE DEF q
<1> DEFINE g == [f EXCEPT ![s][u] = q]
<1>3. /\ g \in Queues(S) /\ g[s][u] = q
      /\ \A t \in Svr, v \in Uid : t # s \/ v # u => g[t][v] = f[t][v]
    BY <1>2, OneQueue DEF Queues
<1>4. g = Sent(f, s, u, m)
    BY DEF q, Sent
<1> HIDE DEF g
<1> QED BY <1>2, <1>3, <1>4

\* Taking the head adds none, and the head was there.
Taken(f, s, u) == [f EXCEPT ![s][u] = Tail(@)]
\* No queue gains a message by it.
LEMMA Taking ==
    ASSUME NEW S, NEW f \in Queues(S), NEW s \in Svr, NEW u \in Uid, f[s][u] # <<>>
    PROVE  /\ Taken(f, s, u) \in Queues(S) /\ Head(f[s][u]) \in S /\ Head(f[s][u]) \in Range(f[s][u])
           /\ \A t \in Svr, v \in Uid : Range(Taken(f, s, u)[t][v]) \subseteq Range(f[t][v])
<1> DEFINE q == Tail(f[s][u])
<1>1. f[s][u] \in Seq(S)
    BY DEF Queues
<1>2. q \in Seq(S) /\ Range(q) \subseteq Range(f[s][u]) /\ Head(f[s][u]) \in S /\ Head(f[s][u]) \in Range(f[s][u])
    BY <1>1, RangeTail
<1> HIDE DEF q
<1> DEFINE g == [f EXCEPT ![s][u] = q]
<1>3. /\ g \in Queues(S) /\ g[s][u] = q
      /\ \A t \in Svr, v \in Uid : t # s \/ v # u => g[t][v] = f[t][v]
    BY <1>2, OneQueue DEF Queues
<1> HIDE DEF g
<1>4. \A t \in Svr, v \in Uid : Range(g[t][v]) \subseteq Range(f[t][v])
    BY <1>2, <1>3
<1>5. g = Taken(f, s, u)
    BY DEF g, q, Taken
<1> QED BY <1>2, <1>3, <1>4, <1>5

\* Losing a message adds none.
Lost(f, s, u, i) == [f EXCEPT ![s][u] = Without(@, i)]
\* No queue gains a message by that either.
LEMMA Losing ==
    ASSUME NEW S, NEW f \in Queues(S), NEW s \in Svr, NEW u \in Uid, NEW i \in 1 .. Len(f[s][u])
    PROVE  /\ Lost(f, s, u, i) \in Queues(S)
           /\ \A t \in Svr, v \in Uid : Range(Lost(f, s, u, i)[t][v]) \subseteq Range(f[t][v])
<1> DEFINE q == f[s][u]
           a == SubSeq(q, 1, i - 1)
           b == SubSeq(q, i + 1, Len(q))
<1>1. q \in Seq(S) /\ Len(q) \in Nat /\ i \in 1 .. Len(q)
    BY DEF Queues
<1> HIDE DEF q
<1>2. \A j \in 1 .. Len(q) : q[j] \in S /\ q[j] \in Range(q)
    BY <1>1, RangeOf
<1>3. /\ a \in Seq(Range(q)) /\ a \in Seq(S)
      /\ b \in Seq(Range(q)) /\ b \in Seq(S)
    <2>1. i - 1 \in Int /\ i + 1 \in Int /\ 1 .. i - 1 \subseteq 1 .. Len(q) /\ i + 1 .. Len(q) \subseteq 1 .. Len(q)
        BY <1>1
    <2>2. a \in Seq(Range(q)) /\ a \in Seq(S)
        BY <1>2, <2>1, SubSeqProperties
    <2>3. b \in Seq(Range(q)) /\ b \in Seq(S)
        BY <1>1, <1>2, <2>1, SubSeqProperties
    <2> QED BY <2>2, <2>3
<1> HIDE DEF a, b
<1>4. a \o b \in Seq(S) /\ Range(a \o b) = Range(a) \cup Range(b)
    BY <1>3, ConcatProperties, RangeConcatenation
<1>5. Range(a) \subseteq Range(q) /\ Range(b) \subseteq Range(q)
    BY <1>3, RangeOfSeq
<1> DEFINE r == a \o b
           g == [f EXCEPT ![s][u] = r]
<1>6. r \in Seq(S) /\ Range(r) \subseteq Range(q)
    BY <1>4, <1>5
<1> HIDE DEF r
<1>7. /\ g \in Queues(S) /\ g[s][u] = r
      /\ \A t \in Svr, v \in Uid : t # s \/ v # u => g[t][v] = f[t][v]
    BY <1>6, OneQueue DEF Queues
<1> HIDE DEF g
<1>8. \A t \in Svr, v \in Uid : Range(g[t][v]) \subseteq Range(f[t][v])
    BY <1>6, <1>7 DEF q
<1>9. g = Lost(f, s, u, i)
    BY DEF g, r, a, b, q, Without, Lost
<1> QED BY <1>7, <1>8, <1>9

\* A request is sent.
LEMMA Asking ==
    ASSUME Typed, NEW s \in Svr, NEW u \in Uid, NEW m \in GetReq \cup SaveReq, toDb' = Sent(toDb, s, u, m)
    PROVE  /\ toDb' \in Queues(GetReq \cup SaveReq)
           /\ \A t \in Svr, v \in Uid : \A n \in Requests(t, v)' :
                n \in Requests(t, v) \/ (t = s /\ v = u /\ n = m)
<1> DEFINE S == GetReq \cup SaveReq
<1>1. toDb \in Queues(S) /\ m \in S
    BY DEF Typed
<1> HIDE DEF S
<1>2. /\ toDb' \in Queues(S)
      /\ \A t \in Svr, v \in Uid : \A n \in Range(toDb'[t][v]) :
            n \in Range(toDb[t][v]) \/ (t = s /\ v = u /\ n = m)
    BY <1>1, Sending
<1> QED BY <1>2 DEF Requests, S

\* An answer is sent.
LEMMA Answering ==
    ASSUME Typed, NEW s \in Svr, NEW u \in Uid, NEW m \in Ans, toSvr' = Sent(toSvr, s, u, m)
    PROVE  /\ toSvr' \in Queues(Ans)
           /\ \A t \in Svr, v \in Uid : \A n \in Answers(t, v)' :
                n \in Answers(t, v) \/ (t = s /\ v = u /\ n = m)
<1> DEFINE S == Ans
<1>1. toSvr \in Queues(S) /\ m \in S
    BY DEF Typed
<1> HIDE DEF S
<1>2. /\ toSvr' \in Queues(S)
      /\ \A t \in Svr, v \in Uid : \A n \in Range(toSvr'[t][v]) :
            n \in Range(toSvr[t][v]) \/ (t = s /\ v = u /\ n = m)
    BY <1>1, Sending
<1> QED BY <1>2 DEF Answers, S

\* A request is taken.
LEMMA TakingRequest ==
    ASSUME Typed, NEW s \in Svr, NEW u \in Uid, toDb[s][u] # <<>>,
           toDb' = Taken(toDb, s, u)
    PROVE  /\ toDb' \in Queues(GetReq \cup SaveReq)
           /\ Head(toDb[s][u]) \in GetReq \cup SaveReq /\ Head(toDb[s][u]) \in Requests(s, u)
           /\ \A t \in Svr, v \in Uid : Requests(t, v)' \subseteq Requests(t, v)
<1> DEFINE S == GetReq \cup SaveReq
<1>1. toDb \in Queues(S)
    BY DEF Typed
<1> HIDE DEF S
<1>2. /\ toDb' \in Queues(S)
      /\ Head(toDb[s][u]) \in S /\ Head(toDb[s][u]) \in Range(toDb[s][u])
      /\ \A t \in Svr, v \in Uid : Range(toDb'[t][v]) \subseteq Range(toDb[t][v])
    BY <1>1, Taking
<1> QED BY <1>2 DEF Requests, Queues, S

\* An answer is taken.
LEMMA TakingAnswer ==
    ASSUME Typed, NEW s \in Svr, NEW u \in Uid, toSvr[s][u] # <<>>,
           toSvr' = Taken(toSvr, s, u)
    PROVE  /\ toSvr' \in Queues(Ans)
           /\ Head(toSvr[s][u]) \in Ans /\ Head(toSvr[s][u]) \in Answers(s, u)
           /\ \A t \in Svr, v \in Uid : Answers(t, v)' \subseteq Answers(t, v)
<1> DEFINE S == Ans
<1>1. toSvr \in Queues(S)
    BY DEF Typed
<1> HIDE DEF S
<1>2. /\ toSvr' \in Queues(S)
      /\ Head(toSvr[s][u]) \in S /\ Head(toSvr[s][u]) \in Range(toSvr[s][u])
      /\ \A t \in Svr, v \in Uid : Range(toSvr'[t][v]) \subseteq Range(toSvr[t][v])
    BY <1>1, Taking
<1> QED BY <1>2 DEF Answers, Queues, S

\* A request is lost.
LEMMA LosingRequest ==
    ASSUME Typed, NEW s \in Svr, NEW u \in Uid, NEW i \in 1 .. Len(toDb[s][u]),
           toDb' = Lost(toDb, s, u, i)
    PROVE  /\ toDb' \in Queues(GetReq \cup SaveReq)
           /\ \A t \in Svr, v \in Uid : Requests(t, v)' \subseteq Requests(t, v)
<1> DEFINE S == GetReq \cup SaveReq
<1>1. toDb \in Queues(S)
    BY DEF Typed
<1> HIDE DEF S
<1>2. /\ toDb' \in Queues(S)
      /\ \A t \in Svr, v \in Uid : Range(toDb'[t][v]) \subseteq Range(toDb[t][v])
    BY <1>1, Losing
<1> QED BY <1>2 DEF Requests, Queues, S

\* An answer is lost.
LEMMA LosingAnswer ==
    ASSUME Typed, NEW s \in Svr, NEW u \in Uid, NEW i \in 1 .. Len(toSvr[s][u]),
           toSvr' = Lost(toSvr, s, u, i)
    PROVE  /\ toSvr' \in Queues(Ans)
           /\ \A t \in Svr, v \in Uid : Answers(t, v)' \subseteq Answers(t, v)
<1> DEFINE S == Ans
<1>1. toSvr \in Queues(S)
    BY DEF Typed
<1> HIDE DEF S
<1>2. /\ toSvr' \in Queues(S)
      /\ \A t \in Svr, v \in Uid : Range(toSvr'[t][v]) \subseteq Range(toSvr[t][v])
    BY <1>1, Losing
<1> QED BY <1>2 DEF Answers, Queues, S

-----------------------------------------------------------------------------
(* What a save that is accepted does to the rows.                          *)

\* The fields of a row.
LEMMA RowFields == \A r \in Row : r.ver \in Nat /\ r.blob \in SUBSET Work
    BY DEF Row

\* The key a save is accepted for has the version before it, in the cache or
\* else in the row, if there is one.
LEMMA Accepted ==
    ASSUME Typed, NEW u \in Uid, NEW m \in SaveReq, CheckVersion(u, m, "none") = OK
    PROVE  \A k \in Key :
             /\ cache[u][k] # 0 => m.datas[k].ver - 1 = cache[u][k]
             /\ cache[u][k] = 0 => row[u][k].ver = 0 \/ m.datas[k].ver - 1 = row[u][k].ver
<1>1. DOMAIN m.datas = Key
    BY DEF SaveReq
<1>2. /\ CheckKey(u, "base", m.datas["base"], FALSE) = OK
      /\ CheckKey(u, "money", m.datas["money"], FALSE) = OK
    BY <1>1 DEF CheckVersion, Key
<1>3. ASSUME NEW k \in Key, NEW d \in Row, CheckKey(u, k, d, FALSE) = OK
      PROVE  /\ cache[u][k] # 0 => d.ver - 1 = cache[u][k]
             /\ cache[u][k] = 0 => row[u][k].ver = 0 \/ d.ver - 1 = row[u][k].ver
    <2>1. cache[u][k] \in Nat /\ row[u][k] \in Row
        BY DEF Typed, TypeOK
    <2>2. row[u][k].ver \in Nat /\ d.ver \in Nat
        BY <2>1, RowFields
    <2>3. ASSUME cache[u][k] # 0 PROVE d.ver - 1 = cache[u][k]
        BY <1>3, <2>1, <2>2, <2>3 DEF CheckKey, OK, VER_DIFFER
    <2>4. ASSUME cache[u][k] = 0 PROVE row[u][k].ver = 0 \/ d.ver - 1 = row[u][k].ver
        BY <1>3, <2>1, <2>2, <2>4 DEF CheckKey, OK, VER_DIFFER
    <2> QED BY <2>3, <2>4
<1>4. \A k \in Key : m.datas[k] \in Row /\ CheckKey(u, k, m.datas[k], FALSE) = OK
    BY <1>2 DEF Key, SaveReq
<1> QED BY <1>3, <1>4

\* How the rows of player u may change.
RowStep(u) ==
    /\ \A k \in Key : row[u][k].ver <= row'[u][k].ver
    /\ row[u]["base"].ver > 0 => row'[u]["money"].blob = row[u]["money"].blob
    /\ Reliable' => \/ row'[u]["base"] = row[u]["base"]
                    \/ row'[u]["base"].ver = row[u]["base"].ver + 1

\* What is claimed of data read earlier, and of saves under way, survives it.
LEMMA ClaimsSurvive ==
    ASSUME NEW u \in Uid, RowStep(u), row \in [Uid -> [Key -> Row]], row' \in [Uid -> [Key -> Row]],
           seen \subseteq seen'
    PROVE  /\ \A d : ReadFrom(u, d) => ReadFrom(u, d)'
           /\ \A m \in SaveReq : SaveOk(u, m) => SaveOk(u, m)'
<1> DEFINE old == row[u]
           new == row'[u]
<1>1. /\ old \in [Key -> Row] /\ new \in [Key -> Row]
      /\ \A k \in Key : old[k].ver \in Nat /\ new[k].ver \in Nat /\ old[k].ver <= new[k].ver
    BY DEF RowStep, Row
<1>2. old["base"].ver > 0 => new["money"].blob = old["money"].blob
    BY DEF RowStep
<1>3. Reliable' => Reliable /\ (new["base"] = old["base"] \/ new["base"].ver = old["base"].ver + 1)
    BY DEF RowStep, Reliable
<1>4. "base" \in Key /\ "money" \in Key
    BY DEF Key
<1>5. ASSUME NEW d, ReadFrom(u, d) PROVE ReadFrom(u, d)'
    <2>1. d \in [Key -> Row] /\ \A k \in Key : d[k].ver \in Nat /\ d[k].ver <= old[k].ver
        BY <1>5 DEF ReadFrom, Row
    <2>2. /\ d["base"].ver = 0 <=> d["base"].blob = {}
          /\ d["base"].ver > 0 => d["money"].blob = old["money"].blob
          /\ Reliable /\ d["base"].ver = old["base"].ver => d["base"].blob = old["base"].blob
        BY <1>5 DEF ReadFrom
    <2> HIDE DEF old, new
    <2>3. \A k \in Key : d[k].ver <= new[k].ver
        BY <1>1, <2>1
    <2>4. d["base"].ver > 0 => d["money"].blob = new["money"].blob
        BY <1>1, <1>2, <1>4, <2>1, <2>2
    <2>5. Reliable' /\ d["base"].ver = new["base"].ver => d["base"].blob = new["base"].blob
        BY <1>1, <1>3, <1>4, <2>1, <2>2
    <2> QED BY <2>1, <2>2, <2>3, <2>4, <2>5 DEF ReadFrom, new
<1>6. ASSUME NEW m \in SaveReq, SaveOk(u, m) PROVE SaveOk(u, m)'
    <2> DEFINE d == m.datas
    <2>1. d \in [Key -> Row] /\ \A k \in Key : d[k].ver \in Nat /\ 1 <= d[k].ver /\ d[k].ver <= old[k].ver + 1
        BY <1>6 DEF SaveOk, Row, SaveReq
    <2>2. /\ m.w \in d["base"].blob
          /\ d["base"].ver = 1 => m.w \in d["money"].blob
          /\ d["base"].ver > 1 => d["money"].blob = old["money"].blob /\ "money" \notin m.changed
          /\ Reliable /\ d["base"].ver = old["base"].ver + 1 => old["base"].blob \subseteq d["base"].blob
        BY <1>6 DEF SaveOk
    <2> HIDE DEF old, new, d
    <2>3. \A k \in Key : 1 <= d[k].ver /\ d[k].ver <= new[k].ver + 1
        BY <1>1, <2>1
    <2>4. d["base"].ver > 1 => d["money"].blob = new["money"].blob /\ "money" \notin m.changed
        BY <1>1, <1>2, <1>4, <2>1, <2>2
    <2>5. Reliable' /\ d["base"].ver = new["base"].ver + 1 => new["base"].blob \subseteq d["base"].blob
        BY <1>1, <1>3, <1>4, <2>1, <2>2
    <2> QED BY <2>2, <2>3, <2>4, <2>5 DEF SaveOk, new, d
<1> QED BY <1>5, <1>6

\* An accepted save, complete or broken off between two keys, makes a step that
\* all the claims survive: the lock in one place.
LEMMA Storing ==
    ASSUME Typed, RowShape, CacheIsRow, CacheLag,
           NEW u \in Uid, NEW m \in SaveReq, SaveOk(u, m), CheckVersion(u, m, "none") = OK,
           NEW done \in Stored(m), row' = Replaced(u, m, done), seen \subseteq seen'
    PROVE  /\ row' \in [Uid -> [Key -> Row]] /\ RowShape'
           /\ \A v \in Uid \ {u} : row'[v] = row[v]
           /\ \A k \in Key : row'[u][k] = IF k \in done THEN m.datas[k] ELSE row[u][k]
           /\ \A v \in Uid : RowStep(v)
           /\ \A v \in Uid : row[v]["money"].blob # {} => row'[v]["money"].blob = row[v]["money"].blob
           /\ Reliable => NextVersion /\ \A v \in Uid : row[v]["base"].blob \subseteq row'[v]["base"].blob
           /\ done \in {{}, Key} =>
                \A v \in Uid : (row[v]["base"].blob # {} => row[v]["money"].blob # {}) =>
                               (row'[v]["base"].blob # {} => row'[v]["money"].blob # {})
<1> DEFINE d == m.datas
           old == row[u]
           new == row'[u]
<1>1. d \in [Key -> Row] /\ DOMAIN d = Key /\ "base" \in Key /\ "money" \in Key /\ Key = {"base", "money"}
    BY DEF SaveReq, Key
<1>2. done \in SUBSET Key /\ ("money" \in done => "base" \in done)
    BY <1>1 DEF Stored
<1>3. row \in [Uid -> [Key -> Row]] /\ cache \in [Uid -> [Key -> Nat]]
    BY DEF Typed, TypeOK
<1>4. row' = [row EXCEPT ![u] = [k \in Key |-> IF k \in done THEN d[k] ELSE row[u][k]]]
    BY <1>3 DEF Replaced
<1>5. /\ \A v \in Uid \ {u} : row'[v] = row[v]
      /\ \A k \in Key : new[k] = IF k \in done THEN d[k] ELSE old[k]
      /\ row' \in [Uid -> [Key -> Row]] /\ new \in [Key -> Row] /\ old \in [Key -> Row]
    BY <1>1, <1>2, <1>3, <1>4
<1>6. \A k \in Key : old[k].ver \in Nat /\ new[k].ver \in Nat /\ d[k].ver \in Nat /\ cache[u][k] \in Nat
    BY <1>1, <1>3, <1>5, RowFields
<1>7. \A k \in Key : /\ cache[u][k] # 0 => d[k].ver - 1 = cache[u][k]
                     /\ cache[u][k] = 0 => old[k].ver = 0 \/ d[k].ver - 1 = old[k].ver
    BY Accepted
<1>8. /\ \A k \in Key : 1 <= d[k].ver /\ d[k].ver <= old[k].ver + 1
      /\ m.w \in d["base"].blob
      /\ d["base"].ver = 1 => m.w \in d["money"].blob
      /\ d["base"].ver > 1 => d["money"].blob = old["money"].blob
      /\ Reliable /\ d["base"].ver = old["base"].ver + 1 => old["base"].blob \subseteq d["base"].blob
    BY DEF SaveOk
<1>9. \A k \in Key : cache[u][k] # 0 =>
          /\ old[k].ver - cache[u][k] \in {0, 1}
          /\ Reliable => cache[u][k] = old[k].ver
    BY DEF CacheLag, CacheIsRow
<1>10. /\ old["base"].ver = 0 <=> old["base"].blob = {}
       /\ old["base"].ver = 0 => old["money"].blob = {}
    BY DEF RowShape
<1> HIDE DEF d, old, new
<1>11. \A k \in Key : old[k].ver <= d[k].ver /\ (Reliable => d[k].ver = old[k].ver + 1)
    BY <1>6, <1>7, <1>8, <1>9
<1>12. old["base"].ver > 0 => d["money"].blob = old["money"].blob
    BY <1>1, <1>6, <1>7, <1>8
<1>13. \A k \in Key : old[k].ver <= new[k].ver
    BY <1>5, <1>6, <1>11
<1>14. old["base"].ver > 0 => new["money"].blob = old["money"].blob
    BY <1>1, <1>5, <1>12
<1>15. Reliable => \A k \in Key : new[k] = old[k] \/ new[k].ver = old[k].ver + 1
    BY <1>5, <1>11
<1>16. Reliable' => Reliable
    BY DEF Reliable
<1>17. \A v \in Uid : RowStep(v)
    <2>1. RowStep(u)
        BY <1>1, <1>13, <1>14, <1>15, <1>16 DEF RowStep, old, new
    <2>2. ASSUME NEW v \in Uid \ {u} PROVE RowStep(v)
        <3>1. \A k \in Key : row[v][k].ver \in Nat
            BY <1>3, RowFields
        <3> QED BY <1>5, <3>1 DEF RowStep
    <2> QED BY <2>1, <2>2
<1>18. RowShape'
    <2>1. "base" \in done => new["base"].ver # 0 /\ new["base"].blob # {}
        BY <1>1, <1>5, <1>6, <1>8
    <2>2. "base" \notin done => new["base"] = old["base"] /\ new["money"] = old["money"]
        BY <1>1, <1>2, <1>5
    <2>3. /\ new["base"].ver = 0 <=> new["base"].blob = {}
          /\ new["base"].ver = 0 => new["money"].blob = {}
        BY <1>10, <2>1, <2>2
    <2> QED BY <1>5, <2>3 DEF RowShape, new
<1>19. \A v \in Uid : row[v]["money"].blob # {} => row'[v]["money"].blob = row[v]["money"].blob
    <2>1. old["money"].blob # {} => new["money"].blob = old["money"].blob
        BY <1>1, <1>6, <1>10, <1>14
    <2> QED BY <1>5, <2>1 DEF old, new
<1>20. Reliable => NextVersion
    BY <1>5, <1>15 DEF NextVersion, old, new
<1>21. Reliable => \A v \in Uid : row[v]["base"].blob \subseteq row'[v]["base"].blob
    <2>1. Reliable => old["base"].blob \subseteq new["base"].blob
        BY <1>1, <1>5, <1>8, <1>11
    <2> QED BY <1>5, <2>1 DEF old, new
<1>22. ASSUME done \in {{}, Key}, NEW v \in Uid, row[v]["base"].blob # {} => row[v]["money"].blob # {}
       PROVE  row'[v]["base"].blob # {} => row'[v]["money"].blob # {}
    <2>1. CASE v # u
        BY <1>5, <1>22, <2>1
    <2>2. CASE v = u /\ done = {}
        <3>1. new["base"] = old["base"] /\ new["money"] = old["money"]
            BY <1>1, <1>5, <2>2
        <3> QED BY <1>22, <2>2, <3>1 DEF old, new
    <2>3. CASE v = u /\ done = Key
        <3>1. new["money"] = d["money"]
            BY <1>1, <1>5, <2>3
        <3>2. CASE d["base"].ver = 1
            BY <1>8, <2>3, <3>1, <3>2 DEF new
        <3>3. CASE d["base"].ver # 1
            <4>1. d["base"].ver > 1 /\ old["base"].ver > 0
                BY <1>1, <1>6, <1>8, <3>3
            <4>2. old["base"].blob # {} /\ d["money"].blob = old["money"].blob
                BY <1>10, <1>12, <4>1
            <4> QED BY <1>22, <2>3, <3>1, <4>2 DEF new, old
        <3> QED BY <3>2, <3>3
    <2> QED BY <1>22, <2>1, <2>2, <2>3
<1> QED BY <1>5, <1>17, <1>18, <1>19, <1>20, <1>21, <1>22 DEF d, old, new

-----------------------------------------------------------------------------
(* What the steps have in common.                                          *)

\* A step that stores nothing leaves everything that is said about the rows.
LEMMA NothingStored ==
    ASSUME IInv, UNCHANGED <<row, committed>>, cache' \in {cache, NoCache}, seen \subseteq seen'
    PROVE  /\ RowShape' /\ CacheIsRow' /\ CacheLag' /\ RegisteredHasMoney' /\ NoLostUpdate'
           /\ \A u \in Uid : RowStep(u)
<1>1. RowShape' /\ CacheLag'
    BY DEF IInv, RowShape, CacheLag, NoCache
<1>2. Reliable' => Reliable
    BY DEF Reliable
<1>3. CacheIsRow' /\ NoLostUpdate'
    BY <1>2 DEF IInv, CacheIsRow, NoLostUpdate, NoCache
<1>4. RegisteredHasMoney'
    BY DEF IInv, RegisteredHasMoney
<1>5. ASSUME NEW u \in Uid PROVE RowStep(u)
    <2>1. \A k \in Key : row[u][k].ver \in Nat
        BY RowFields DEF IInv, Typed, TypeOK
    <2> QED BY <2>1 DEF RowStep
<1> QED BY <1>1, <1>3, <1>4, <1>5

\* The old messages are still right: it remains to look at the new ones.
LEMMA OldMessages ==
    ASSUME IInv, Typed', \A u \in Uid : RowStep(u), seen \subseteq seen', committed \subseteq committed',
           \A s \in Svr, u \in Uid : \A m \in Answers(s, u)' : m \in Answers(s, u) \/ AnswerOk(u, m)',
           \A s \in Svr, u \in Uid : \A m \in Requests(s, u)' :
               m \in Requests(s, u) \/ (m.kind = "save" => SaveOk(u, m)')
    PROVE  MessagesOk'
<1>1. row \in [Uid -> [Key -> Row]] /\ row' \in [Uid -> [Key -> Row]]
    BY DEF IInv, Typed, TypeOK
<1>2. ASSUME NEW s \in Svr, NEW u \in Uid, NEW m \in Answers(s, u)' PROVE AnswerOk(u, m)'
    <2>1. CASE m \in Answers(s, u)
        <3>1. AnswerOk(u, m)
            BY <2>1 DEF IInv, MessagesOk
        <3>2. ReadFrom(u, m.datas) => ReadFrom(u, m.datas)'
            BY <1>1, ClaimsSurvive
        <3> QED BY <3>1, <3>2 DEF AnswerOk
    <2> QED BY <1>2, <2>1
<1>3. ASSUME NEW s \in Svr, NEW u \in Uid, NEW m \in Requests(s, u)', m.kind = "save" PROVE SaveOk(u, m)'
    <2>1. CASE m \in Requests(s, u)
        <3>1. SaveOk(u, m)
            BY <1>3, <2>1 DEF IInv, MessagesOk
        <3>2. m \in SaveReq
            <4>1. toDb[s][u] \in Seq(GetReq \cup SaveReq)
                BY DEF IInv, Typed, Queues
            <4>2. m \in GetReq \cup SaveReq
                BY <2>1, <4>1, RangeOf DEF Requests
            <4> QED BY <1>3, <4>2 DEF GetReq
        <3> QED BY <1>1, <3>1, <3>2, ClaimsSurvive
    <2> QED BY <1>3, <2>1
<1> QED BY <1>2, <1>3 DEF MessagesOk

\* So is whose they are, as long as no session begins.
LEMMA OldOwners ==
    ASSUME IInv, seen \subseteq seen',
           \A s \in Svr : \A i \in DOMAIN sess'[s] : i \in DOMAIN sess[s] /\ sess'[s][i].w = sess[s][i].w,
           \A s \in Svr, u \in Uid : \A m \in Answers(s, u)' \cup Requests(s, u)' :
               \/ \E n \in Answers(s, u) \cup Requests(s, u) : n.sid = m.sid /\ n.w = m.w
               \/ Own(s, m)'
    PROVE  OwnMessages'
<1> SUFFICES ASSUME "reuse" \notin seen',
                    NEW s \in Svr, NEW u \in Uid, NEW m \in Answers(s, u)' \cup Requests(s, u)'
             PROVE  Own(s, m)'
    BY DEF OwnMessages
<1>1. CASE Own(s, m)'
    BY <1>1
<1>2. CASE \E n \in Answers(s, u) \cup Requests(s, u) : n.sid = m.sid /\ n.w = m.w
    <2>1. PICK n \in Answers(s, u) \cup Requests(s, u) : n.sid = m.sid /\ n.w = m.w
        BY <1>2
    <2>2. Own(s, n)
        BY DEF IInv, OwnMessages
    <2> QED BY <2>1, <2>2 DEF Own
<1> QED BY <1>1, <1>2

\* What has been acknowledged stays saved.
LEMMA OldAcks ==
    ASSUME IInv, acked' = acked, committed \subseteq committed', seen \subseteq seen'
    PROVE  OwnIdAckedIsSaved'
BY DEF IInv, OwnIdAckedIsSaved, AckedIsSaved

\* The bookkeeping of what goes wrong.
LEMMA Troubles ==
    ASSUME left \in Int, NEW what, NEW marks, Calm \/ Happens(what, marks)
    PROVE  left' \in Int /\ seen \subseteq seen'
BY DEF Calm, Happens

\* The initial state.
LEMMA Begins == ASSUME Init PROVE IInv
<1>1. \A u \in Uid, k \in Key : row[u][k] = NoRow /\ cache[u][k] = 0
    BY DEF Init, NoCache
<1>2. NoRow \in Row /\ NoRow.ver = 0 /\ NoRow.blob = {}
    BY DEF NoRow, Row
<1>3. \A s \in Svr : sess[s] = <<>> /\ DOMAIN sess[s] = {}
    BY DEF Init
<1>4. \A s \in Svr, u \in Uid : toDb[s][u] = <<>> /\ toSvr[s][u] = <<>>
    BY DEF Init
<1>5. TypeOK
    <2>1. row \in [Uid -> [Key -> Row]] /\ cache \in [Uid -> [Key -> Nat]] /\ curMax \in [Svr -> Nat]
        BY <1>2 DEF Init, NoCache
    <2> QED BY <1>3, <2>1 DEF Init, TypeOK
<1>6. Typed
    <2>1. toDb \in Queues(GetReq \cup SaveReq) /\ toSvr \in Queues(Ans)
        BY DEF Init, Queues
    <2>2. sess = [s \in Svr |-> sess[s]] /\ left \in Int
        BY DEF Init
    <2> QED BY <1>3, <1>5, <2>1, <2>2 DEF Typed
<1>7. \A s \in Svr, u \in Uid : Answers(s, u) = {} /\ Requests(s, u) = {}
    BY <1>4 DEF Answers, Requests, Range
<1>8. MessagesOk /\ OwnMessages
    BY <1>7 DEF MessagesOk, OwnMessages
<1>9. RowShape /\ CacheIsRow /\ CacheLag /\ RegisteredHasMoney
    BY <1>1, <1>2 DEF RowShape, CacheIsRow, CacheLag, RegisteredHasMoney, Key
<1>10. NoLostUpdate /\ OwnIdAckedIsSaved
    BY DEF Init, NoLostUpdate, OwnIdAckedIsSaved, AckedIsSaved
<1> QED BY <1>6, <1>8, <1>9, <1>10 DEF IInv

-----------------------------------------------------------------------------
(* The steps of a logic server.                                            *)

\* Releasing a session leaves the others as they are.
LEMMA Releasing ==
    ASSUME Typed, NEW s \in Svr, NEW sid, Release(s, sid)
    PROVE  /\ sess' = [t \in Svr |-> sess'[t]]
           /\ \A t \in Svr : \A i \in DOMAIN sess'[t] : i \in DOMAIN sess[t] /\ sess'[t][i] = sess[t][i]
<1> DEFINE r == [i \in DOMAIN sess[s] \ {sid} |-> sess[s][i]]
<1>1. sess' = [sess EXCEPT ![s] = r]
    BY DEF Release, Restrict, Typed
<1>2. DOMAIN sess = Svr
    BY DEF Typed
<1>3. sess'[s] = r /\ \A t \in Svr \ {s} : sess'[t] = sess[t]
    BY <1>1, <1>2
<1>4. sess' = [t \in Svr |-> sess'[t]]
    BY <1>1, <1>2
<1> QED BY <1>3, <1>4

\* So does one that begins to wait.
LEMMA Waiting ==
    ASSUME Typed, NEW s \in Svr, NEW sid \in Nat, NEW x, Wait(s, sid, x)
    PROVE  /\ sess' = [t \in Svr |-> sess'[t]] /\ \A t \in Svr : DOMAIN sess'[t] \subseteq Nat
           /\ \A t \in Svr : \A i \in DOMAIN sess'[t] :
                \/ t = s /\ i = sid /\ sess'[t][i] = x
                \/ (t # s \/ i # sid) /\ i \in DOMAIN sess[t] /\ sess'[t][i] = sess[t][i]
<1> DEFINE r == [i \in DOMAIN sess[s] \cup {sid} |-> IF i = sid THEN x ELSE sess[s][i]]
<1>1. sess' = [sess EXCEPT ![s] = r]
    BY DEF Wait, Typed
<1>2. DOMAIN sess = Svr /\ \A t \in Svr : DOMAIN sess[t] \subseteq Nat
    BY DEF Typed
<1>3. sess'[s] = r /\ \A t \in Svr \ {s} : sess'[t] = sess[t]
    BY <1>1, <1>2
<1>4. sess' = [t \in Svr |-> sess'[t]]
    BY <1>1, <1>2
<1>5. DOMAIN r = DOMAIN sess[s] \cup {sid} /\ \A i \in DOMAIN r : r[i] = IF i = sid THEN x ELSE sess[s][i]
    OBVIOUS
<1> HIDE DEF r
<1>6. ASSUME NEW t \in Svr, NEW i \in DOMAIN sess'[t]
      PROVE  \/ t = s /\ i = sid /\ sess'[t][i] = x
             \/ (t # s \/ i # sid) /\ i \in DOMAIN sess[t] /\ sess'[t][i] = sess[t][i]
    <2>1. CASE t = s
        BY <1>3, <1>5, <1>6, <2>1
    <2>2. CASE t # s
        BY <1>3, <1>6, <2>2
    <2> QED BY <2>1, <2>2
<1>7. \A t \in Svr : DOMAIN sess'[t] \subseteq Nat
    BY <1>2, <1>3, <1>5
<1> QED BY <1>4, <1>6, <1>7

\* OnClientMessage: a session that begins under an id nobody's messages bear.
LEMMA ClientStep ==
    ASSUME IInv, NEW s \in Svr, NEW u \in Uid, OnClientMessage(s, u)
    PROVE  IInv'
<1> DEFINE sid == curMax[s] + 1
           x == [w |-> born + 1, uid |-> u, state |-> "get", redo |-> 0]
           q == [kind |-> "get", sid |-> sid, w |-> born + 1]
<1>1. /\ Typed /\ curMax \in [Svr -> Nat] /\ born \in Nat /\ born + 1 \in Work /\ sid \in Nat
    <2>1. Typed /\ curMax \in [Svr -> Nat] /\ born \in 0 .. MaxSessions
        BY DEF IInv, Typed, TypeOK
    <2>2. born < MaxSessions
        BY DEF OnClientMessage
    <2> QED BY <2>1, <2>2 DEF Work
<1>2. /\ q \in GetReq \cup SaveReq /\ q.sid = sid /\ q.w = born + 1 /\ q.kind = "get"
      /\ x \in [w : Work, uid : Uid, state : {"get", "save"}, redo : 0 .. MaxRedo - 1] /\ x.w = born + 1
    BY <1>1 DEF GetReq
<1>3. Wait(s, sid, x) /\ SendToDb(s, u, q) /\ curMax' = [curMax EXCEPT ![s] = sid]
    BY DEF OnClientMessage
<1>4. seen' = seen \cup (IF UnderWay(s, sid) THEN {"reuse"} ELSE {})
    BY DEF OnClientMessage
<1>5. born' = born + 1 /\ UNCHANGED <<row, cache, toSvr, left, committed, acked>>
    BY DEF OnClientMessage
<1> HIDE DEF sid, x, q
<1>6. /\ toDb' \in Queues(GetReq \cup SaveReq)
      /\ \A t \in Svr, v \in Uid : \A m \in Requests(t, v)' :
            m \in Requests(t, v) \/ (t = s /\ v = u /\ m = q)
    BY <1>1, <1>2, <1>3, Asking DEF SendToDb, Sent
<1>7. /\ sess' = [t \in Svr |-> sess'[t]] /\ \A t \in Svr : DOMAIN sess'[t] \subseteq Nat
      /\ \A t \in Svr : \A i \in DOMAIN sess'[t] :
            \/ t = s /\ i = sid /\ sess'[t][i] = x
            \/ (t # s \/ i # sid) /\ i \in DOMAIN sess[t] /\ sess'[t][i] = sess[t][i]
    BY <1>1, <1>3, Waiting
<1>8. Typed'
    <2> DEFINE Session == [w : Work, uid : Uid, state : {"get", "save"}, redo : 0 .. MaxRedo - 1]
    <2>1. \A t \in Svr : \A i \in DOMAIN sess'[t] : sess'[t][i] \in Session
        <3>1. x \in Session /\ \A t \in Svr : \A i \in DOMAIN sess[t] : sess[t][i] \in Session
            BY <1>1, <1>2 DEF Typed, TypeOK
        <3> HIDE DEF Session
        <3> QED BY <1>7, <3>1
    <2>2. curMax' \in [Svr -> Nat] /\ born' \in 0 .. MaxSessions
        BY <1>1, <1>3, <1>5 DEF Work
    <2>3. TypeOK'
        BY <1>1, <1>5, <2>1, <2>2 DEF Typed, TypeOK
    <2> QED BY <1>1, <1>5, <1>6, <1>7, <2>3 DEF Typed
<1>9. seen \subseteq seen'
    BY <1>4
<1>10. /\ RowShape' /\ CacheIsRow' /\ CacheLag' /\ RegisteredHasMoney' /\ NoLostUpdate'
       /\ \A v \in Uid : RowStep(v)
    BY <1>5, <1>9, NothingStored
<1>11. \A t \in Svr, v \in Uid : Answers(t, v)' = Answers(t, v)
    BY <1>5 DEF Answers
<1>12. MessagesOk'
    <2>1. \A t \in Svr, v \in Uid : \A m \in Requests(t, v)' :
              m \in Requests(t, v) \/ (m.kind = "save" => SaveOk(v, m)')
        BY <1>2, <1>6
    <2> QED BY <1>5, <1>8, <1>9, <1>10, <1>11, <2>1, OldMessages
<1>13. OwnMessages'
    <2> SUFFICES ASSUME "reuse" \notin seen', NEW t \in Svr, NEW v \in Uid,
                        NEW m \in Answers(t, v)' \cup Requests(t, v)'
                 PROVE  Own(t, m)'
        BY DEF OwnMessages
    <2>1. ~UnderWay(s, sid) /\ "reuse" \notin seen
        BY <1>4
    <2>2. CASE t = s /\ v = u /\ m = q
        <3>1. \A i \in DOMAIN sess'[s] : i = sid => sess'[s][i] = x
            BY <1>7
        <3> QED BY <1>2, <2>2, <3>1 DEF Own
    <2>3. CASE m \in Answers(t, v) \cup Requests(t, v)
        <3>1. Own(t, m)
            BY <2>1, <2>3 DEF IInv, OwnMessages
        <3>2. t = s => m.sid # sid
            <4> SUFFICES ASSUME t = s, m.sid = sid PROVE FALSE
                OBVIOUS
            <4>1. toDb[s][v] \in Seq(GetReq \cup SaveReq) /\ toSvr[s][v] \in Seq(Ans)
                BY <1>1 DEF Typed, Queues
            <4>2. CASE m \in Answers(s, v)
                <5>1. PICK i \in 1 .. Len(toSvr[s][v]) : toSvr[s][v][i] = m
                    BY <4>1, <4>2, RangeOf DEF Answers
                <5>2. i \in DOMAIN toSvr[s][v]
                    BY <4>1, <5>1
                <5> QED BY <2>1, <5>1, <5>2 DEF UnderWay
            <4>3. CASE m \in Requests(s, v)
                <5>1. PICK i \in 1 .. Len(toDb[s][v]) : toDb[s][v][i] = m
                    BY <4>1, <4>3, RangeOf DEF Requests
                <5>2. i \in DOMAIN toDb[s][v]
                    BY <4>1, <5>1
                <5> QED BY <2>1, <5>1, <5>2 DEF UnderWay
            <4> QED BY <2>3, <4>2, <4>3
        <3>3. m.sid \in DOMAIN sess'[t] => m.sid \in DOMAIN sess[t] /\ sess'[t][m.sid] = sess[t][m.sid]
            BY <1>7, <3>2
        <3> QED BY <3>1, <3>3 DEF Own
    <2> QED BY <1>6, <1>11, <2>2, <2>3
<1>14. OwnIdAckedIsSaved'
    BY <1>5, <1>9, OldAcks
<1> QED BY <1>8, <1>10, <1>12, <1>13, <1>14 DEF IInv

\* The version that is sent with a blob.
LEMMA NextOne ==
    ASSUME NEW r \in Row
    PROVE  AddSaveData(r) \in Row /\ AddSaveData(r).ver = r.ver + 1 /\ AddSaveData(r).blob = r.blob
BY DEF AddSaveData, Row

\* The save that a session makes out of an answer keeps its promises: it was
\* read from the rows, or there was nothing to read and the player is made anew.
LEMMA Saving ==
    ASSUME Typed, RowShape, NEW u \in Uid, NEW datas, datas = <<>> \/ ReadFrom(u, datas),
           NEW sid \in Nat, NEW w \in Work
    PROVE  LET m == SaveRequest(sid, w, CopyFrom(datas))
           IN m \in SaveReq /\ m.kind = "save" /\ m.sid = sid /\ m.w = w /\ SaveOk(u, m)
<1> DEFINE c == CopyFrom(datas)
           p == c.player
           old == row[u]
<1>1. "base" \in Key /\ "money" \in Key /\ Key = {"base", "money"} /\ old \in [Key -> Row]
    BY DEF Key, Typed, TypeOK
<1>2. NoRow \in Row /\ NoRow.ver = 0 /\ NoRow.blob = {}
    BY DEF NoRow, Row
<1>3. p = [k \in Key |-> IF k \in DOMAIN datas THEN datas[k] ELSE NoRow] /\ c.upd = DOMAIN datas
    BY DEF CopyFrom
<1>4. /\ p \in [Key -> Row] /\ \A k \in Key : p[k].ver <= old[k].ver
      /\ p["base"].ver = 0 <=> p["base"].blob = {}
      /\ p["base"].ver > 0 => p["money"].blob = old["money"].blob
      /\ Reliable /\ p["base"].ver = old["base"].ver => p["base"].blob = old["base"].blob
      /\ c.upd \cup Changed(p) = Key
    <2>1. CASE datas = <<>>
        <3>1. p \in [Key -> Row] /\ \A k \in Key : p[k] = NoRow
            BY <1>2, <1>3, <2>1
        <3>2. \A k \in Key : old[k].ver \in Nat
            BY <1>1, RowFields
        <3>3. Changed(p) = Key
            BY <1>1, <1>2, <3>1 DEF Changed
        <3>4. c.upd = {}
            BY <1>3, <2>1
        <3>5. old["base"].ver = 0 => old["base"].blob = {}
            BY DEF RowShape
        <3> HIDE DEF p, c, old
        <3>6. /\ \A k \in Key : p[k].ver <= old[k].ver
              /\ p["base"].ver = 0 /\ p["base"].blob = {}
            BY <1>1, <1>2, <3>1, <3>2
        <3> QED BY <3>1, <3>3, <3>4, <3>5, <3>6
    <2>2. CASE ReadFrom(u, datas)
        <3>1. datas \in [Key -> Row]
            BY <2>2 DEF ReadFrom
        <3>2. p = datas /\ c.upd = Key
            BY <1>3, <3>1
        <3>3. Changed(p) \subseteq Key
            BY <1>1 DEF Changed
        <3> QED BY <2>2, <3>1, <3>2, <3>3 DEF ReadFrom
    <2> QED BY <2>1, <2>2
<1> DEFINE base == [p["base"] EXCEPT !.blob = @ \cup {w}]
           money == IF p["base"].blob = {} THEN [p["money"] EXCEPT !.blob = {w}] ELSE p["money"]
           d == [k \in Key |-> AddSaveData(IF k = "base" THEN base ELSE money)]
           m == SaveRequest(sid, w, c)
<1> HIDE DEF p, old
<1>5. m = [kind |-> "save", sid |-> sid, w |-> w, changed |-> Changed(p), datas |-> d]
    <2> DEFINE done == OnProcessData(c, w)
    <2>1. done = [player |-> [k \in Key |-> IF k = "base" THEN base ELSE money], upd |-> c.upd \cup Changed(p)]
        BY DEF OnProcessData, p
    <2>2. done.upd = Key /\ done.player = [k \in Key |-> IF k = "base" THEN base ELSE money]
        BY <1>4, <2>1
    <2> HIDE DEF done
    <2>3. [k \in done.upd |-> AddSaveData(done.player[k])] = d
        BY <2>2
    <2> QED BY <2>3 DEF SaveRequest, done, p
<1>6. /\ p["base"] \in Row /\ p["money"] \in Row
      /\ p["base"].ver \in Nat /\ p["money"].ver \in Nat /\ old["base"].ver \in Nat /\ old["money"].ver \in Nat
    BY <1>1, <1>4, RowFields
<1>7. /\ d["base"] \in Row /\ d["base"].ver = p["base"].ver + 1 /\ d["base"].blob = p["base"].blob \cup {w}
    <2>1. base \in Row /\ base.ver = p["base"].ver /\ base.blob = p["base"].blob \cup {w}
        BY <1>6 DEF Row
    <2> HIDE DEF base
    <2>2. d["base"] = AddSaveData(base)
        BY <1>1
    <2> HIDE DEF d
    <2> QED BY <2>1, <2>2, NextOne
<1>8. /\ d["money"] \in Row /\ d["money"].ver = p["money"].ver + 1
      /\ d["money"].blob = IF p["base"].blob = {} THEN {w} ELSE p["money"].blob
    <2>1. money \in Row /\ money.ver = p["money"].ver
        BY <1>6 DEF Row
    <2>2. money.blob = IF p["base"].blob = {} THEN {w} ELSE p["money"].blob
        BY <1>6 DEF Row
    <2> HIDE DEF money
    <2>3. d["money"] = AddSaveData(money)
        BY <1>1
    <2> HIDE DEF d
    <2> QED BY <2>1, <2>2, <2>3, NextOne
<1>9. d \in [Key -> Row]
    <2>1. d = [k \in Key |-> d[k]]
        OBVIOUS
    <2> HIDE DEF d
    <2> QED BY <1>1, <1>7, <1>8, <2>1
<1> HIDE DEF d, base, money, c
<1>10. /\ m \in SaveReq /\ m.kind = "save" /\ m.sid = sid /\ m.w = w /\ m.datas = d /\ m.changed = Changed(p)
    <2>1. Changed(p) \in SUBSET Key
        BY <1>1 DEF Changed
    <2> QED BY <1>5, <1>9, <2>1 DEF SaveReq
<1>11. SaveOk(u, m)
    <2>1. \A k \in Key : 1 <= d[k].ver /\ d[k].ver <= old[k].ver + 1
        BY <1>1, <1>4, <1>6, <1>7, <1>8
    <2>2. w \in d["base"].blob
        BY <1>7
    <2>3. d["base"].ver = 1 => w \in d["money"].blob
        BY <1>4, <1>6, <1>7, <1>8
    <2>4. d["base"].ver > 1 => d["money"].blob = old["money"].blob /\ "money" \notin Changed(p)
        BY <1>4, <1>6, <1>7, <1>8 DEF Changed
    <2>5. Reliable /\ d["base"].ver = old["base"].ver + 1 => old["base"].blob \subseteq d["base"].blob
        BY <1>4, <1>6, <1>7
    <2> HIDE DEF m
    <2> QED BY <1>10, <2>1, <2>2, <2>3, <2>4, <2>5 DEF SaveOk, old
<1> QED BY <1>10, <1>11 DEF m, c

\* What a session record holds.
Session == [w : Work, uid : Uid, state : {"get", "save"}, redo : 0 .. MaxRedo - 1]

\* The fields of a session, and of one that saves again.
LEMMA SessionFields ==
    ASSUME NEW x \in Session
    PROVE  /\ x.w \in Work /\ x.redo \in Nat
           /\ \A n \in 0 .. MaxRedo - 1 :
                /\ [x EXCEPT !.state = "save", !.redo = n] \in Session
                /\ [x EXCEPT !.state = "save", !.redo = n].w = x.w
<1>1. x.w \in Work /\ x.redo \in Nat
    BY DEF Session
<1>2. ASSUME NEW n \in 0 .. MaxRedo - 1
      PROVE  /\ [x EXCEPT !.state = "save", !.redo = n] \in Session
             /\ [x EXCEPT !.state = "save", !.redo = n].w = x.w
    BY DEF Session
<1> QED BY <1>1, <1>2

\* OnServerMessage: an answer is dropped, ends its session, or makes it save.
LEMMA AnswerStep ==
    ASSUME IInv, NEW s \in Svr, NEW u \in Uid, OnServerMessage(s, u)
    PROVE  IInv'
<1> DEFINE m == Head(toSvr[s][u])
           x == sess[s][m.sid]
<1>1. Typed /\ UNCHANGED <<row, cache, curMax, left, seen, born, committed>>
    BY DEF IInv, OnServerMessage
<1>2. toSvr[s][u] # <<>> /\ toSvr' = Taken(toSvr, s, u)
    BY DEF OnServerMessage, Taken
<1>3. /\ \/ m.sid \notin DOMAIN sess[s] /\ UNCHANGED <<sess, toDb, acked>>
         \/ m.sid \in DOMAIN sess[s] /\ x.state = "get" /\ GetResponse(s, u, m)
         \/ m.sid \in DOMAIN sess[s] /\ x.state = "save" /\ SaveResponse(s, u, m)
    BY DEF OnServerMessage
<1>4. /\ toSvr' \in Queues(Ans) /\ m \in Ans /\ m \in Answers(s, u)
      /\ \A t \in Svr, v \in Uid : Answers(t, v)' \subseteq Answers(t, v)
    BY <1>1, <1>2, TakingAnswer
<1>5. AnswerOk(u, m)
    BY <1>4 DEF IInv, MessagesOk
<1> HIDE DEF m
<1>6. \A t \in Svr : \A i \in DOMAIN sess[t] : sess[t][i] \in Session /\ i \in Nat
    BY <1>1 DEF Typed, TypeOK, Session
<1>7. /\ RowShape' /\ CacheIsRow' /\ CacheLag' /\ RegisteredHasMoney' /\ NoLostUpdate'
      /\ \A v \in Uid : RowStep(v)
    BY <1>1, NothingStored
<1>8. ASSUME sess' = [t \in Svr |-> sess'[t]],
             \A t \in Svr : \A i \in DOMAIN sess'[t] :
                 i \in DOMAIN sess[t] /\ sess'[t][i] \in Session /\ sess'[t][i].w = sess[t][i].w,
             toDb' \in Queues(GetReq \cup SaveReq),
             \A t \in Svr, v \in Uid : \A n \in Requests(t, v)' :
                 n \in Requests(t, v) \/ (SaveOk(v, n)' /\ Own(t, n)'),
             acked' \in SUBSET Work, OwnIdAckedIsSaved'
      PROVE  IInv'
    <2>1. \A t \in Svr : DOMAIN sess'[t] \subseteq Nat
        BY <1>6, <1>8
    <2>2. TypeOK'
        BY <1>1, <1>8 DEF Typed, TypeOK, Session
    <2>3. Typed'
        BY <1>1, <1>4, <1>8, <2>1, <2>2 DEF Typed
    <2>4. MessagesOk'
        BY <1>1, <1>4, <1>7, <1>8, <2>3, OldMessages
    <2>5. OwnMessages'
        <3>1. \A t \in Svr, v \in Uid : \A n \in Answers(t, v)' \cup Requests(t, v)' :
                  \/ \E o \in Answers(t, v) \cup Requests(t, v) : o.sid = n.sid /\ o.w = n.w
                  \/ Own(t, n)'
            BY <1>4, <1>8
        <3> QED BY <1>1, <1>8, <3>1, OldOwners
    <2> QED BY <1>7, <1>8, <2>3, <2>4, <2>5 DEF IInv
<1>9. acked \in SUBSET Work /\ toDb \in Queues(GetReq \cup SaveReq)
    BY <1>1 DEF Typed, TypeOK
<1>10. UNCHANGED toDb => \A t \in Svr, v \in Uid : Requests(t, v)' = Requests(t, v)
    BY DEF Requests
<1>11. acked' = acked => OwnIdAckedIsSaved'
    BY <1>1, OldAcks
<1>12. CASE UNCHANGED <<sess, toDb, acked>>
    <2>1. sess' = [t \in Svr |-> sess'[t]]
        BY <1>1, <1>12 DEF Typed
    <2> QED BY <1>6, <1>8, <1>9, <1>10, <1>11, <1>12, <2>1
<1>13. Release(s, m.sid) =>
            /\ sess' = [t \in Svr |-> sess'[t]]
            /\ \A t \in Svr : \A i \in DOMAIN sess'[t] :
                  i \in DOMAIN sess[t] /\ sess'[t][i] \in Session /\ sess'[t][i].w = sess[t][i].w
    BY <1>1, <1>6, Releasing
<1>14. CASE Fail(s, m)
    BY <1>8, <1>9, <1>10, <1>11, <1>13, <1>14 DEF Fail
<1>15. ASSUME m.sid \in DOMAIN sess[s], NEW n \in 0 .. MaxRedo - 1, Redo(s, u, m, n),
              m.datas = <<>> \/ ReadFrom(u, m.datas)
       PROVE  IInv'
    <2> DEFINE q == SaveRequest(m.sid, x.w, CopyFrom(m.datas))
               y == [x EXCEPT !.state = "save", !.redo = n]
    <2>1. x \in Session /\ m.sid \in Nat /\ x.w \in Work /\ y \in Session /\ y.w = x.w
        BY <1>6, <1>15, SessionFields
    <2>2. Wait(s, m.sid, y) /\ SendToDb(s, u, q) /\ acked' = acked
        BY <1>15 DEF Redo
    <2>3. q \in SaveReq /\ q.kind = "save" /\ q.sid = m.sid /\ q.w = x.w /\ SaveOk(u, q)
        <3>1. RowShape
            BY DEF IInv
        <3> HIDE DEF x
        <3> QED BY <1>1, <1>15, <2>1, <3>1, Saving
    <2> HIDE DEF q, y
    <2>4. /\ sess' = [t \in Svr |-> sess'[t]]
          /\ \A t \in Svr : \A i \in DOMAIN sess'[t] :
                \/ t = s /\ i = m.sid /\ sess'[t][i] = y
                \/ (t # s \/ i # m.sid) /\ i \in DOMAIN sess[t] /\ sess'[t][i] = sess[t][i]
        BY <1>1, <2>1, <2>2, Waiting
    <2>5. \A t \in Svr : \A i \in DOMAIN sess'[t] :
                 i \in DOMAIN sess[t] /\ sess'[t][i] \in Session /\ sess'[t][i].w = sess[t][i].w
        BY <1>6, <1>15, <2>1, <2>4
    <2>6. q \in GetReq \cup SaveReq /\ toDb' = Sent(toDb, s, u, q)
        BY <2>2, <2>3 DEF SendToDb, Sent
    <2>7. /\ toDb' \in Queues(GetReq \cup SaveReq)
          /\ \A t \in Svr, v \in Uid : \A o \in Requests(t, v)' :
                o \in Requests(t, v) \/ (t = s /\ v = u /\ o = q)
        BY <1>1, <2>6, Asking
    <2>8. ASSUME NEW o, o = q PROVE SaveOk(u, o)' /\ Own(s, o)'
        <3>1. SaveOk(u, o) /\ o.sid = m.sid /\ o.w = x.w
            BY <2>3, <2>8
        <3>2. SaveOk(u, o)'
            BY <1>1, <3>1 DEF SaveOk, Reliable
        <3>3. o.sid \in DOMAIN sess'[s] => sess'[s][o.sid].w = x.w
            BY <2>5, <3>1
        <3> QED BY <3>1, <3>2, <3>3 DEF Own
    <2> QED BY <1>8, <1>9, <1>11, <2>2, <2>4, <2>5, <2>7, <2>8
<1>16. ASSUME m.sid \in DOMAIN sess[s], m.kind = "save", m.result = OK,
              acked' = acked \cup {x.w}, Release(s, m.sid), UNCHANGED toDb
       PROVE  IInv'
    <2>1. x.w \in Work
        BY <1>6, <1>16, SessionFields
    <2>2. ASSUME "reuse" \notin seen' PROVE AckedIsSaved'
        <3>1. AckedIsSaved
            BY <1>1, <2>2 DEF IInv, OwnIdAckedIsSaved
        <3>2. m.w = x.w
            BY <1>1, <1>4, <1>16, <2>2 DEF IInv, OwnMessages, Own
        <3>3. \E o \in committed : o.w = x.w
            BY <1>5, <1>16, <3>2 DEF AnswerOk
        <3> QED BY <1>1, <1>16, <3>1, <3>3 DEF AckedIsSaved
    <2>3. OwnIdAckedIsSaved'
        BY <2>2 DEF OwnIdAckedIsSaved
    <2> QED BY <1>8, <1>9, <1>10, <1>13, <1>16, <2>1, <2>3
<1>17. CASE m.sid \in DOMAIN sess[s] /\ GetResponse(s, u, m)
    <2>1. CASE m.kind = "get" /\ m.result = OK /\ x.uid = u
        <3>1. Redo(s, u, m, 0) /\ 0 \in 0 .. MaxRedo - 1
            BY <1>17, <2>1 DEF GetResponse
        <3>2. ReadFrom(u, m.datas)
            BY <1>5, <2>1 DEF AnswerOk
        <3> QED BY <1>15, <1>17, <3>1, <3>2
    <2>2. CASE ~(m.kind = "get" /\ m.result = OK /\ x.uid = u)
        BY <1>14, <1>17, <2>2 DEF GetResponse
    <2> QED BY <2>1, <2>2
<1>18. CASE m.sid \in DOMAIN sess[s] /\ SaveResponse(s, u, m)
    <2> DEFINE result == IF m.kind = "save" THEN m.result ELSE 0
               again == x.redo + 1 < MaxRedo /\ x.uid = u
    <2>1. \/ result = OK /\ acked' = acked \cup {x.w} /\ Release(s, m.sid) /\ UNCHANGED toDb
          \/ result = VER_DIFFER /\ again /\ Redo(s, u, m, x.redo + 1)
          \/ Fail(s, m)
        BY <1>18 DEF SaveResponse
    <2>2. CASE result = OK /\ acked' = acked \cup {x.w} /\ Release(s, m.sid) /\ UNCHANGED toDb
        <3>1. m.kind = "save" /\ m.result = OK
            BY <2>2 DEF OK
        <3> QED BY <1>16, <1>18, <2>2, <3>1
    <2>3. CASE result = VER_DIFFER /\ again /\ Redo(s, u, m, x.redo + 1)
        <3>1. m.kind = "save" /\ m.result = VER_DIFFER
            BY <2>3 DEF VER_DIFFER
        <3>2. m.datas = <<>> \/ ReadFrom(u, m.datas)
            BY <1>5, <3>1 DEF AnswerOk
        <3>3. x.redo \in Nat
            BY <1>6, <1>18, SessionFields
        <3>4. x.redo + 1 \in 0 .. MaxRedo - 1
            BY <2>3, <3>3
        <3> QED BY <1>15, <1>18, <2>3, <3>2, <3>4
    <2> QED BY <1>14, <2>1, <2>2, <2>3
<1> QED BY <1>3, <1>12, <1>17, <1>18

\* CheckTimeOut, a restart that loses the sessions, and one that keeps them.
LEMMA LogicStep ==
    ASSUME IInv, NEW s \in Svr,
           (\E sid \in 1 .. MaxSessions : CheckTimeOut(s, sid)) \/ SvrCrash(s) \/ HotUpdate(s)
    PROVE  IInv'
<1>1. Typed /\ UNCHANGED <<row, cache, toDb, toSvr, born, committed, acked>>
    BY DEF IInv, CheckTimeOut, SvrCrash, HotUpdate
<1>2. left' \in Int /\ seen \subseteq seen'
    <2>1. left \in Int
        BY <1>1 DEF Typed
    <2>2. Happens("timeout", {}) \/ Happens("restart", {})
        BY DEF CheckTimeOut, SvrCrash, HotUpdate
    <2> QED BY <2>1, <2>2, Troubles
<1>3. /\ sess' = [t \in Svr |-> sess'[t]]
      /\ \A t \in Svr : \A i \in DOMAIN sess'[t] : i \in DOMAIN sess[t] /\ sess'[t][i] = sess[t][i]
    <2>1. CASE \E sid \in 1 .. MaxSessions : CheckTimeOut(s, sid)
        BY <1>1, <2>1, Releasing DEF CheckTimeOut
    <2>2. CASE SvrCrash(s)
        <3>1. sess = [t \in Svr |-> sess[t]] /\ sess' = [sess EXCEPT ![s] = <<>>]
            BY <1>1, <2>2 DEF Typed, SvrCrash
        <3>2. DOMAIN sess'[s] = {} /\ \A t \in Svr \ {s} : sess'[t] = sess[t]
            BY <3>1
        <3>3. sess' = [t \in Svr |-> sess'[t]]
            BY <3>1
        <3> QED BY <3>2, <3>3
    <2>3. CASE HotUpdate(s)
        BY <1>1, <2>3 DEF Typed, HotUpdate
    <2> QED BY <2>1, <2>2, <2>3
<1>4. curMax' \in [Svr -> Nat]
    <2>1. curMax \in [Svr -> Nat] /\ DOMAIN sess[s] \subseteq Nat
        BY <1>1 DEF Typed, TypeOK
    <2>2. CASE HotUpdate(s)
        <3> DEFINE P(n) == n \in DOMAIN sess[s] \cup {0} /\ \A i \in DOMAIN sess[s] : i <= n
        <3>1. \A i \in DOMAIN sess[s] : i < curMax[s]
            BY <2>2 DEF HotUpdate
        <3>2. \E n \in DOMAIN sess[s] \cup {0} : \A i \in DOMAIN sess[s] \cup {0} : i <= n
            <4> DEFINE D == DOMAIN sess[s] \cup {0}
            <4>1. D \in SUBSET Nat /\ D # {} /\ curMax[s] \in Nat /\ \A i \in D : i <= curMax[s]
                BY <2>1, <3>1
            <4> HIDE DEF D
            <4>2. \E n \in D : \A i \in D : i <= n
                BY <4>1, HasLargest
            <4> QED BY <4>2 DEF D
        <3>3. \E n \in 0 .. curMax[s] : P(n)
            <4>1. PICK n \in DOMAIN sess[s] \cup {0} : \A i \in DOMAIN sess[s] \cup {0} : i <= n
                BY <3>2
            <4>2. n \in 0 .. curMax[s]
                BY <2>1, <3>1
            <4> QED BY <4>1, <4>2
        <3> HIDE DEF P
        <3> DEFINE c == CHOOSE n \in 0 .. curMax[s] : P(n)
        <3>4. c \in 0 .. curMax[s]
            BY <3>3
        <3>5. curMax' = [curMax EXCEPT ![s] = c]
            BY <2>1, <2>2 DEF HotUpdate, P
        <3> HIDE DEF c
        <3> QED BY <2>1, <3>4, <3>5
    <2>3. CASE SvrCrash(s)
        BY <2>1, <2>3 DEF SvrCrash
    <2>4. CASE \E sid \in 1 .. MaxSessions : CheckTimeOut(s, sid)
        BY <2>1, <2>4 DEF CheckTimeOut
    <2> QED BY <2>2, <2>3, <2>4
<1>5. Typed'
    <2>1. TypeOK'
        BY <1>1, <1>3, <1>4 DEF Typed, TypeOK
    <2>2. \A t \in Svr : DOMAIN sess'[t] \subseteq Nat
        BY <1>1, <1>3 DEF Typed
    <2> QED BY <1>1, <1>2, <1>3, <2>1, <2>2 DEF Typed
<1>6. /\ RowShape' /\ CacheIsRow' /\ CacheLag' /\ RegisteredHasMoney' /\ NoLostUpdate'
      /\ \A v \in Uid : RowStep(v)
    BY <1>1, <1>2, NothingStored
<1>7. \A t \in Svr, v \in Uid : Answers(t, v)' = Answers(t, v) /\ Requests(t, v)' = Requests(t, v)
    BY <1>1 DEF Answers, Requests
<1>8. MessagesOk'
    BY <1>1, <1>2, <1>5, <1>6, <1>7, OldMessages
<1>9. OwnMessages'
    BY <1>2, <1>3, <1>7, OldOwners
<1>10. OwnIdAckedIsSaved'
    BY <1>1, <1>2, OldAcks
<1> QED BY <1>5, <1>6, <1>8, <1>9, <1>10 DEF IInv

\* Lose: fewer messages, the same claims.
LEMMA LossStep ==
    ASSUME IInv, NEW s \in Svr, NEW u \in Uid, Lose(s, u)
    PROVE  IInv'
<1>1. Typed /\ UNCHANGED <<row, cache, sess, curMax, born, committed, acked>>
    BY DEF IInv, Lose
<1>2. left' \in Int /\ seen \subseteq seen'
    BY <1>1, Troubles DEF Lose, Typed
<1>3. /\ toDb' \in Queues(GetReq \cup SaveReq) /\ toSvr' \in Queues(Ans)
      /\ \A t \in Svr, v \in Uid : Answers(t, v)' \subseteq Answers(t, v) /\ Requests(t, v)' \subseteq Requests(t, v)
    <2>1. toDb \in Queues(GetReq \cup SaveReq) /\ toSvr \in Queues(Ans)
        BY <1>1 DEF Typed
    <2>2. CASE UNCHANGED toSvr /\ \E i \in 1 .. Len(toDb[s][u]) : toDb' = Lost(toDb, s, u, i)
        <3>1. \A t \in Svr, v \in Uid : Answers(t, v)' = Answers(t, v)
            BY <2>2 DEF Answers
        <3>2. /\ toDb' \in Queues(GetReq \cup SaveReq)
              /\ \A t \in Svr, v \in Uid : Requests(t, v)' \subseteq Requests(t, v)
            BY <1>1, <2>2, LosingRequest
        <3> QED BY <2>1, <2>2, <3>1, <3>2
    <2>3. CASE UNCHANGED toDb /\ \E i \in 1 .. Len(toSvr[s][u]) : toSvr' = Lost(toSvr, s, u, i)
        <3>1. \A t \in Svr, v \in Uid : Requests(t, v)' = Requests(t, v)
            BY <2>3 DEF Requests
        <3>2. /\ toSvr' \in Queues(Ans)
              /\ \A t \in Svr, v \in Uid : Answers(t, v)' \subseteq Answers(t, v)
            BY <1>1, <2>3, LosingAnswer
        <3> QED BY <2>1, <2>3, <3>1, <3>2
    <2>4. \/ UNCHANGED toSvr /\ \E i \in 1 .. Len(toDb[s][u]) : toDb' = Lost(toDb, s, u, i)
          \/ UNCHANGED toDb /\ \E i \in 1 .. Len(toSvr[s][u]) : toSvr' = Lost(toSvr, s, u, i)
        BY DEF Lose, Lost
    <2> QED BY <2>2, <2>3, <2>4
<1>4. Typed'
    <2>1. TypeOK'
        BY <1>1 DEF Typed, TypeOK
    <2> QED BY <1>1, <1>2, <1>3, <2>1 DEF Typed
<1>5. /\ RowShape' /\ CacheIsRow' /\ CacheLag' /\ RegisteredHasMoney' /\ NoLostUpdate'
      /\ \A v \in Uid : RowStep(v)
    BY <1>1, <1>2, NothingStored
<1>6. MessagesOk'
    BY <1>1, <1>2, <1>3, <1>4, <1>5, OldMessages
<1>7. OwnMessages'
    BY <1>1, <1>2, <1>3, OldOwners
<1>8. OwnIdAckedIsSaved'
    BY <1>1, <1>2, OldAcks
<1> QED BY <1>4, <1>5, <1>6, <1>7, <1>8 DEF IInv

-----------------------------------------------------------------------------
(* The steps of dbproxy.                                                   *)

\* Sets of keys are what an answer can have.
LEMMA EmptyDatas == <<>> \in Datas /\ [Key -> Row] \subseteq Datas
<1>1. <<>> \in [{} -> Row] /\ {} \in SUBSET Key /\ Key \in SUBSET Key
    OBVIOUS
<1> QED BY <1>1 DEF Datas

\* Answer: the request is taken and its answer is on the way.
IsReply(n, m, result, datas) ==
    n.kind = m.kind /\ n.sid = m.sid /\ n.w = m.w /\ n.result = result /\ n.datas = datas
\* What an answer does to the two queues.
LEMMA Replying ==
    ASSUME Typed, NEW s \in Svr, NEW u \in Uid, toDb[s][u] # <<>>,
           NEW result \in {OK, ERROR, VER_DIFFER}, NEW datas \in Datas,
           Answer(s, u, Head(toDb[s][u]), result, datas)
    PROVE  LET m == Head(toDb[s][u])
           IN /\ toDb' \in Queues(GetReq \cup SaveReq) /\ toSvr' \in Queues(Ans)
              /\ m \in GetReq \cup SaveReq /\ m \in Requests(s, u)
              /\ \A t \in Svr, v \in Uid : Requests(t, v)' \subseteq Requests(t, v)
              /\ \A n \in Answers(s, u)' : n \in Answers(s, u) \/ IsReply(n, m, result, datas)
              /\ \A t \in Svr, v \in Uid : t # s \/ v # u => Answers(t, v)' \subseteq Answers(t, v)
<1> DEFINE m == Head(toDb[s][u])
           a == [kind |-> m.kind, sid |-> m.sid, w |-> m.w, result |-> result, datas |-> datas]
<1>1. toDb' = Taken(toDb, s, u) /\ toSvr' = Sent(toSvr, s, u, a)
    BY DEF Answer, Taken, Sent
<1>2. /\ toDb' \in Queues(GetReq \cup SaveReq) /\ m \in GetReq \cup SaveReq /\ m \in Requests(s, u)
      /\ \A t \in Svr, v \in Uid : Requests(t, v)' \subseteq Requests(t, v)
    BY <1>1, TakingRequest
<1> HIDE DEF m
<1>3. m.kind \in {"get", "save"} /\ m.sid \in Nat /\ m.w \in Work
    BY <1>2 DEF GetReq, SaveReq
<1>4. /\ a \in Ans /\ a.kind = m.kind /\ a.sid = m.sid /\ a.w = m.w /\ a.result = result /\ a.datas = datas
    BY <1>3 DEF Ans
<1> HIDE DEF a
<1>5. /\ toSvr' \in Queues(Ans)
      /\ \A t \in Svr, v \in Uid : \A n \in Answers(t, v)' : n \in Answers(t, v) \/ (t = s /\ v = u /\ n = a)
    BY <1>1, <1>4, Answering
<1>6. \A n \in Answers(s, u)' : n \in Answers(s, u) \/ IsReply(n, m, result, datas)
    BY <1>4, <1>5 DEF IsReply
<1> QED BY <1>2, <1>5, <1>6 DEF m

\* It remains to look at what is stored and at the answer.
LEMMA Replied ==
    ASSUME IInv, NEW s \in Svr, NEW u \in Uid, toDb[s][u] # <<>>,
           NEW result \in {OK, ERROR, VER_DIFFER}, NEW datas \in Datas,
           Answer(s, u, Head(toDb[s][u]), result, datas),
           UNCHANGED <<sess, curMax, born, acked>>, left' \in Int,
           seen \subseteq seen', committed \subseteq committed',
           row' \in [Uid -> [Key -> Row]], cache' \in [Uid -> [Key -> Nat]],
           committed' \subseteq [w : Work, uid : Uid, changed : SUBSET Key],
           RowShape', CacheIsRow', CacheLag', RegisteredHasMoney', NoLostUpdate', \A v \in Uid : RowStep(v),
           \A n : IsReply(n, Head(toDb[s][u]), result, datas) => AnswerOk(u, n)'
    PROVE  IInv'
<1> DEFINE m == Head(toDb[s][u])
<1>1. Typed
    BY DEF IInv
<1>2. /\ toDb' \in Queues(GetReq \cup SaveReq) /\ toSvr' \in Queues(Ans) /\ m \in Requests(s, u)
      /\ \A t \in Svr, v \in Uid : Requests(t, v)' \subseteq Requests(t, v)
      /\ \A n \in Answers(s, u)' : n \in Answers(s, u) \/ IsReply(n, m, result, datas)
      /\ \A t \in Svr, v \in Uid : t # s \/ v # u => Answers(t, v)' \subseteq Answers(t, v)
    BY <1>1, Replying
<1>3. \A n : IsReply(n, m, result, datas) => AnswerOk(u, n)'
    OBVIOUS
<1> HIDE DEF m
<1>4. Typed'
    <2>1. TypeOK'
        BY <1>1 DEF Typed, TypeOK
    <2> QED BY <1>1, <1>2, <2>1 DEF Typed
<1>5. MessagesOk'
    <2>1. \A t \in Svr, v \in Uid : \A n \in Answers(t, v)' : n \in Answers(t, v) \/ AnswerOk(v, n)'
        BY <1>2, <1>3
    <2> QED BY <1>2, <1>4, <2>1, OldMessages
<1>6. OwnMessages'
    <2>1. ASSUME NEW t \in Svr, NEW v \in Uid, NEW n \in Answers(t, v)' \cup Requests(t, v)'
          PROVE  \E o \in Answers(t, v) \cup Requests(t, v) : o.sid = n.sid /\ o.w = n.w
        BY <1>2, <2>1 DEF IsReply
    <2> QED BY <2>1, OldOwners
<1>7. OwnIdAckedIsSaved'
    BY OldAcks
<1> QED BY <1>4, <1>5, <1>6, <1>7 DEF IInv

\* What the three ends of an accepted save do to the cache and to the record
\* of what was answered with OK: all stored, broken off, or dbproxy died.
StoreEnds(u, m, done) ==
    \/ /\ done = Key /\ cache' = SaveToCache(u, m)
       /\ committed' = committed \cup {[w |-> m.w, uid |-> u, changed |-> m.changed]}
    \/ UNCHANGED <<cache, committed>> /\ "fault" \in seen'
    \/ cache' = NoCache /\ committed' = committed

\* After each of them the rows, the cache and the record still agree.
LEMMA StoreKeeps ==
    ASSUME IInv, NEW u \in Uid, NEW m \in SaveReq, SaveOk(u, m), CheckVersion(u, m, "none") = OK,
           NEW done \in Stored(m), row' = Replaced(u, m, done), StoreEnds(u, m, done),
           seen \cup Half(m, done) \subseteq seen'
    PROVE  /\ row' \in [Uid -> [Key -> Row]] /\ cache' \in [Uid -> [Key -> Nat]]
           /\ committed \subseteq committed'
           /\ committed' \subseteq [w : Work, uid : Uid, changed : SUBSET Key]
           /\ RowShape' /\ CacheIsRow' /\ CacheLag' /\ RegisteredHasMoney' /\ NoLostUpdate'
           /\ \A v \in Uid : RowStep(v)
           /\ \A v \in Uid : row[v]["money"].blob # {} => row'[v]["money"].blob = row[v]["money"].blob
           /\ Reliable => NextVersion
<1> DEFINE d == m.datas
           Done == [w : Work, uid : Uid, changed : SUBSET Key]
           new == [w |-> m.w, uid |-> u, changed |-> m.changed]
<1>1. Typed /\ RowShape /\ CacheIsRow /\ CacheLag /\ RegisteredHasMoney /\ NoLostUpdate /\ seen \subseteq seen'
    BY DEF IInv
<1>2. /\ row' \in [Uid -> [Key -> Row]] /\ RowShape'
      /\ \A v \in Uid \ {u} : row'[v] = row[v]
      /\ \A k \in Key : row'[u][k] = IF k \in done THEN d[k] ELSE row[u][k]
      /\ \A v \in Uid : RowStep(v)
      /\ \A v \in Uid : row[v]["money"].blob # {} => row'[v]["money"].blob = row[v]["money"].blob
      /\ Reliable => NextVersion /\ \A v \in Uid : row[v]["base"].blob \subseteq row'[v]["base"].blob
      /\ done \in {{}, Key} =>
            \A v \in Uid : (row[v]["base"].blob # {} => row[v]["money"].blob # {}) =>
                           (row'[v]["base"].blob # {} => row'[v]["money"].blob # {})
    BY <1>1, Storing
<1>3. /\ d \in [Key -> Row] /\ DOMAIN d = Key /\ m.w \in Work /\ m.changed \in SUBSET Key
      /\ "base" \in Key /\ "money" \in Key /\ Key = {"base", "money"}
    BY DEF SaveReq, Key
<1>4. cache \in [Uid -> [Key -> Nat]] /\ row \in [Uid -> [Key -> Row]] /\ committed \subseteq Done
    BY <1>1 DEF Typed, TypeOK
<1>5. \A k \in Key : d[k].ver \in Nat
    BY <1>3, RowFields
<1>6. Reliable' => Reliable
    BY <1>1 DEF Reliable
<1>7. new \in Done /\ new.w = m.w /\ new.uid = u /\ new.changed = m.changed
    BY <1>3
<1> HIDE DEF d, Done, new
<1>8. /\ committed \subseteq committed' /\ committed' \subseteq Done
      /\ committed' = committed \/ (done = Key /\ committed' = committed \cup {new})
    BY <1>4, <1>7 DEF StoreEnds, new
<1>9. /\ cache' \in [Uid -> [Key -> Nat]]
      /\ \A v \in Uid \ {u} : cache'[v] = cache[v] \/ \A k \in Key : cache'[v][k] = 0
      /\ \/ done = Key /\ \A k \in Key : cache'[u][k] = d[k].ver
         \/ cache'[u] = cache[u] /\ "fault" \in seen'
         \/ \A k \in Key : cache'[u][k] = 0
    <2>1. CASE done = Key /\ cache' = SaveToCache(u, m)
        <3>1. cache' = [cache EXCEPT ![u] = [k \in Key |-> d[k].ver]]
            BY <1>3, <2>1 DEF SaveToCache, d
        <3> QED BY <1>4, <1>5, <2>1, <3>1
    <2>2. CASE cache' = cache /\ "fault" \in seen'
        BY <1>4, <2>2
    <2>3. CASE cache' = NoCache
        BY <2>3 DEF NoCache
    <2> QED BY <2>1, <2>2, <2>3 DEF StoreEnds
<1>10. \A k \in Key : cache[u][k] # 0 => d[k].ver - 1 = cache[u][k]
    BY <1>1, Accepted DEF d
<1>11. CacheLag' /\ CacheIsRow'
    <2>1. ASSUME NEW k \in Key, cache'[u][k] # 0
          PROVE  row'[u][k].ver - cache'[u][k] \in {0, 1} /\ (Reliable' => cache'[u][k] = row'[u][k].ver)
        <3>1. cache[u][k] \in Nat /\ row[u][k].ver \in Nat /\ d[k].ver \in Nat
            BY <1>4, <1>5, RowFields
        <3>2. CASE done = Key /\ cache'[u][k] = d[k].ver
            <4>1. row'[u][k] = d[k]
                BY <1>2, <3>2
            <4> QED BY <3>1, <3>2, <4>1
        <3>3. CASE cache'[u] = cache[u] /\ "fault" \in seen'
            <4>1. cache[u][k] # 0 /\ ~Reliable'
                BY <2>1, <3>3 DEF Reliable
            <4>2. row[u][k].ver - cache[u][k] \in {0, 1} /\ d[k].ver - 1 = cache[u][k]
                BY <1>1, <1>10, <4>1 DEF CacheLag
            <4>3. row'[u][k].ver = d[k].ver \/ row'[u][k].ver = row[u][k].ver
                BY <1>2
            <4> QED BY <3>1, <3>3, <4>1, <4>2, <4>3
        <3> QED BY <1>9, <2>1, <3>2, <3>3
    <2>2. ASSUME NEW v \in Uid \ {u}, NEW k \in Key, cache'[v][k] # 0
          PROVE  row'[v][k].ver - cache'[v][k] \in {0, 1} /\ (Reliable' => cache'[v][k] = row'[v][k].ver)
        BY <1>1, <1>2, <1>6, <1>9, <2>2 DEF CacheLag, CacheIsRow
    <2>3. \A v \in Uid : v = u \/ v \in Uid \ {u}
        OBVIOUS
    <2>4. CacheLag'
        BY <2>1, <2>2, <2>3 DEF CacheLag
    <2>5. CacheIsRow'
        BY <2>1, <2>2, <2>3 DEF CacheIsRow
    <2> QED BY <2>4, <2>5
<1>12. RegisteredHasMoney'
    <2> SUFFICES ASSUME "half" \notin seen'
                 PROVE  \A v \in Uid : row'[v]["base"].blob # {} => row'[v]["money"].blob # {}
        BY DEF RegisteredHasMoney
    <2>1. "half" \notin seen /\ done \in {{}, Key}
        BY <1>1, <1>3 DEF Half, d
    <2>2. \A v \in Uid : row[v]["base"].blob # {} => row[v]["money"].blob # {}
        BY <1>1, <2>1 DEF RegisteredHasMoney
    <2> QED BY <1>2, <2>1, <2>2
<1>13. NoLostUpdate'
    <2> SUFFICES ASSUME Reliable', NEW x \in committed', NEW k \in x.changed
                 PROVE  x.w \in row'[x.uid][k].blob
        BY DEF NoLostUpdate
    <2>1. Reliable
        BY <1>6
    <2>2. x.uid \in Uid /\ k \in Key
        BY <1>8 DEF Done
    <2>3. CASE x \in committed
        <3>1. x.w \in row[x.uid][k].blob
            BY <1>1, <2>1, <2>3 DEF NoLostUpdate
        <3>2. CASE k = "base"
            BY <1>2, <2>1, <2>2, <3>1, <3>2
        <3>3. CASE k = "money"
            BY <1>2, <2>2, <3>1, <3>3
        <3> QED BY <1>3, <2>2, <3>2, <3>3
    <2>4. CASE done = Key /\ x = new
        <3>1. /\ m.w \in d["base"].blob /\ 1 <= d["base"].ver
              /\ d["base"].ver = 1 => m.w \in d["money"].blob
              /\ d["base"].ver > 1 => "money" \notin m.changed
            BY <1>3 DEF SaveOk, d
        <3>2. row'[u][k] = d[k]
            BY <1>2, <2>2, <2>4
        <3>3. CASE k = "base"
            BY <1>7, <2>4, <3>1, <3>2, <3>3
        <3>4. CASE k = "money"
            BY <1>3, <1>5, <1>7, <2>4, <3>1, <3>2, <3>4
        <3> QED BY <1>3, <2>2, <3>3, <3>4
    <2> QED BY <1>8, <2>3, <2>4
<1> QED BY <1>2, <1>8, <1>9, <1>11, <1>12, <1>13 DEF Done

\* The request at hand: what its queue says about it.
LEMMA AtHand ==
    ASSUME IInv, NEW s \in Svr, NEW u \in Uid, NEW kind, Asked(s, u, kind)
    PROVE  LET m == Head(toDb[s][u])
           IN /\ toDb[s][u] # <<>> /\ m.kind = kind /\ m \in Requests(s, u) /\ m \in GetReq \cup SaveReq
              /\ kind = "save" => m \in SaveReq /\ SaveOk(u, m)
<1> DEFINE m == Head(toDb[s][u])
<1>1. toDb[s][u] # <<>> /\ m.kind = kind /\ toDb[s][u] \in Seq(GetReq \cup SaveReq)
    BY DEF Asked, IInv, Typed, Queues
<1>2. m \in Range(toDb[s][u]) /\ m \in GetReq \cup SaveReq
    BY <1>1, RangeTail
<1> HIDE DEF m
<1>3. m \in Requests(s, u)
    BY <1>2 DEF Requests
<1>4. kind = "save" => m \in SaveReq
    BY <1>1, <1>2 DEF GetReq
<1>5. kind = "save" => SaveOk(u, m)
    BY <1>1, <1>3 DEF IInv, MessagesOk
<1> QED BY <1>1, <1>2, <1>3, <1>4, <1>5 DEF m

\* GetHandle, SaveCheckFails and SaveRefused store nothing.
LEMMA ReadStep ==
    ASSUME IInv, NEW s \in Svr, NEW u \in Uid, GetHandle(s, u) \/ SaveCheckFails(s, u) \/ SaveRefused(s, u)
    PROVE  IInv'
<1> DEFINE m == Head(toDb[s][u])
<1>1. Typed /\ UNCHANGED <<row, cache, sess, curMax, born, committed, acked>>
    BY DEF IInv, GetHandle, SaveCheckFails, SaveRefused
<1>2. left' \in Int /\ seen \subseteq seen'
    <2>1. left \in Int /\ (Calm \/ Happens("fault", {"fault"}))
        BY <1>1 DEF Typed, GetHandle, SaveCheckFails, SaveRefused
    <2> QED BY <2>1, Troubles
<1>3. toDb[s][u] # <<>>
    BY DEF GetHandle, SaveCheckFails, SaveRefused, Asked
<1>4. /\ RowShape' /\ CacheIsRow' /\ CacheLag' /\ RegisteredHasMoney' /\ NoLostUpdate'
      /\ \A v \in Uid : RowStep(v)
    BY <1>1, <1>2, NothingStored
<1>5. /\ row' \in [Uid -> [Key -> Row]] /\ cache' \in [Uid -> [Key -> Nat]]
      /\ committed' \subseteq [w : Work, uid : Uid, changed : SUBSET Key]
    BY <1>1 DEF Typed, TypeOK
<1>6. row[u] \in [Key -> Row] /\ row[u] \in Datas /\ ReadFrom(u, row[u])
    <2>1. row[u] \in [Key -> Row]
        BY <1>1 DEF Typed, TypeOK
    <2>2. \A k \in Key : row[u][k].ver \in Nat
        BY <2>1, RowFields
    <2>3. row[u]["base"].ver = 0 <=> row[u]["base"].blob = {}
        BY DEF IInv, RowShape
    <2> QED BY <2>1, <2>2, <2>3, EmptyDatas DEF ReadFrom
<1>7. \A d : ReadFrom(u, d) => ReadFrom(u, d)'
    BY <1>1, <1>2, <1>4, <1>5, ClaimsSurvive
<1>8. ASSUME NEW result \in {OK, ERROR, VER_DIFFER}, NEW datas \in Datas, Answer(s, u, m, result, datas),
             \A n : IsReply(n, m, result, datas) => AnswerOk(u, n)'
      PROVE  IInv'
    BY <1>1, <1>2, <1>3, <1>4, <1>5, <1>8, Replied
<1>9. ASSUME Answer(s, u, m, ERROR, <<>>) PROVE IInv'
    <2>1. \A n : IsReply(n, m, ERROR, <<>>) => AnswerOk(u, n)'
        BY DEF IsReply, AnswerOk, OK, ERROR, VER_DIFFER
    <2> HIDE DEF m
    <2> QED BY <1>8, <1>9, <2>1, EmptyDatas
<1>10. CASE GetHandle(s, u)
    <2>1. m.kind = "get"
        BY <1>10 DEF GetHandle, Asked
    <2>2. CASE Answer(s, u, m, OK, row[u])
        <3>1. ASSUME NEW n, IsReply(n, m, OK, row[u]) PROVE AnswerOk(u, n)'
            <4>1. n.kind = "get" /\ n.datas = row[u]
                BY <2>1, <3>1 DEF IsReply
            <4>2. ReadFrom(u, n.datas)'
                BY <1>6, <1>7, <4>1
            <4> QED BY <4>1, <4>2 DEF AnswerOk
        <3> HIDE DEF m
        <3> QED BY <1>6, <1>8, <2>2, <3>1
    <2> QED BY <1>9, <1>10, <2>2 DEF GetHandle
<1>11. CASE SaveCheckFails(s, u)
    BY <1>9, <1>11 DEF SaveCheckFails
<1>12. CASE SaveRefused(s, u)
    <2>1. m.kind = "save" /\ m \in SaveReq
        BY <1>12, AtHand DEF SaveRefused
    <2>2. DOMAIN m.datas = Key
        BY <2>1 DEF SaveReq
    <2>3. ASSUME NEW datas \in Datas, Answer(s, u, m, VER_DIFFER, datas), datas = <<>> \/ datas = row[u]
          PROVE  IInv'
        <3>1. ASSUME NEW n, IsReply(n, m, VER_DIFFER, datas) PROVE AnswerOk(u, n)'
            <4>1. n.kind = "save" /\ n.result = VER_DIFFER /\ n.datas = datas
                BY <2>1, <3>1 DEF IsReply
            <4>2. n.datas = <<>> \/ ReadFrom(u, n.datas)'
                BY <1>6, <1>7, <2>3, <4>1
            <4> QED BY <4>1, <4>2 DEF AnswerOk, OK, VER_DIFFER
        <3> HIDE DEF m
        <3> QED BY <1>8, <2>3, <3>1
    <2>4. Restrict(row[u], DOMAIN m.datas) = row[u]
        BY <1>6, <2>2 DEF Restrict
    <2>5. CASE Answer(s, u, m, VER_DIFFER, row[u])
        BY <1>6, <2>3, <2>5
    <2>6. CASE Answer(s, u, m, VER_DIFFER, <<>>)
        BY <2>3, <2>6, EmptyDatas
    <2> QED BY <1>12, <2>4, <2>5, <2>6 DEF SaveRefused
<1> QED BY <1>10, <1>11, <1>12

\* What an accepted save does to the money and the versions, whatever its end.
StoreOk ==
    /\ \A u \in Uid : row[u]["money"].blob # {} => row'[u]["money"].blob = row[u]["money"].blob
    /\ Reliable => NextVersion

\* SaveStored and SaveBroken.
LEMMA StoreStep ==
    ASSUME IInv, NEW s \in Svr, NEW u \in Uid, SaveStored(s, u) \/ SaveBroken(s, u)
    PROVE  IInv' /\ StoreOk
<1> DEFINE m == Head(toDb[s][u])
<1>1. Typed /\ UNCHANGED <<sess, curMax, born, acked>>
    BY DEF IInv, SaveStored, SaveBroken
<1>2. /\ toDb[s][u] # <<>> /\ m.kind = "save" /\ m \in SaveReq /\ SaveOk(u, m)
      /\ CheckVersion(u, m, "none") = OK
    BY AtHand DEF SaveStored, SaveBroken
<1>3. left \in Int /\ DOMAIN m.datas = Key /\ "base" \in Key /\ "money" \in Key
    BY <1>1, <1>2 DEF Typed, SaveReq, Key
<1>4. CASE SaveStored(s, u)
    <2>1. /\ row' = Replaced(u, m, Key) /\ cache' = SaveToCache(u, m)
          /\ committed' = committed \cup {[w |-> m.w, uid |-> u, changed |-> m.changed]}
          /\ Answer(s, u, m, OK, <<>>) /\ UNCHANGED <<left, seen>>
        BY <1>3, <1>4 DEF SaveStored
    <2> HIDE DEF m
    <2>2. Key \in Stored(m) /\ Half(m, Key) = {}
        BY <1>3 DEF Stored, Half
    <2>3. StoreEnds(u, m, Key)
        BY <2>1 DEF StoreEnds
    <2>4. /\ row' \in [Uid -> [Key -> Row]] /\ cache' \in [Uid -> [Key -> Nat]]
          /\ committed \subseteq committed'
          /\ committed' \subseteq [w : Work, uid : Uid, changed : SUBSET Key]
          /\ RowShape' /\ CacheIsRow' /\ CacheLag' /\ RegisteredHasMoney' /\ NoLostUpdate'
          /\ \A v \in Uid : RowStep(v)
          /\ StoreOk
        BY <1>2, <2>1, <2>2, <2>3, StoreKeeps DEF StoreOk
    <2>5. ASSUME NEW n, IsReply(n, m, OK, <<>>) PROVE AnswerOk(u, n)'
        <3>1. n.kind = "save" /\ n.result = OK /\ n.w = m.w
            BY <1>2, <2>5 DEF IsReply
        <3>2. \E x \in committed' : x.w = n.w
            <4> DEFINE x == [w |-> m.w, uid |-> u, changed |-> m.changed]
            <4>1. x.w = n.w /\ x \in committed'
                BY <2>1, <3>1
            <4> HIDE DEF x
            <4> QED BY <4>1
        <3> QED BY <3>1, <3>2 DEF AnswerOk, OK, VER_DIFFER
    <2>6. IInv'
        BY <1>1, <1>2, <1>3, <2>1, <2>4, <2>5, Replied, EmptyDatas DEF m
    <2> QED BY <2>4, <2>6
<1>5. CASE SaveBroken(s, u)
    <2>1. PICK done \in Stored(m) : /\ Happens("fault", {"fault"} \cup Half(m, done))
                                    /\ row' = Replaced(u, m, done)
        BY <1>5 DEF SaveBroken
    <2>2. UNCHANGED <<cache, committed>> /\ Answer(s, u, m, ERROR, <<>>)
        BY <1>5 DEF SaveBroken
    <2> HIDE DEF m
    <2>3. left' \in Int /\ seen \cup Half(m, done) \subseteq seen' /\ "fault" \in seen' /\ seen \subseteq seen'
        BY <1>3, <2>1 DEF Happens
    <2>4. StoreEnds(u, m, done)
        BY <2>2, <2>3 DEF StoreEnds
    <2>5. /\ row' \in [Uid -> [Key -> Row]] /\ cache' \in [Uid -> [Key -> Nat]]
          /\ committed \subseteq committed'
          /\ committed' \subseteq [w : Work, uid : Uid, changed : SUBSET Key]
          /\ RowShape' /\ CacheIsRow' /\ CacheLag' /\ RegisteredHasMoney' /\ NoLostUpdate'
          /\ \A v \in Uid : RowStep(v)
          /\ StoreOk
        BY <1>2, <2>1, <2>3, <2>4, StoreKeeps DEF StoreOk
    <2>6. \A n : IsReply(n, m, ERROR, <<>>) => AnswerOk(u, n)'
        BY DEF IsReply, AnswerOk, OK, ERROR, VER_DIFFER
    <2>7. IInv'
        BY <1>1, <1>2, <2>2, <2>3, <2>5, <2>6, Replied, EmptyDatas DEF m
    <2> QED BY <2>5, <2>7
<1> QED BY <1>4, <1>5

\* DbCrash: no answer, and an empty cache.
LEMMA DbCrashStep ==
    ASSUME IInv, NEW s \in Svr, NEW u \in Uid, DbCrash(s, u)
    PROVE  IInv' /\ StoreOk
<1> DEFINE m == Head(toDb[s][u])
<1>1. Typed /\ UNCHANGED <<sess, curMax, toSvr, born, committed, acked>>
    BY DEF IInv, DbCrash
<1>2. /\ toDb[s][u] # <<>> /\ m \in SaveReq /\ SaveOk(u, m) /\ CheckVersion(u, m, "none") = OK
    BY AtHand DEF DbCrash
<1>3. PICK done \in Stored(m) : Happens("crash", Half(m, done)) /\ row' = Replaced(u, m, done)
    BY DEF DbCrash
<1>4. cache' = NoCache /\ toDb' = Taken(toDb, s, u)
    BY DEF DbCrash, Taken
<1> HIDE DEF m
<1>5. left' \in Int /\ seen \cup Half(m, done) \subseteq seen' /\ seen \subseteq seen'
    BY <1>1, <1>3 DEF Happens, Typed
<1>6. StoreEnds(u, m, done)
    BY <1>1, <1>4 DEF StoreEnds
<1>7. /\ row' \in [Uid -> [Key -> Row]] /\ cache' \in [Uid -> [Key -> Nat]]
      /\ committed \subseteq committed'
      /\ committed' \subseteq [w : Work, uid : Uid, changed : SUBSET Key]
      /\ RowShape' /\ CacheIsRow' /\ CacheLag' /\ RegisteredHasMoney' /\ NoLostUpdate'
      /\ \A v \in Uid : RowStep(v)
      /\ StoreOk
    BY <1>2, <1>3, <1>5, <1>6, StoreKeeps DEF StoreOk
<1>8. /\ toDb' \in Queues(GetReq \cup SaveReq)
      /\ \A t \in Svr, v \in Uid : Requests(t, v)' \subseteq Requests(t, v)
    BY <1>1, <1>2, <1>4, TakingRequest
<1>9. \A t \in Svr, v \in Uid : Answers(t, v)' = Answers(t, v)
    BY <1>1 DEF Answers
<1>10. Typed'
    <2>1. TypeOK'
        BY <1>1, <1>7 DEF Typed, TypeOK
    <2> QED BY <1>1, <1>5, <1>8, <2>1 DEF Typed
<1>11. MessagesOk'
    BY <1>5, <1>7, <1>8, <1>9, <1>10, OldMessages
<1>12. OwnMessages'
    BY <1>1, <1>5, <1>8, <1>9, OldOwners
<1>13. OwnIdAckedIsSaved'
    BY <1>1, <1>5, OldAcks
<1> QED BY <1>7, <1>10, <1>11, <1>12, <1>13 DEF IInv

\* DbRestart: only the cache is lost.
LEMMA DbRestartStep ==
    ASSUME IInv, DbRestart
    PROVE  IInv'
<1>1. Typed /\ UNCHANGED <<row, sess, curMax, toDb, toSvr, born, committed, acked>> /\ cache' = NoCache
    BY DEF IInv, DbRestart
<1>2. left' \in Int /\ seen \subseteq seen'
    BY <1>1 DEF DbRestart, Happens, Typed
<1>3. /\ RowShape' /\ CacheIsRow' /\ CacheLag' /\ RegisteredHasMoney' /\ NoLostUpdate'
      /\ \A v \in Uid : RowStep(v)
    BY <1>1, <1>2, NothingStored
<1>4. /\ \A t \in Svr, v \in Uid : Answers(t, v)' = Answers(t, v)
      /\ \A t \in Svr, v \in Uid : Requests(t, v)' = Requests(t, v)
    BY <1>1 DEF Answers, Requests
<1>5. Typed'
    <2>1. NoCache \in [Uid -> [Key -> Nat]]
        BY DEF NoCache
    <2>2. TypeOK'
        BY <1>1, <2>1 DEF Typed, TypeOK
    <2> QED BY <1>1, <1>2, <2>2 DEF Typed
<1>6. MessagesOk'
    BY <1>1, <1>2, <1>3, <1>4, <1>5, OldMessages
<1>7. OwnMessages' /\ OwnIdAckedIsSaved'
    BY <1>1, <1>2, <1>4, OldOwners, OldAcks
<1> QED BY <1>3, <1>5, <1>6, <1>7 DEF IInv

-----------------------------------------------------------------------------
(* The results.                                                            *)

\* Steps that store nothing.
LEMMA NoStoreIsOk == ASSUME row' = row PROVE StoreOk
    BY DEF StoreOk, NextVersion

\* Every step keeps the invariant and stores as it should.
LEMMA Keeps == ASSUME IInv, [Next]_vars PROVE IInv' /\ StoreOk
<1>1. CASE UNCHANGED vars
    <2>1. /\ TypeOK' /\ Typed' /\ RowShape' /\ CacheIsRow' /\ CacheLag' /\ RegisteredHasMoney' /\ NoLostUpdate'
        BY <1>1 DEF vars, IInv, Typed, TypeOK, RowShape, CacheIsRow, CacheLag, RegisteredHasMoney,
                    NoLostUpdate, Reliable
    <2>2. \A s \in Svr, u \in Uid : Answers(s, u)' = Answers(s, u) /\ Requests(s, u)' = Requests(s, u)
        BY <1>1 DEF vars, Answers, Requests
    <2>3. row' = row /\ seen' = seen /\ committed' = committed /\ sess' = sess /\ acked' = acked /\ cache' = cache
        BY <1>1 DEF vars
    <2>4. MessagesOk'
        BY <2>1, <2>2, <2>3, OldMessages, NothingStored
    <2>5. OwnMessages' /\ OwnIdAckedIsSaved'
        BY <2>2, <2>3, OldOwners, OldAcks
    <2> QED BY <2>1, <2>3, <2>4, <2>5, NoStoreIsOk DEF IInv
<1>2. ASSUME NEW s \in Svr, NEW u \in Uid, OnClientMessage(s, u) PROVE IInv' /\ StoreOk
    BY <1>2, ClientStep, NoStoreIsOk DEF OnClientMessage
<1>3. ASSUME NEW s \in Svr, NEW u \in Uid, OnServerMessage(s, u) PROVE IInv' /\ StoreOk
    BY <1>3, AnswerStep, NoStoreIsOk DEF OnServerMessage
<1>4. ASSUME NEW s \in Svr, NEW u \in Uid, GetHandle(s, u) \/ SaveCheckFails(s, u) \/ SaveRefused(s, u)
      PROVE  IInv' /\ StoreOk
    BY <1>4, ReadStep, NoStoreIsOk DEF GetHandle, SaveCheckFails, SaveRefused
<1>5. ASSUME NEW s \in Svr, NEW u \in Uid, SaveStored(s, u) \/ SaveBroken(s, u) PROVE IInv' /\ StoreOk
    BY <1>5, StoreStep
<1>6. ASSUME NEW s \in Svr, NEW u \in Uid, DbCrash(s, u) PROVE IInv' /\ StoreOk
    BY <1>6, DbCrashStep
<1>7. ASSUME NEW s \in Svr, NEW u \in Uid, Lose(s, u) PROVE IInv' /\ StoreOk
    BY <1>7, LossStep, NoStoreIsOk DEF Lose
<1>8. ASSUME NEW s \in Svr, (\E sid \in 1 .. MaxSessions : CheckTimeOut(s, sid)) \/ SvrCrash(s) \/ HotUpdate(s)
      PROVE  IInv' /\ StoreOk
    BY <1>8, LogicStep, NoStoreIsOk DEF CheckTimeOut, SvrCrash, HotUpdate
<1>9. ASSUME DbRestart PROVE IInv' /\ StoreOk
    BY <1>9, DbRestartStep, NoStoreIsOk DEF DbRestart
<1> QED BY <1>1, <1>2, <1>3, <1>4, <1>5, <1>6, <1>7, <1>8, <1>9 DEF Next

\* The invariant holds, and every step stores as it should.
LEMMA Invariant == Spec => [](IInv) /\ [][StoreOk]_vars
<1>1. Init => IInv
    BY Begins
<1>2. IInv /\ [Next]_vars => IInv'
    BY Keeps
<1>3. IInv /\ [Next]_vars => [StoreOk]_vars
    BY Keeps
<1> QED BY <1>1, <1>2, <1>3, PTL DEF Spec

\* Every variable keeps its type; in particular no work is redone MaxRedo times.
THEOREM SaveTypes == Spec => []TypeOK
<1>1. IInv => TypeOK
    BY DEF IInv, Typed
<1> QED BY <1>1, Invariant, PTL

\* The optimistic lock of dbproxy (handles.cpp:175-239) loses no update that was
\* answered with OK, as long as no MySQL statement fails.
THEOREM NoUpdateIsLost == Spec => []NoLostUpdate
<1>1. IInv => NoLostUpdate
    BY DEF IInv
<1> QED BY <1>1, Invariant, PTL

\* A registered player has money, unless a save stopped between the keys
\* (handles.cpp:253).
THEOREM RegistrationIsWhole == Spec => []RegisteredHasMoney
<1>1. IInv => RegisteredHasMoney
    BY DEF IInv
<1> QED BY <1>1, Invariant, PTL

\* The version cache is at most one version behind the row and never ahead
\* (handles.cpp:157-164), whatever fails.
THEOREM CacheStaysClose == Spec => []CacheLag
<1>1. IInv => CacheLag
    BY DEF IInv
<1> QED BY <1>1, Invariant, PTL

\* A client is told that all went well only after its own save was stored
\* (msg_handler_basic.cpp:133-137), unless an id was given again too early.
THEOREM AckMeansSaved == Spec => []OwnIdAckedIsSaved
<1>1. IInv => OwnIdAckedIsSaved
    BY DEF IInv
<1> QED BY <1>1, Invariant, PTL

\* Money that was given is never given anew or taken by a later login, whatever
\* fails, is lost or dies.
THEOREM MoneyIsKept == Spec => MoneyStays
<1>1. [StoreOk]_vars =>
        [\A u \in Uid : row[u]["money"].blob # {} => row'[u]["money"].blob = row[u]["money"].blob]_vars
    BY DEF StoreOk
<1> QED BY <1>1, Invariant, PTL DEF MoneyStays

\* A row is only ever replaced by the version after it, as long as no statement
\* fails: across restarts, losses and crashes of dbproxy in the middle of a save.
THEOREM VersionsAreSteps == Spec => ReliableStoreMatchesRow
<1>1. [StoreOk]_vars => [Reliable => NextVersion]_vars
    BY DEF StoreOk
<1> QED BY <1>1, Invariant, PTL DEF ReliableStoreMatchesRow
=============================================================================
