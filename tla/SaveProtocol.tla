--------------------------- MODULE SaveProtocol ---------------------------
(***************************************************************************)
(* How a logic server changes a player's data: a session reads it from     *)
(* dbproxy, computes, and saves it under an optimistic lock on a version   *)
(* per key (common/msg_handler_basic.cpp, common/msg_basic.cpp,            *)
(* dbproxy/handles.cpp).                                                   *)
(*                                                                         *)
(* Requests are hashed by uid, to a center and to a dbproxy process: the   *)
(* requests for one uid are served one at a time, and they and their       *)
(* answers travel in order; those for another uid may take another way.    *)
(* A center may drop messages.                                             *)
(*                                                                         *)
(* A blob is the set of sessions whose change it contains: an empty base   *)
(* blob is is_init = false, an empty money blob is a money of 0.  The work *)
(* done is that of the login handler.                                      *)
(*                                                                         *)
(* A definition X_Slip before X is X with a slip such code invites; only   *)
(* the tests of the properties use it.                                     *)
(***************************************************************************)
EXTENDS Integers, Sequences, FiniteSets, Functions

CONSTANTS Svr,          \* logic servers
          Uid,          \* players
          MaxSessions,  \* bound on the sessions ever created
          MaxRedo,      \* EN_MAX_DB_PROC_REDO
          Trouble,      \* what goes wrong: "fault" (a MySQL statement fails), "loss" (of a
                        \* message), "timeout" (of a session), "restart" (of a logic
                        \* server) and "crash" (of dbproxy)
          MaxTroubles   \* bound on how often, all together

ASSUME RedoAssumption == MaxRedo \in Nat \ {0}
ASSUME BoundsAssumption == MaxSessions \in Nat /\ MaxTroubles \in Nat

VARIABLES
    row,       \* MySQL: version and blob per player and key; version 0 is no row
    cache,     \* VersionCache; 0 is no entry
    sess,      \* per server: the live sessions by session_id
    curMax,    \* per server: _cur_max_id
    toDb,      \* requests on the way to dbproxy, per server and player
    toSvr,     \* answers on the way back, per server and player
    left,      \* how often something may still go wrong
    seen,      \* history: a statement failed ("fault"), a save stopped between two keys
               \* ("half"), or a session got an id whose former bearer still had
               \* messages under way ("reuse")
    born,      \* history: sessions created so far; session number w is the w-th
    committed, \* history: the sessions whose save dbproxy answered with OK
    acked      \* history: sessions whose client was told that all went well

vars == <<row, cache, sess, curMax, toDb, toSvr, left, seen, born, committed, acked>>

-----------------------------------------------------------------------------
(* Data.  The keys are asked for and stored in this order.                 *)

Keys == <<"base", "money">>
Key == {"base", "money"}
NoRow == [ver |-> 0, blob |-> {}]
NoCache == [u \in Uid |-> [k \in Key |-> 0]]   \* dbproxy has just started

\* The result of a handler of dbproxy; 0 is the default of the field, which
\* is what a session reads out of an answer of the other kind.
OK == 1
ERROR == 2
VER_DIFFER == 3

Calm == UNCHANGED <<left, seen>>
Happens(what, marks) ==
    what \in Trouble /\ left > 0 /\ left' = left - 1 /\ seen' = seen \cup marks

-----------------------------------------------------------------------------
(* The session's side.                                                     *)

\* ParseDBData clears the update marks, but CopyFrom goes through mutable_x(),
\* which sets the mark of every key it copies.  Clear leaves old marks alone,
\* and there are none: a save clears the marks of what it sends.
CopyFrom(datas) ==
    [player |-> [k \in Key |-> IF k \in DOMAIN datas THEN datas[k] ELSE NoRow], upd |-> DOMAIN datas]

\* HandlerLogin: register the player when needed, and change base.
Changed(p) == IF p["base"].blob = {} THEN Key ELSE {"base"}
OnProcessData_NoMoney(c, w) ==
    [player |-> [c.player EXCEPT !["base"].blob = @ \cup {w}], upd |-> c.upd \cup Changed(c.player)]
OnProcessData_Anew(c, w) ==
    [player |-> [k \in Key |-> [c.player[k] EXCEPT !.blob = IF k = "base" THEN @ \cup {w} ELSE {w}]],
     upd |-> Key]
OnProcessData(c, w) ==
    LET init == c.player["base"].blob = {}
        base == [c.player["base"] EXCEPT !.blob = @ \cup {w}]
        money == IF init THEN [c.player["money"] EXCEPT !.blob = {w}] ELSE c.player["money"]
    IN [player |-> [k \in Key |-> IF k = "base" THEN base ELSE money],
        upd |-> c.upd \cup Changed(c.player)]

\* AddSaveData: the version sent is one more than the one read.
AddSaveData(d) == [d EXCEPT !.ver = @ + 1]

SaveRequest(sid, w, c) ==
    LET done == OnProcessData(c, w)
    IN [kind |-> "save", sid |-> sid, w |-> w, changed |-> Changed(c.player),
        datas |-> [k \in done.upd |-> AddSaveData(done.player[k])]]

Release(s, sid) == sess' = [sess EXCEPT ![s] = Restrict(@, DOMAIN @ \ {sid})]
Wait(s, sid, x) ==
    sess' = [sess EXCEPT ![s] = [i \in DOMAIN @ \cup {sid} |-> IF i = sid THEN x ELSE @[i]]]
SendToDb(s, u, m) == toDb' = [toDb EXCEPT ![s][u] = Append(@, m)]

\* A message to or from session sid of server s is under way.
UnderWay(s, sid) ==
    \E u \in Uid : \/ \E i \in DOMAIN toDb[s][u] : toDb[s][u][i].sid = sid
                   \/ \E i \in DOMAIN toSvr[s][u] : toSvr[s][u][i].sid = sid

\* OnClientMessage: a session is created, asks for both keys and waits.
OnClientMessage(s, u) ==
    /\ born < MaxSessions
    /\ LET sid == curMax[s] + 1
       IN /\ sid \notin DOMAIN sess[s]
          /\ curMax' = [curMax EXCEPT ![s] = sid]
          /\ Wait(s, sid, [w |-> born + 1, uid |-> u, state |-> "get", redo |-> 0])
          /\ SendToDb(s, u, [kind |-> "get", sid |-> sid, w |-> born + 1])
          /\ seen' = seen \cup (IF UnderWay(s, sid) THEN {"reuse"} ELSE {})
    /\ born' = born + 1
    /\ UNCHANGED <<row, cache, toSvr, left, committed, acked>>

\* The session with the new data of an answer: process it and save.
Redo(s, u, m, redo) ==
    LET x == sess[s][m.sid]
    IN /\ Wait(s, m.sid, [x EXCEPT !.state = "save", !.redo = redo])
       /\ SendToDb(s, u, SaveRequest(m.sid, x.w, CopyFrom(m.datas)))
       /\ acked' = acked

Fail(s, m) == Release(s, m.sid) /\ UNCHANGED <<toDb, acked>>

\* u is the uid of the answer: data of another player is refused.
GetResponse(s, u, m) ==
    IF m.kind = "get" /\ m.result = OK /\ sess[s][m.sid].uid = u
    THEN Redo(s, u, m, 0) ELSE Fail(s, m)

SaveResponse_AckAnyway(s, u, m) ==
    LET x == sess[s][m.sid]
        result == IF m.kind = "save" THEN m.result ELSE 0
    IN \/ /\ result \in {OK, VER_DIFFER}
          /\ acked' = acked \cup {x.w} /\ Release(s, m.sid) /\ UNCHANGED toDb
       \/ result \in {ERROR, 0} /\ Fail(s, m)
SaveResponse_NoLimit(s, u, m) ==
    LET x == sess[s][m.sid]
        result == IF m.kind = "save" THEN m.result ELSE 0
    IN \/ /\ result = OK
          /\ acked' = acked \cup {x.w} /\ Release(s, m.sid) /\ UNCHANGED toDb
       \/ result = VER_DIFFER /\ x.uid = u /\ Redo(s, u, m, x.redo + 1)
       \/ result # OK /\ x.uid # u /\ Fail(s, m)
SaveResponse_NoRedo(s, u, m) ==
    LET x == sess[s][m.sid]
        result == IF m.kind = "save" THEN m.result ELSE 0
    IN \/ /\ result = OK
          /\ acked' = acked \cup {x.w} /\ Release(s, m.sid) /\ UNCHANGED toDb
       \/ result # OK /\ Fail(s, m)
\* An OK is taken whoever it is for.
SaveResponse(s, u, m) ==
    LET x == sess[s][m.sid]
        result == IF m.kind = "save" THEN m.result ELSE 0
        again == x.redo + 1 < MaxRedo /\ x.uid = u
    IN \/ /\ result = OK
          /\ acked' = acked \cup {x.w} /\ Release(s, m.sid) /\ UNCHANGED toDb
       \/ result = VER_DIFFER /\ again /\ Redo(s, u, m, x.redo + 1)
       \/ result = VER_DIFFER /\ ~again /\ Fail(s, m)
       \/ result \in {ERROR, 0} /\ Fail(s, m)

\* OnServerMessage: an answer goes to the session its session_id names, if
\* there is one, and is read according to what that session waits for.
OnServerMessage(s, u) ==
    /\ toSvr[s][u] # <<>>
    /\ toSvr' = [toSvr EXCEPT ![s][u] = Tail(@)]
    /\ LET m == Head(toSvr[s][u])
       IN \/ m.sid \notin DOMAIN sess[s] /\ UNCHANGED <<sess, toDb, acked>>
          \/ m.sid \in DOMAIN sess[s] /\ sess[s][m.sid].state = "get" /\ GetResponse(s, u, m)
          \/ m.sid \in DOMAIN sess[s] /\ sess[s][m.sid].state = "save" /\ SaveResponse(s, u, m)
    /\ UNCHANGED <<row, cache, curMax, left, seen, born, committed>>

\* CheckTimeOut releases a session that has waited too long.
CheckTimeOut(s, sid) ==
    /\ sid \in DOMAIN sess[s] /\ Happens("timeout", {}) /\ Release(s, sid)
    /\ UNCHANGED <<row, cache, curMax, toDb, toSvr, born, committed, acked>>

\* A logic server that dies loses its sessions and starts to number anew.
SvrCrash(s) ==
    /\ curMax[s] > 0 /\ Happens("restart", {})
    /\ sess' = [sess EXCEPT ![s] = <<>>] /\ curMax' = [curMax EXCEPT ![s] = 0]
    /\ UNCHANGED <<row, cache, toDb, toSvr, born, committed, acked>>

\* One that exits in order saves its sessions and finds them again: it goes
\* on numbering after the largest id that is still alive.
HotUpdate(s) ==
    /\ \A i \in DOMAIN sess[s] : i < curMax[s]
    /\ Happens("restart", {})
    /\ curMax' = [curMax EXCEPT ![s] =
            CHOOSE n \in 0 .. @ : /\ n \in DOMAIN sess[s] \cup {0}
                                  /\ \A i \in DOMAIN sess[s] : i <= n]
    /\ UNCHANGED <<row, cache, sess, toDb, toSvr, born, committed, acked>>

-----------------------------------------------------------------------------
(* dbproxy's side: one request at a time.                                  *)

Answer(s, u, m, result, datas) ==
    /\ toDb' = [toDb EXCEPT ![s][u] = Tail(@)]
    /\ toSvr' = [toSvr EXCEPT ![s][u] = Append(@,
            [kind |-> m.kind, sid |-> m.sid, w |-> m.w, result |-> result, datas |-> datas])]

\* A request is at hand.
Asked(s, u, kind) == toDb[s][u] # <<>> /\ Head(toDb[s][u]).kind = kind

\* UserDataGetHandle::Handle.  A key without a row is answered without blob
\* and version, which reads as NoRow.
GetHandle(s, u) ==
    /\ Asked(s, u, "get")
    /\ \/ Calm /\ Answer(s, u, Head(toDb[s][u]), OK, row[u])
       \/ Happens("fault", {"fault"}) /\ Answer(s, u, Head(toDb[s][u]), ERROR, <<>>)
    /\ UNCHANGED <<row, cache, sess, curMax, born, committed, acked>>

\* CheckVersion of one key, against the cache or else the row.  A select that
\* fails makes it an ERROR.
CheckKey_Newer(u, k, d, fails) ==
    IF cache[u][k] # 0 THEN IF d.ver - 1 > cache[u][k] THEN VER_DIFFER ELSE OK
    ELSE IF fails THEN ERROR
    ELSE IF row[u][k].ver # 0 /\ d.ver - 1 > row[u][k].ver THEN VER_DIFFER ELSE OK
CheckKey(u, k, d, fails) ==
    IF cache[u][k] # 0 THEN IF d.ver - 1 # cache[u][k] THEN VER_DIFFER ELSE OK
    ELSE IF fails THEN ERROR
    ELSE IF row[u][k].ver # 0 /\ d.ver - 1 # row[u][k].ver THEN VER_DIFFER ELSE OK

\* The first key, in the order of the request, that is not OK decides.  The
\* select for the key failing fails; "none" stands for none of them.
CheckVersion(u, m, failing) ==
    LET verdict(k) == CheckKey(u, k, m.datas[k], k = failing)
    IN IF "base" \in DOMAIN m.datas /\ verdict("base") # OK THEN verdict("base")
       ELSE IF "money" \in DOMAIN m.datas THEN verdict("money") ELSE OK

SaveCheckFails(s, u) ==
    /\ Asked(s, u, "save")
    /\ \E k \in DOMAIN Head(toDb[s][u]).datas : CheckVersion(u, Head(toDb[s][u]), k) = ERROR
    /\ Happens("fault", {"fault"}) /\ Answer(s, u, Head(toDb[s][u]), ERROR, <<>>)
    /\ UNCHANGED <<row, cache, sess, curMax, born, committed, acked>>

\* A refused save is answered with the rows of its keys; if they cannot be
\* read the answer is still VER_DIFFER, without any data.
SaveRefused(s, u) ==
    /\ Asked(s, u, "save") /\ CheckVersion(u, Head(toDb[s][u]), "none") = VER_DIFFER
    /\ \/ Calm /\ Answer(s, u, Head(toDb[s][u]), VER_DIFFER, Restrict(row[u], DOMAIN Head(toDb[s][u]).datas))
       \/ Happens("fault", {"fault"}) /\ Answer(s, u, Head(toDb[s][u]), VER_DIFFER, <<>>)
    /\ UNCHANGED <<row, cache, sess, curMax, born, committed, acked>>

\* The rows after the keys in done have been replaced.
Replaced(u, m, done) ==
    [row EXCEPT ![u] = [k \in Key |-> IF k \in done THEN m.datas[k] ELSE @[k]]]
\* The sets of keys a save may have stored when it stops: it stores in order.
Stored(m) == {done \in SUBSET DOMAIN m.datas :
                 "money" \in done /\ "base" \in DOMAIN m.datas => "base" \in done}
Half(m, done) == IF done \in {{}, DOMAIN m.datas} THEN {} ELSE {"half"}

\* SaveToCache, only after every key was stored.
SaveToCache_Old(u, m) ==
    [cache EXCEPT ![u] = [k \in Key |-> IF k \in DOMAIN m.datas THEN m.datas[k].ver - 1 ELSE @[k]]]
SaveToCache(u, m) ==
    [cache EXCEPT ![u] = [k \in Key |-> IF k \in DOMAIN m.datas THEN m.datas[k].ver ELSE @[k]]]

SaveStored(s, u) ==
    /\ Asked(s, u, "save") /\ CheckVersion(u, Head(toDb[s][u]), "none") = OK
    /\ LET m == Head(toDb[s][u])
       IN /\ row' = Replaced(u, m, DOMAIN m.datas)
          /\ cache' = SaveToCache(u, m)
          /\ committed' = committed \cup {[w |-> m.w, uid |-> u, changed |-> m.changed]}
          /\ Answer(s, u, m, OK, <<>>)
    /\ UNCHANGED <<sess, curMax, left, seen, born, acked>>

SaveBroken_Cached(s, u) ==
    /\ Asked(s, u, "save") /\ CheckVersion(u, Head(toDb[s][u]), "none") = OK
    /\ Happens("fault", {"fault", "half"})
    /\ row' = Replaced(u, Head(toDb[s][u]), {"base"})
    /\ cache' = SaveToCache(u, Head(toDb[s][u]))
    /\ Answer(s, u, Head(toDb[s][u]), ERROR, <<>>)
    /\ UNCHANGED <<sess, curMax, born, committed, acked>>
\* A replace fails: the keys before it stay stored, the cache stays as it was.
SaveBroken(s, u) ==
    /\ Asked(s, u, "save") /\ CheckVersion(u, Head(toDb[s][u]), "none") = OK
    /\ \E done \in Stored(Head(toDb[s][u])) :
        /\ done # DOMAIN Head(toDb[s][u]).datas
        /\ Happens("fault", {"fault"} \cup Half(Head(toDb[s][u]), done))
        /\ row' = Replaced(u, Head(toDb[s][u]), done)
    /\ Answer(s, u, Head(toDb[s][u]), ERROR, <<>>)
    /\ UNCHANGED <<cache, sess, curMax, born, committed, acked>>

\* dbproxy dies inside a save, before the first replace or after some of
\* them, and starts with an empty cache.
DbCrash(s, u) ==
    /\ Asked(s, u, "save") /\ CheckVersion(u, Head(toDb[s][u]), "none") = OK
    /\ \E done \in Stored(Head(toDb[s][u])) :
        /\ Happens("crash", Half(Head(toDb[s][u]), done))
        /\ row' = Replaced(u, Head(toDb[s][u]), done)
    /\ cache' = NoCache
    /\ toDb' = [toDb EXCEPT ![s][u] = Tail(@)]
    /\ UNCHANGED <<sess, curMax, toSvr, born, committed, acked>>

\* It dies between two messages.
DbRestart ==
    /\ Happens("crash", {})
    /\ cache' = NoCache
    /\ UNCHANGED <<row, sess, curMax, toDb, toSvr, born, committed, acked>>

-----------------------------------------------------------------------------
\* The center drops a message: a backlog that is full is thrown away.
Without(q, i) == SubSeq(q, 1, i - 1) \o SubSeq(q, i + 1, Len(q))
Lose(s, u) ==
    /\ Happens("loss", {})
    /\ \/ /\ \E i \in 1 .. Len(toDb[s][u]) : toDb' = [toDb EXCEPT ![s][u] = Without(@, i)]
          /\ UNCHANGED toSvr
       \/ /\ \E i \in 1 .. Len(toSvr[s][u]) : toSvr' = [toSvr EXCEPT ![s][u] = Without(@, i)]
          /\ UNCHANGED toDb
    /\ UNCHANGED <<row, cache, sess, curMax, born, committed, acked>>

Init ==
    /\ row = [u \in Uid |-> [k \in Key |-> NoRow]] /\ cache = NoCache
    /\ sess = [s \in Svr |-> <<>>] /\ curMax = [s \in Svr |-> 0]
    /\ toDb = [s \in Svr |-> [u \in Uid |-> <<>>]] /\ toSvr = [s \in Svr |-> [u \in Uid |-> <<>>]]
    /\ left = MaxTroubles /\ seen = {}
    /\ born = 0 /\ committed = {} /\ acked = {}

DbStep(s, u) == GetHandle(s, u) \/ SaveCheckFails(s, u) \/ SaveRefused(s, u)
                \/ SaveStored(s, u) \/ SaveBroken(s, u)

Next ==
    \E s \in Svr :
        \/ \E u \in Uid :
            \/ OnClientMessage(s, u) \/ OnServerMessage(s, u)
            \/ GetHandle(s, u) \/ SaveCheckFails(s, u) \/ SaveRefused(s, u)
            \/ SaveStored(s, u) \/ SaveBroken(s, u) \/ DbCrash(s, u) \/ Lose(s, u)
        \/ \E sid \in 1 .. MaxSessions : CheckTimeOut(s, sid)
        \/ SvrCrash(s) \/ HotUpdate(s) \/ DbRestart

Spec == Init /\ [][Next]_vars

\* The servers' loops take what has arrived.
FairSpec ==
    Spec /\ \A s \in Svr, u \in Uid : WF_vars(OnServerMessage(s, u)) /\ WF_vars(DbStep(s, u))

-----------------------------------------------------------------------------
Work == 1 .. MaxSessions
Row == [ver : Nat, blob : SUBSET Work]
Datas == UNION {[ks -> Row] : ks \in SUBSET Key}

\* The type of every variable.
TypeOK ==
    /\ row \in [Uid -> [Key -> Row]] /\ cache \in [Uid -> [Key -> Nat]]
    /\ curMax \in [Svr -> Nat] /\ born \in 0 .. MaxSessions /\ acked \in SUBSET Work
    /\ \A s \in Svr : \A i \in DOMAIN sess[s] :
           sess[s][i] \in [w : Work, uid : Uid, state : {"get", "save"}, redo : 0 .. MaxRedo - 1]
    /\ \A x \in committed : x \in [w : Work, uid : Uid, changed : SUBSET Key]

\* No MySQL statement has failed so far.
Reliable == "fault" \notin seen

\* No acknowledged save is undone by a later one: as long as no statement
\* fails, two sessions that read the same data cannot both store it, whatever
\* is lost, times out or is restarted (handles.cpp:175-239).
NoLostUpdate ==
    Reliable => \A x \in committed : \A k \in x.changed : x.w \in row[x.uid][k].blob

\* A player whose registration is stored has money, unless a save stopped
\* between the two keys (handles.cpp:253); and no later login gives it anew,
\* not even one that redoes its work on the empty answer to a save that was
\* refused and could not be reloaded (handles.cpp:151).
RegisteredHasMoney ==
    "half" \notin seen => \A u \in Uid : row[u]["base"].blob # {} => row[u]["money"].blob # {}
MoneyStays ==
    [][\A u \in Uid : row[u]["money"].blob # {} => row'[u]["money"].blob = row[u]["money"].blob]_vars

\* "check version if matched for each keys, if checking of any key failed,
\* this request fails" (handles.cpp:141): a row is only ever replaced by the
\* version that follows it.
NextVersion ==
    \A u \in Uid, k \in Key : row'[u][k] # row[u][k] => row'[u][k].ver = row[u][k].ver + 1
StoreMatchesRow == [][NextVersion]_vars

\* So it is until a statement fails, across crashes of dbproxy that leave a
\* save half stored and the cache empty.
ReliableStoreMatchesRow == [][Reliable => NextVersion]_vars

\* A client is told that its login went well only when the save of its own
\* session was stored (msg_handler_basic.cpp:133-137).
AckedIsSaved == \A w \in acked : \E x \in committed : x.w = w

\* So it is until an id is reused too early: whatever is lost, fails, times out
\* or is restarted, and however late an answer is.
OwnIdAckedIsSaved == "reuse" \notin seen => AckedIsSaved

\* Even when statements fail the cache is behind the row by one version at
\* most and never ahead: after a save broken off half way only a save under
\* the same version is accepted (handles.cpp:157-164).
CacheLag ==
    \A u \in Uid, k \in Key : cache[u][k] # 0 => row[u][k].ver - cache[u][k] \in {0, 1}

\* Every session saves its work as long as nothing goes wrong: a save is
\* refused only because another one was stored meanwhile.  It holds as long
\* as there are no more sessions than attempts (here three of each): the code
\* gives up after ten (msg_handler_basic.cpp:138-160).
EverySessionSaves == []<>(acked = 1 .. born \/ left < MaxTroubles)
=============================================================================
