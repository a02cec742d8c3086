---------------------------- MODULE SessionMng ----------------------------
(***************************************************************************)
(* The sessions of a logic server (common/session_mng.cpp) over the object *)
(* pool: numbered from a counter that wraps, found by number, refreshed by *)
(* every request they send, released when their handler is done or when    *)
(* they time out, and carried over a restart in shared memory.             *)
(*                                                                         *)
(* A definition X_Slip before X is X with a slip such code invites; only   *)
(* the tests of the properties use it.                                     *)
(***************************************************************************)
EXTENDS ObjectMng, FiniteSets

CONSTANTS IdMask,      \* 0xfffffff: numbers restart after it
          MaxCollide,  \* how many numbers are tried (10)
          Timeout,     \* EN_SESSION_TIMEOUT
          CheckSec,    \* EN_SESSION_CHECK_SEC
          MaxTime,     \* bound on the time
          MaxDowns     \* bound on restarts

ASSUME IdAssumption == IdMask \in Nat \ {0} /\ MaxCollide \in Nat \ {0}
ASSUME TimeAssumption == Timeout \in Nat \ {0} /\ CheckSec \in Nat \ {0} /\ MaxTime \in Nat
ASSUME DownAssumption == MaxDowns \in Nat

VARIABLES up,        \* the process runs
          index,     \* _index: positions by session_id
          curMax,    \* _cur_max_id
          now,       \* GetTime()
          lastCheck, \* session_check of OnRoutineCheck
          downs,     \* restarts left
          kept       \* history: update_time by session_id of the process that
                     \* stopped, and whether it wrote all of it down

vars == <<free, used, pool, shm, up, index, curMax, now, lastCheck, downs, kept>>

Object == [sid : Nat, time : Nat]
ASSUME ObjectAssumption == NoObj \notin Object

Obj(sid, time) == [sid |-> sid, time |-> time]
Fresh == Obj(0, 0)
Erase(f, S) == [i \in DOMAIN f \ S |-> f[i]]

-----------------------------------------------------------------------------
\* The numbers CreateSession tries and finds unused.
Unused_OneLess == {i \in curMax + 1 .. curMax + MaxCollide - 1 : i \notin DOMAIN index}
Unused_Any == curMax + 1 .. curMax + MaxCollide
Unused == {i \in curMax + 1 .. curMax + MaxCollide : i \notin DOMAIN index}

CreateSession ==
    /\ up
    /\ \E sid \in Unused :
        /\ \A i \in Unused : sid <= i
        /\ Malloc(Obj(sid, now))
        /\ curMax' = sid % (IdMask + 1)
        /\ index' = [i \in DOMAIN index \cup {sid} |-> IF i = sid THEN Head(free) ELSE index[i]]
    /\ UNCHANGED <<shm, up, now, lastCheck, downs, kept>>

\* All numbers tried are in use: NULL, and the position stays used.
CreateSessionNull ==
    /\ up /\ Unused = {}
    /\ Malloc(Fresh)
    /\ curMax' = curMax + MaxCollide
    /\ UNCHANGED <<shm, up, index, now, lastCheck, downs, kept>>

\* The handler is done: it releases its session by number.
ReleaseSession(sid) ==
    /\ up /\ sid \in DOMAIN index
    /\ Free(<<index[sid]>>)
    /\ index' = Erase(index, {sid})
    /\ UNCHANGED <<shm, up, curMax, now, lastCheck, downs, kept>>

\* A session sends a request to dbproxy and waits on.
SendMsgToDBProxy(sid) ==
    /\ up /\ sid \in DOMAIN index /\ pool[index[sid]].time # now
    /\ pool' = [pool EXCEPT ![index[sid]].time = now]
    /\ UNCHANGED <<free, used, shm, up, index, curMax, now, lastCheck, downs, kept>>

CheckDue == lastCheck + CheckSec <= now

Idle(p) == now - pool[p].time
Expired_Late == {pool[p].sid : p \in {x \in used : Idle(x) > Timeout}} \cap DOMAIN index
\* The numbers CheckTimeOut collects and ReleaseSession finds.
Expired == {pool[p].sid : p \in {x \in used : Idle(x) >= Timeout}} \cap DOMAIN index

CheckTimeOut ==
    /\ up /\ CheckDue
    /\ lastCheck' = now
    /\ \E ps \in Walks({index[i] : i \in Expired}) : Free(ps)
    /\ index' = Erase(index, Expired)
    /\ UNCHANGED <<shm, up, curMax, now, downs, kept>>

\* A second passes.  A running loop comes round in it, so a check that was
\* due has been made.
Tick ==
    /\ now < MaxTime /\ (up => ~CheckDue)
    /\ now' = now + 1
    /\ UNCHANGED <<free, used, pool, shm, up, index, curMax, lastCheck, downs, kept>>

-----------------------------------------------------------------------------
Stop ==
    /\ up /\ downs > 0
    /\ up' = FALSE /\ downs' = downs - 1
    /\ index' = <<>> /\ curMax' = 0 /\ lastCheck' = 0
    /\ UNCHANGED now

Sessions == [i \in DOMAIN index |-> pool[index[i]].time]
NotKept == [time |-> <<>>, all |-> TRUE]

\* The exit signal: the sessions are written to shared memory.
Exit == Stop /\ PoolRelease /\ kept' = [time |-> Sessions, all |-> TRUE]

\* The process is killed in the middle of that, or outright.
ExitKilled == Stop /\ PoolReleaseKilled(Fresh) /\ kept' = [time |-> Sessions, all |-> FALSE]
Crash == Stop /\ PoolGone /\ kept' = NotKept /\ UNCHANGED shm

\* SessionManager::Init: the pool is read back, if it can be, and the index rebuilt.  Objects
\* with the same number share one entry, that of the last one walked.
Start ==
    /\ ~up /\ up' = TRUE
    /\ PoolInit
    /\ LET ids == {pool'[p].sid : p \in used'}
       IN /\ index' \in {f \in [ids -> used'] : \A i \in ids : pool'[f[i]].sid = i}
          /\ curMax' = CHOOSE n \in ids \cup {0} : \A i \in ids : i <= n
    /\ kept' = NotKept
    /\ UNCHANGED <<now, lastCheck, downs>>

Init ==
    /\ free = <<>> /\ used = {} /\ pool = [p \in Pos |-> NoObj] /\ shm = NoSegment
    /\ up = FALSE /\ index = <<>> /\ curMax = 0
    /\ now = CheckSec /\ lastCheck = 0 /\ downs = MaxDowns /\ kept = NotKept

Next ==
    \/ CreateSession \/ CreateSessionNull
    \/ \E sid \in DOMAIN index : ReleaseSession(sid) \/ SendMsgToDBProxy(sid)
    \/ CheckTimeOut \/ Tick
    \/ Exit \/ ExitKilled \/ Crash \/ Start

Spec == Init /\ [][Next]_vars

-----------------------------------------------------------------------------
\* The type of every variable.
TypeOK ==
    /\ free \in Seq(Pos) /\ used \in SUBSET Pos /\ pool \in [Pos -> Object \cup {NoObj}]
    /\ shm.state \in {"none", "whole", "torn"} /\ shm.objs \in Seq(Object)
    /\ up \in BOOLEAN /\ DOMAIN index \subseteq Nat /\ \A i \in DOMAIN index : index[i] \in Pos
    /\ curMax \in Nat /\ now \in Nat /\ lastCheck \in Nat /\ downs \in Nat

\* A position is free once or used, never both, and the index and the used
\* objects agree on who owns which position: no session is released twice,
\* none is handed a position in use, and no two have the same number
\* (session_mng.cpp:99-160, object_mng.hpp:118-145).
PoolInv ==
    up => /\ Distinct(free)
          /\ Positions(free) \cap used = {} /\ Positions(free) \cup used = Pos
          /\ \A i \in DOMAIN index : index[i] \in used /\ pool[index[i]].sid = i
          /\ \A p \in used : /\ pool[p] # NoObj
                             /\ pool[p].sid # 0 => pool[p].sid \in DOMAIN index /\ index[pool[p].sid] = p

\* A position is lost to a session without a number only when as many other
\* sessions are alive as numbers are tried (session_mng.cpp:105-116).
LeaksOnlyInACrowd ==
    [][up /\ up' => \A p \in used' \ used :
            \/ \E i \in DOMAIN index' : index'[i] = p
            \/ Cardinality(DOMAIN index \ {0}) >= MaxCollide]_vars

\* No session is idle for longer than the timeout and the time since the last
\* check, however often the process restarts
\* (session_mng.cpp:148-160, hallsvr/logicsvr.cpp:152-157).
IdleBound ==
    up /\ ~CheckDue => \A i \in DOMAIN index : Idle(index[i]) < Timeout + (now - lastCheck)

\* A restart brings back no session there was not, each under its number and
\* with its time, and after an exit in order all of them, whatever the ends
\* before: Release gives up when it finds a segment, and a kill in the middle of
\* it leaves one (doc/svr.doc, "Exit"; session_mng.cpp:80-97, object_mng.hpp:39-109).
RestartKeepsSessions ==
    [][~up /\ up' =>
        /\ \A i \in DOMAIN index' \ {0} : i \in DOMAIN kept.time /\ pool'[index'[i]].time = kept.time[i]
        /\ kept.all => DOMAIN kept.time \subseteq DOMAIN index']_vars
=============================================================================
