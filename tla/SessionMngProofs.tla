-------------------------- MODULE SessionMngProofs --------------------------
(***************************************************************************)
(* The session manager and its pool are correct for every size of the      *)
(* pool, every wrap-around of the numbers, every timeout and any number of *)
(* restarts.                                                               *)
(***************************************************************************)
EXTENDS SessionMng, BasicFacts, TLAPS

USE SizeAssumption, IdAssumption, TimeAssumption, DownAssumption

-----------------------------------------------------------------------------
(* Lists of positions.                                                     *)

\* A walk of a set of positions is a sequence of them without repetition.
LEMMA WalkFacts ==
    ASSUME NEW S, NEW w \in Walks(S)
    PROVE  w \in Seq(S) /\ Len(w) \in 0 .. Size /\ Distinct(w) /\ Positions(w) = S
<1>1. PICK n \in 0 .. Size : w \in [1 .. n -> S]
    BY DEF Walks
<1>2. w \in Seq(S) /\ Len(w) = n
    BY <1>1
<1> QED BY <1>2 DEF Walks

\* What the pool's lists say when no position is lost or counted twice.
ListsAgree ==
    /\ free \in Seq(Pos) /\ used \in SUBSET Pos /\ Distinct(free)
    /\ Positions(free) \cap used = {} /\ Positions(free) \cup used = Pos

\* Malloc takes a free position and makes it a used one.
LEMMA MallocKeepsLists ==
    ASSUME ListsAgree, NEW obj, Malloc(obj)
    PROVE  /\ ListsAgree' /\ Head(free) \in Pos /\ Head(free) \notin used
           /\ used' = used \cup {Head(free)}
<1>1. free # <<>> /\ free' = Tail(free) /\ used' = used \cup {Head(free)}
    BY DEF Malloc
<1>2. /\ Len(free) \in Nat /\ Len(free) > 0 /\ Head(free) = free[1] /\ Head(free) \in Pos
      /\ free' \in Seq(Pos) /\ Len(free') = Len(free) - 1
      /\ \A i \in 1 .. Len(free') : free'[i] = free[i + 1]
    BY <1>1, HeadTailProperties DEF ListsAgree
<1>3. Distinct(free')
    BY <1>2 DEF Distinct, ListsAgree
<1>4. Positions(free') = Positions(free) \ {Head(free)}
    <2>1. \A p \in Positions(free') : p \in Positions(free) /\ p # Head(free)
        BY <1>2 DEF Positions, ListsAgree, Distinct
    <2>2. ASSUME NEW p \in Positions(free), p # Head(free) PROVE p \in Positions(free')
        <3>1. PICK i \in 1 .. Len(free) : p = free[i]
            BY DEF Positions
        <3>2. i - 1 \in 1 .. Len(free') /\ free'[i - 1] = p
            BY <1>2, <2>2, <3>1
        <3> QED BY <3>2 DEF Positions
    <2> QED BY <2>1, <2>2
<1>5. Head(free) \in Positions(free)
    BY <1>2 DEF Positions
<1> QED BY <1>1, <1>2, <1>3, <1>4, <1>5 DEF ListsAgree

\* Free makes used positions free ones.
LEMMA FreeKeepsLists ==
    ASSUME ListsAgree, NEW ps \in Seq(used), Distinct(ps), Free(ps)
    PROVE  ListsAgree' /\ used' = used \ Positions(ps)
<1>1. free' = ps \o free /\ used' = used \ Positions(ps)
    BY DEF Free
<1>2. ps \in Seq(Pos)
    BY DEF ListsAgree
<1>3. /\ free' \in Seq(Pos) /\ Len(free') = Len(ps) + Len(free)
      /\ \A i \in 1 .. Len(free') : free'[i] = IF i <= Len(ps) THEN ps[i] ELSE free[i - Len(ps)]
      /\ Len(ps) \in Nat /\ Len(free) \in Nat
    BY <1>1, <1>2, ConcatProperties DEF ListsAgree
<1>4. \A i \in 1 .. Len(ps), j \in 1 .. Len(free) : ps[i] # free[j]
    BY DEF ListsAgree, Positions
<1>5. Distinct(free')
    <2> SUFFICES ASSUME NEW i \in 1 .. Len(free'), NEW j \in 1 .. Len(free'), i < j
                 PROVE  free'[i] # free'[j]
        BY <1>3 DEF Distinct
    <2>1. CASE j <= Len(ps)
        BY <1>3, <2>1 DEF Distinct
    <2>2. CASE i <= Len(ps) /\ j > Len(ps)
        <3>1. free'[i] = ps[i] /\ free'[j] = free[j - Len(ps)] /\ j - Len(ps) \in 1 .. Len(free)
            BY <1>3, <2>2
        <3> QED BY <1>3, <1>4, <2>2, <3>1
    <2>3. CASE i > Len(ps)
        <3>1. /\ free'[i] = free[i - Len(ps)] /\ free'[j] = free[j - Len(ps)]
              /\ i - Len(ps) \in 1 .. Len(free) /\ j - Len(ps) \in 1 .. Len(free)
              /\ i - Len(ps) # j - Len(ps)
            BY <1>3, <2>3
        <3> QED BY <3>1 DEF Distinct, ListsAgree
    <2> QED BY <1>3, <2>1, <2>2, <2>3
<1>6. Positions(free') = Positions(ps) \cup Positions(free)
    <2>1. \A p \in Positions(free') : p \in Positions(ps) \cup Positions(free)
        BY <1>3 DEF Positions
    <2>2. \A i \in 1 .. Len(ps) : i \in 1 .. Len(free') /\ free'[i] = ps[i]
        BY <1>3
    <2>3. ASSUME NEW i \in 1 .. Len(free)
          PROVE  i + Len(ps) \in 1 .. Len(free') /\ free'[i + Len(ps)] = free[i]
        <3>1. i + Len(ps) \in 1 .. Len(free') /\ ~(i + Len(ps) <= Len(ps)) /\ (i + Len(ps)) - Len(ps) = i
            BY <1>3
        <3> QED BY <1>3, <3>1
    <2>4. Positions(ps) \subseteq Positions(free')
        BY <2>2 DEF Positions
    <2>5. Positions(free) \subseteq Positions(free')
        BY <2>3 DEF Positions
    <2> QED BY <2>1, <2>4, <2>5
<1>7. Positions(ps) \subseteq used
    BY DEF Positions
<1> QED BY <1>1, <1>3, <1>5, <1>6, <1>7 DEF ListsAgree

\* Init counts every position once, whatever it found in the segment.
LEMMA InitKeepsLists ==
    ASSUME NEW n \in 0 .. Size,
           free' = [i \in 1 .. Size - n |-> Size - n - i], used' = Size - n .. Size - 1
    PROVE  ListsAgree'
<1>1. free' \in Seq(Pos) /\ Len(free') = Size - n
    BY DEF Pos
<1>2. Distinct(free')
    BY <1>1 DEF Distinct
<1>3. Positions(free') = 0 .. Size - n - 1
    <2>1. \A p \in Positions(free') : p \in 0 .. Size - n - 1
        BY <1>1 DEF Positions
    <2>2. \A p \in 0 .. Size - n - 1 : Size - n - p \in 1 .. Len(free') /\ free'[Size - n - p] = p
        BY <1>1
    <2> QED BY <2>1, <2>2 DEF Positions
<1> QED BY <1>1, <1>2, <1>3 DEF ListsAgree, Pos

-----------------------------------------------------------------------------
(* The inductive invariant.                                                *)

\* The index and the used objects know each other.
IndexAgrees ==
    /\ IsFiniteSet(DOMAIN index)
    /\ \A i \in DOMAIN index : index[i] \in used /\ pool[index[i]].sid = i
    /\ \A p \in used : /\ pool[p] \in Object
                       /\ pool[p].sid # 0 => pool[p].sid \in DOMAIN index /\ index[pool[p].sid] = p

\* There is a largest number.
SidsBounded ==
    \E b \in Nat : /\ \A p \in used : pool[p].sid <= b
                   /\ \A k \in 1 .. Len(shm.objs) : shm.objs[k].sid <= b

\* A segment fits the pool, and no two of its objects have the same number.
SegmentFits ==
    /\ Len(shm.objs) <= Size
    /\ \A k, l \in 1 .. Len(shm.objs) :
          k # l /\ shm.objs[k].sid # 0 => shm.objs[k].sid # shm.objs[l].sid

\* A segment holds what the process that stopped had, and nothing else.
SegmentKept ==
    /\ \A k \in 1 .. Len(shm.objs) : shm.objs[k].sid # 0 =>
          shm.objs[k].sid \in DOMAIN kept.time /\ kept.time[shm.objs[k].sid] = shm.objs[k].time
    /\ kept.all => \A i \in DOMAIN kept.time : \E k \in 1 .. Len(shm.objs) : shm.objs[k].sid = i

Clocks == CheckSec <= now /\ lastCheck <= now /\ (~up => lastCheck = 0)

\* The fields of an object are numbers.
LEMMA ObjectFields == \A o \in Object : o.sid \in Nat /\ o.time \in Nat
    BY DEF Object

\* The invariant of a running process, in the parts its actions keep.
Running ==
    up /\ TypeOK /\ Clocks /\ IdleBound /\ SidsBounded /\ ListsAgree /\ IndexAgrees /\ shm = NoSegment

\* A new session: a position that was free and a number that was not used.
LEMMA CreateSessionKeeps == Running /\ CreateSession => Running'
<1> SUFFICES ASSUME Running, CreateSession PROVE Running'
    OBVIOUS
<1> DEFINE p == Head(free)
<1>1. PICK sid \in Unused :
          /\ Malloc(Obj(sid, now)) /\ curMax' = sid % (IdMask + 1)
          /\ index' = [i \in DOMAIN index \cup {sid} |-> IF i = sid THEN p ELSE index[i]]
    BY DEF CreateSession
<1>2. UNCHANGED <<shm, up, now, lastCheck, downs, kept>>
    BY DEF CreateSession
<1>3. sid \in Nat \ {0} /\ sid \notin DOMAIN index
    BY DEF Unused, Running, TypeOK
<1>4. ListsAgree' /\ p \in Pos /\ p \notin used /\ used' = used \cup {p}
    BY <1>1, MallocKeepsLists DEF Running
<1>5. /\ pool' = [pool EXCEPT ![p] = Obj(sid, now)] /\ Obj(sid, now) \in Object
      /\ Obj(sid, now).sid = sid /\ Obj(sid, now).time = now
    BY <1>1, <1>3 DEF Malloc, Obj, Object, Running, TypeOK
<1> HIDE DEF p
<1>6. /\ pool' \in [Pos -> Object \cup {NoObj}] /\ pool'[p] = Obj(sid, now)
      /\ \A x \in Pos \ {p} : pool'[x] = pool[x]
    BY <1>4, <1>5 DEF Running, TypeOK
<1>7. /\ DOMAIN index' = DOMAIN index \cup {sid} /\ index'[sid] = p
      /\ \A i \in DOMAIN index : index'[i] = index[i]
    BY <1>1, <1>3 DEF p
<1>8. TypeOK'
    <2>1. curMax' \in Nat
        BY <1>1, <1>3
    <2> QED BY <1>2, <1>3, <1>4, <1>6, <1>7, <2>1 DEF Running, TypeOK, ListsAgree
<1>9. Clocks'
    BY <1>2 DEF Running, Clocks
<1>10. IndexAgrees'
    <2>1. IsFiniteSet(DOMAIN index')
        BY <1>7, FS_AddElement DEF Running, IndexAgrees
    <2> QED BY <1>3, <1>4, <1>5, <1>6, <1>7, <2>1 DEF Running, IndexAgrees, TypeOK, ListsAgree
<1>11. IdleBound'
    <2>1. \A i \in DOMAIN index : pool'[index'[i]] = pool[index[i]]
        BY <1>4, <1>6, <1>7 DEF Running, IndexAgrees, ListsAgree
    <2> QED BY <1>2, <1>5, <1>6, <1>7, <2>1 DEF Running, TypeOK, Clocks, IdleBound, CheckDue, Idle
<1>12. SidsBounded'
    <2>1. PICK b \in Nat : /\ \A x \in used : pool[x].sid <= b
                           /\ \A k \in 1 .. Len(shm.objs) : shm.objs[k].sid <= b
        BY DEF Running, SidsBounded
    <2>2. \A x \in used : pool[x].sid \in Nat
        BY ObjectFields DEF Running, IndexAgrees
    <2>3. \A k \in 1 .. Len(shm.objs) : shm.objs[k].sid \in Nat
        BY ObjectFields DEF Running, TypeOK
    <2>4. b + sid \in Nat /\ \A x \in used' : pool'[x].sid <= b + sid
        BY <1>3, <1>4, <1>5, <1>6, <2>1, <2>2 DEF ListsAgree, Running
    <2>5. \A k \in 1 .. Len(shm'.objs) : shm'.objs[k].sid <= b + sid
        BY <1>2, <1>3, <2>1, <2>3
    <2> QED BY <2>4, <2>5 DEF SidsBounded
<1> QED BY <1>2, <1>4, <1>8, <1>9, <1>10, <1>11, <1>12 DEF Running

\* A session without a number: its position is used and in no entry.
LEMMA CreateSessionNullKeeps == Running /\ CreateSessionNull => Running'
<1> SUFFICES ASSUME Running, CreateSessionNull PROVE Running'
    OBVIOUS
<1> DEFINE p == Head(free)
<1>1. Malloc(Fresh) /\ curMax' = curMax + MaxCollide
    BY DEF CreateSessionNull
<1>2. UNCHANGED <<shm, up, index, now, lastCheck, downs, kept>>
    BY DEF CreateSessionNull
<1>4. ListsAgree' /\ p \in Pos /\ p \notin used /\ used' = used \cup {p}
    BY <1>1, MallocKeepsLists DEF Running
<1>5. pool' = [pool EXCEPT ![p] = Fresh] /\ Fresh \in Object /\ Fresh.sid = 0
    BY <1>1 DEF Malloc, Obj, Fresh, Object
<1> HIDE DEF p
<1>6. /\ pool' \in [Pos -> Object \cup {NoObj}] /\ pool'[p] = Fresh
      /\ \A x \in Pos \ {p} : pool'[x] = pool[x]
    BY <1>4, <1>5 DEF Running, TypeOK
<1>8. TypeOK'
    BY <1>1, <1>2, <1>4, <1>6 DEF Running, TypeOK, ListsAgree
<1>9. Clocks'
    BY <1>2 DEF Running, Clocks
<1>10. IndexAgrees'
    BY <1>2, <1>4, <1>5, <1>6 DEF Running, IndexAgrees, TypeOK, ListsAgree
<1>11. IdleBound'
    <2>1. \A i \in DOMAIN index : pool'[index[i]] = pool[index[i]]
        BY <1>4, <1>6 DEF Running, IndexAgrees, ListsAgree
    <2> QED BY <1>2, <2>1 DEF Running, IdleBound, CheckDue, Idle
<1>12. SidsBounded'
    <2>1. \A b \in Nat, x \in used' : (\A y \in used : pool[y].sid <= b) => pool'[x].sid <= b
        BY <1>4, <1>5, <1>6 DEF ListsAgree, Running
    <2> QED BY <1>2, <2>1 DEF SidsBounded, Running
<1> QED BY <1>2, <1>4, <1>8, <1>9, <1>10, <1>11, <1>12 DEF Running

\* Releasing sessions, one or many: their positions go back to the free list.
LEMMA ReleaseKeeps ==
    ASSUME Running, NEW S \in SUBSET DOMAIN index, NEW ps \in Seq(used), Distinct(ps),
           Positions(ps) = {index[i] : i \in S},
           Free(ps), index' = Erase(index, S), UNCHANGED <<shm, up, curMax, now, downs, kept>>,
           lastCheck' \in Nat
    PROVE  /\ up' /\ TypeOK'
           /\ SidsBounded' /\ ListsAgree' /\ IndexAgrees' /\ shm' = NoSegment
           /\ \A i \in DOMAIN index' : i \in DOMAIN index \ S /\ pool'[index'[i]] = pool[index[i]]
<1>1. ListsAgree' /\ used' = used \ Positions(ps)
    BY FreeKeepsLists DEF Running
<1>2. /\ pool' \in [Pos -> Object \cup {NoObj}]
      /\ \A x \in used' : pool'[x] = pool[x]
    BY <1>1 DEF Free, Running, TypeOK, ListsAgree
<1>3. DOMAIN index' = DOMAIN index \ S /\ \A i \in DOMAIN index' : index'[i] = index[i]
    BY DEF Erase
<1>4. \A i, j \in DOMAIN index : index[i] = index[j] => i = j
    BY DEF Running, IndexAgrees
<1>5. \A i \in DOMAIN index' : index'[i] \in used'
    BY <1>1, <1>3, <1>4 DEF Running, IndexAgrees
<1>6. \A i \in DOMAIN index' : pool'[index'[i]] = pool[index[i]]
    BY <1>2, <1>3, <1>5
<1>7. TypeOK'
    BY <1>1, <1>2, <1>3 DEF Running, TypeOK, ListsAgree
<1>8. IndexAgrees'
    <2>1. IsFiniteSet(DOMAIN index')
        BY <1>3, FS_Subset DEF Running, IndexAgrees
    <2>2. \A i \in DOMAIN index' : index'[i] \in used' /\ pool'[index'[i]].sid = i
        BY <1>3, <1>5, <1>6 DEF Running, IndexAgrees
    <2>3. ASSUME NEW x \in used'
          PROVE  /\ pool'[x] \in Object
                 /\ pool'[x].sid # 0 => pool'[x].sid \in DOMAIN index' /\ index'[pool'[x].sid] = x
        <3>1. pool'[x] = pool[x] /\ x \in used /\ x \notin Positions(ps)
            BY <1>1, <1>2
        <3>2. \A i \in S : index[i] # x
            BY <3>1
        <3>3. pool[x] \in Object /\ (pool[x].sid # 0 => pool[x].sid \in DOMAIN index /\ index[pool[x].sid] = x)
            BY <3>1 DEF Running, IndexAgrees
        <3> QED BY <1>3, <3>1, <3>2, <3>3
    <2> QED BY <2>1, <2>2, <2>3 DEF IndexAgrees
<1>9. SidsBounded'
    BY <1>1, <1>2 DEF Running, SidsBounded
<1> QED BY <1>1, <1>3, <1>6, <1>7, <1>8, <1>9 DEF Running

\* A handler that is done releases its session.
LEMMA ReleaseSessionKeeps == ASSUME Running, NEW sid \in DOMAIN index, ReleaseSession(sid) PROVE Running'
<1> DEFINE ps == <<index[sid]>>
<1>1. ps \in Seq(used) /\ Distinct(ps) /\ Positions(ps) = {index[i] : i \in {sid}}
    BY DEF Distinct, Positions, Running, IndexAgrees
<1>2. /\ Free(ps) /\ index' = Erase(index, {sid})
      /\ UNCHANGED <<shm, up, curMax, now, lastCheck, downs, kept>>
    BY DEF ReleaseSession
<1> HIDE DEF ps
<1>3. /\ up' /\ TypeOK' /\ SidsBounded' /\ ListsAgree' /\ IndexAgrees' /\ shm' = NoSegment
      /\ \A i \in DOMAIN index' : i \in DOMAIN index \ {sid} /\ pool'[index'[i]] = pool[index[i]]
    BY <1>1, <1>2, ReleaseKeeps DEF Running, TypeOK
<1>4. Clocks' /\ IdleBound'
    BY <1>2, <1>3 DEF Running, Clocks, IdleBound, CheckDue, Idle
<1> QED BY <1>3, <1>4 DEF Running

\* A request refreshes its session.
LEMMA SendKeeps == ASSUME Running, NEW sid \in DOMAIN index, SendMsgToDBProxy(sid) PROVE Running'
<1> DEFINE p == index[sid]
<1>1. p \in used /\ p \in Pos /\ pool[p] \in Object /\ now \in Nat
    BY DEF Running, IndexAgrees, ListsAgree, TypeOK
<1>2. /\ pool' = [pool EXCEPT ![p].time = now]
      /\ UNCHANGED <<free, used, shm, up, index, curMax, now, lastCheck, downs, kept>>
    BY DEF SendMsgToDBProxy
<1> HIDE DEF p
<1>3. pool \in [Pos -> Object \cup {NoObj}]
    BY DEF Running, TypeOK
<1>4. /\ pool' \in [Pos -> Object \cup {NoObj}] /\ pool'[p] = [pool[p] EXCEPT !.time = now]
      /\ \A x \in Pos \ {p} : pool'[x] = pool[x]
    BY <1>1, <1>2, <1>3 DEF Object
<1>5. pool'[p] \in Object /\ pool'[p].sid = pool[p].sid /\ pool'[p].time = now
    BY <1>1, <1>4 DEF Object
<1>6. \A x \in used : pool'[x].sid = pool[x].sid /\ pool'[x] \in Object
    BY <1>4, <1>5 DEF Running, ListsAgree, IndexAgrees
<1>7. TypeOK' /\ Clocks' /\ ListsAgree'
    BY <1>2, <1>4 DEF Running, TypeOK, Clocks, ListsAgree
<1>8. IndexAgrees'
    BY <1>2, <1>6 DEF Running, IndexAgrees
<1>9. SidsBounded'
    BY <1>2, <1>6 DEF Running, SidsBounded
<1>10. IdleBound'
    <2>1. \A i \in DOMAIN index : index[i] # p => pool'[index[i]] = pool[index[i]]
        BY <1>4 DEF Running, IndexAgrees, ListsAgree
    <2>2. 0 < Timeout + (now - lastCheck)
        BY DEF Running, Clocks, TypeOK
    <2>3. up /\ IdleBound /\ now \in Int
        BY DEF Running, TypeOK
    <2>4. ASSUME ~CheckDue, NEW i \in DOMAIN index
          PROVE  now - pool'[index[i]].time < Timeout + (now - lastCheck)
        <3>1. CASE index[i] = p
            BY <1>5, <2>2, <2>3, <3>1
        <3>2. CASE index[i] # p
            BY <2>1, <2>3, <2>4, <3>2 DEF IdleBound, Idle
        <3> QED BY <3>1, <3>2
    <2> QED BY <1>2, <2>4 DEF IdleBound, CheckDue, Idle
<1> QED BY <1>2, <1>7, <1>8, <1>9, <1>10 DEF Running

\* The check releases the sessions that are idle too long.
LEMMA CheckTimeOutKeeps == Running /\ CheckTimeOut => Running'
<1> SUFFICES ASSUME Running, CheckTimeOut PROVE Running'
    OBVIOUS
<1>1. /\ lastCheck' = now /\ index' = Erase(index, Expired)
      /\ UNCHANGED <<shm, up, curMax, now, downs, kept>>
    BY DEF CheckTimeOut
<1>2. PICK ps \in Walks({index[i] : i \in Expired}) : Free(ps)
    BY DEF CheckTimeOut
<1>3. Expired \in SUBSET DOMAIN index
    BY DEF Expired
<1>4. Distinct(ps) /\ Positions(ps) = {index[i] : i \in Expired} /\ ps \in Seq({index[i] : i \in Expired})
    BY WalkFacts
<1>5. ps \in Seq(used)
    BY <1>3, <1>4 DEF Running, IndexAgrees
<1>6. /\ up' /\ TypeOK' /\ SidsBounded' /\ ListsAgree' /\ IndexAgrees' /\ shm' = NoSegment
      /\ \A i \in DOMAIN index' : i \in DOMAIN index \ Expired /\ pool'[index'[i]] = pool[index[i]]
    BY <1>1, <1>2, <1>3, <1>4, <1>5, ReleaseKeeps DEF Running, TypeOK
<1>7. Clocks'
    BY <1>1, <1>6 DEF Running, Clocks, TypeOK
<1>8. IdleBound'
    <2>1. ASSUME NEW i \in DOMAIN index' PROVE now - pool[index[i]].time < Timeout
        <3>1. i \in DOMAIN index /\ i \notin Expired /\ index[i] \in used /\ pool[index[i]].sid = i
            BY <1>6 DEF Running, IndexAgrees
        <3>2. ~(Idle(index[i]) >= Timeout)
            BY <3>1 DEF Expired
        <3>3. pool[index[i]].time \in Nat /\ now \in Nat
            BY <3>1, ObjectFields DEF Running, IndexAgrees, TypeOK
        <3> QED BY <3>2, <3>3 DEF Idle
    <2> QED BY <1>1, <1>6, <2>1 DEF IdleBound, Idle, Running, TypeOK
<1> QED BY <1>6, <1>7, <1>8 DEF Running

\* A second passes.
LEMMA TickKeeps == Running /\ Tick => Running'
<1> SUFFICES ASSUME Running, Tick PROVE Running'
    OBVIOUS
<1>1. /\ ~CheckDue /\ now' = now + 1 /\ now \in Nat /\ lastCheck \in Nat
      /\ UNCHANGED <<free, used, pool, shm, up, index, curMax, lastCheck, downs, kept>>
    BY DEF Tick, Running, TypeOK
<1>2. TypeOK' /\ Clocks' /\ up' /\ shm' = NoSegment
    BY <1>1 DEF Running, TypeOK, Clocks
<1>3. ListsAgree' /\ IndexAgrees' /\ SidsBounded'
    BY <1>1 DEF Running, ListsAgree, IndexAgrees, SidsBounded
<1>4. \A i \in DOMAIN index : pool[index[i]].time \in Nat
    BY ObjectFields DEF Running, IndexAgrees
<1>5. IdleBound'
    BY <1>1, <1>4 DEF Running, IdleBound, Idle
<1> QED BY <1>2, <1>3, <1>5 DEF Running

-----------------------------------------------------------------------------
(* Stopping and starting.                                                  *)

\* The invariant of a process that is down.
Down == ~up /\ TypeOK /\ Clocks /\ IdleBound /\ SidsBounded /\ SegmentFits /\ SegmentKept

\* What Release leaves of the objects it walks, complete or not.
Remains(objs, w) ==
    /\ objs \in Seq(Object) /\ Len(objs) <= Len(w)
    /\ \A k \in 1 .. Len(objs) : objs[k] \in {Fresh, pool[w[k]]}
AllOf(objs, w) ==
    Positions(w) = used /\ Len(objs) = Len(w) /\ \A k \in 1 .. Len(w) : objs[k] = pool[w[k]]
PartWalk(w) == w \in Seq(used) /\ Len(w) \in 0 .. Size /\ Distinct(w)

\* The object a zero-filled segment is read as.
LEMMA FreshFacts == Fresh \in Object /\ Fresh.sid = 0 /\ Fresh.time = 0
    BY DEF Fresh, Obj, Object

\* A process that stops leaves a segment it can start from.
LEMMA StopKeeps ==
    ASSUME Running, Stop, PoolGone, NEW w, PartWalk(w), NEW objs, Remains(objs, w),
           shm'.state \in {"none", "whole", "torn"}, shm'.objs = objs,
           NEW all \in BOOLEAN, all => AllOf(objs, w), kept' = [time |-> Sessions, all |-> all]
    PROVE  Down'
<1>1. /\ ~up' /\ index' = <<>> /\ curMax' = 0 /\ lastCheck' = 0 /\ now' = now /\ downs' \in Nat
      /\ free' = <<>> /\ used' = {} /\ pool' = [p \in Pos |-> NoObj]
    BY DEF Stop, PoolGone, Running, TypeOK
<1>2. w \in Seq(used) /\ Len(w) \in 0 .. Size /\ Distinct(w)
    BY DEF PartWalk
<1>3. objs \in Seq(Object) /\ Len(objs) \in Nat /\ Len(objs) <= Len(w)
    BY DEF Remains
<1>4. \A k \in 1 .. Len(objs) : k \in 1 .. Len(w) /\ w[k] \in used /\ objs[k] \in {Fresh, pool[w[k]]}
    BY <1>2, <1>3 DEF Remains
<1>5. TypeOK'
    <2>1. DOMAIN index' = {}
        BY <1>1
    <2>2. free' \in Seq(Pos) /\ used' \in SUBSET Pos /\ pool' \in [Pos -> Object \cup {NoObj}]
        BY <1>1
    <2>3. curMax' \in Nat /\ lastCheck' \in Nat /\ now' \in Nat
        BY <1>1 DEF Running, TypeOK
    <2>4. up' \in BOOLEAN
        BY Zenon DEF Stop
    <2> QED BY <1>1, <1>3, <2>1, <2>2, <2>3, <2>4 DEF TypeOK
<1>6. Clocks' /\ IdleBound'
    BY <1>1 DEF Running, Clocks, TypeOK, IdleBound
<1>7. SidsBounded'
    <2>1. PICK b \in Nat : \A p \in used : pool[p].sid <= b
        BY DEF Running, SidsBounded
    <2>2. \A k \in 1 .. Len(objs) : objs[k].sid <= b
        BY <1>4, <2>1, FreshFacts
    <2> QED BY <1>1, <2>2 DEF SidsBounded
<1>8. SegmentFits'
    <2>1. ASSUME NEW k \in 1 .. Len(objs), NEW l \in 1 .. Len(objs), k # l, objs[k].sid # 0
          PROVE  objs[k].sid # objs[l].sid
        <3>1. objs[k] = pool[w[k]] /\ w[k] \in used /\ w[l] \in used /\ w[k] # w[l]
            BY <1>2, <1>4, <2>1, FreshFacts DEF Distinct
        <3>2. CASE objs[l] = Fresh
            BY <2>1, <3>2, FreshFacts
        <3>3. CASE objs[l] = pool[w[l]]
            BY <2>1, <3>1, <3>3 DEF Running, IndexAgrees
        <3> QED BY <1>4, <3>2, <3>3
    <2>2. Len(objs) <= Size
        BY <1>2, <1>3
    <2> QED BY <2>1, <2>2 DEF SegmentFits
<1>9. SegmentKept'
    <2>1. kept'.time = [i \in DOMAIN index |-> pool[index[i]].time] /\ kept'.all = all
        BY DEF Sessions
    <2>2. ASSUME NEW k \in 1 .. Len(objs), objs[k].sid # 0
          PROVE  objs[k].sid \in DOMAIN kept'.time /\ kept'.time[objs[k].sid] = objs[k].time
        <3>1. objs[k] = pool[w[k]] /\ w[k] \in used
            BY <1>4, <2>2, FreshFacts
        <3>2. objs[k].sid \in DOMAIN index /\ index[objs[k].sid] = w[k]
            BY <2>2, <3>1 DEF Running, IndexAgrees
        <3> QED BY <2>1, <3>1, <3>2
    <2>3. ASSUME all, NEW i \in DOMAIN kept'.time PROVE \E k \in 1 .. Len(objs) : objs[k].sid = i
        <3>1. i \in DOMAIN index /\ index[i] \in used /\ pool[index[i]].sid = i
            BY <2>1 DEF Running, IndexAgrees
        <3>2. PICK k \in 1 .. Len(w) : w[k] = index[i]
            BY <2>3, <3>1 DEF Positions, AllOf
        <3> QED BY <2>3, <3>1, <3>2 DEF AllOf
    <2> QED BY <2>1, <2>2, <2>3 DEF SegmentKept
<1> QED BY <1>1, <1>5, <1>6, <1>7, <1>8, <1>9 DEF Down

\* Exit in order.
LEMMA ExitKeeps == Running /\ Exit => Down'
<1> SUFFICES ASSUME Running, Exit PROVE Down'
    OBVIOUS
<1>1. Stop /\ PoolGone /\ kept' = [time |-> Sessions, all |-> TRUE] /\ shm.state = "none"
    BY DEF Exit, PoolRelease, Running, NoSegment
<1>2. PICK w \in Walks(used) : shm' = Segment([i \in 1 .. Len(w) |-> pool[w[i]]])
    BY <1>1 DEF Exit, PoolRelease
<1> DEFINE objs == [i \in 1 .. Len(w) |-> pool[w[i]]]
<1>3. w \in Seq(used) /\ Len(w) \in Nat /\ PartWalk(w) /\ Positions(w) = used
    BY WalkFacts DEF PartWalk
<1>4. \A i \in 1 .. Len(w) : pool[w[i]] \in Object
    BY <1>3 DEF Running, IndexAgrees
<1>5. objs \in Seq(Object) /\ Len(objs) = Len(w) /\ \A i \in 1 .. Len(w) : objs[i] = pool[w[i]]
    BY <1>3, <1>4
<1>6. shm'.state = "whole" /\ shm'.objs = objs
    BY <1>2 DEF Segment
<1> HIDE DEF objs
<1>7. Remains(objs, w) /\ AllOf(objs, w)
    BY <1>3, <1>5 DEF Remains, AllOf
<1> QED BY <1>1, <1>3, <1>6, <1>7, StopKeeps

\* Killed while it writes the segment.
LEMMA ExitKilledKeeps == Running /\ ExitKilled => Down'
<1> SUFFICES ASSUME Running, ExitKilled PROVE Down'
    OBVIOUS
<1>1. Stop /\ PoolGone /\ kept' = [time |-> Sessions, all |-> FALSE] /\ shm.state = "none"
    BY DEF ExitKilled, PoolReleaseKilled, Running, NoSegment
<1>2. CASE shm' = Segment(<<>>) \/ (used # {} /\ shm' = TornSegment)
    <2>1. shm'.state \in {"none", "whole", "torn"} /\ shm'.objs = <<>>
        BY <1>2 DEF Segment, TornSegment
    <2>2. PICK none : none = <<>>
        OBVIOUS
    <2>3. PartWalk(none)
        BY <2>2, SizeAssumption DEF PartWalk, Distinct
    <2>4. Remains(none, none)
        BY <2>2 DEF Remains
    <2> QED BY <1>1, <2>1, <2>2, <2>3, <2>4, StopKeeps
<1>3. ASSUME NEW w \in Walks(used), NEW done \in 0 .. Len(w),
             shm' = Segment([i \in 1 .. Len(w) |-> IF i <= done THEN pool[w[i]] ELSE Fresh])
      PROVE  Down'
    <2>1. w \in Seq(used) /\ Len(w) \in Nat /\ PartWalk(w)
        BY WalkFacts DEF PartWalk
    <2>2. \A i \in 1 .. Len(w) : pool[w[i]] \in Object
        BY <2>1 DEF Running, IndexAgrees
    <2>3. PICK objs : objs = [i \in 1 .. Len(w) |-> IF i <= done THEN pool[w[i]] ELSE Fresh]
        OBVIOUS
    <2>4. objs \in Seq(Object) /\ Len(objs) = Len(w)
        BY <2>1, <2>2, <2>3, FreshFacts
    <2>5. \A k \in 1 .. Len(w) : objs[k] \in {Fresh, pool[w[k]]}
        BY <2>3
    <2>6. Remains(objs, w)
        BY <2>1, <2>4, <2>5 DEF Remains
    <2>7. shm'.state = "whole" /\ shm'.objs = objs
        BY <1>3, <2>3 DEF Segment
    <2> QED BY <1>1, <2>1, <2>6, <2>7, StopKeeps
<1> QED BY <1>1, <1>2, <1>3 DEF ExitKilled, PoolReleaseKilled

\* Killed outright.
LEMMA CrashKeeps == Running /\ Crash => Down'
<1> SUFFICES ASSUME Running, Crash PROVE Down'
    OBVIOUS
<1>1. /\ Stop /\ PoolGone /\ kept' = NotKept /\ shm' = NoSegment
      /\ shm'.objs = <<>> /\ shm'.state = "none"
    BY DEF Crash, Running, NoSegment
<1>2. /\ ~up' /\ index' = <<>> /\ curMax' = 0 /\ lastCheck' = 0 /\ now' = now /\ downs' \in Nat
      /\ free' = <<>> /\ used' = {} /\ pool' = [p \in Pos |-> NoObj]
    BY <1>1 DEF Stop, PoolGone, Running, TypeOK
<1>3. DOMAIN index' = {}
    BY <1>2
<1>4. TypeOK'
    <2>1. free' \in Seq(Pos) /\ used' \in SUBSET Pos /\ pool' \in [Pos -> Object \cup {NoObj}]
        BY <1>2
    <2>2. curMax' \in Nat /\ lastCheck' \in Nat /\ now' \in Nat
        BY <1>2 DEF Running, TypeOK
    <2>3. up' \in BOOLEAN
        BY <1>1, Zenon DEF Stop
    <2>4. shm'.objs \in Seq(Object) /\ shm'.state \in {"none", "whole", "torn"}
        BY <1>1
    <2> QED BY <1>2, <1>3, <2>1, <2>2, <2>3, <2>4 DEF TypeOK
<1>5. Clocks' /\ IdleBound'
    BY <1>2 DEF Running, Clocks, TypeOK, IdleBound
<1>6. SidsBounded' /\ SegmentFits'
    BY <1>1, <1>2 DEF SidsBounded, SegmentFits
<1>7. SegmentKept'
    BY <1>1 DEF SegmentKept, NotKept
<1> QED BY <1>2, <1>4, <1>5, <1>6, <1>7 DEF Down

\* Time goes on while the process is down.
LEMMA TickKeepsDown == Down /\ Tick => Down'
<1> SUFFICES ASSUME Down, Tick PROVE Down'
    OBVIOUS
<1>1. /\ now' = now + 1 /\ now \in Nat /\ ~up
      /\ UNCHANGED <<free, used, pool, shm, up, index, curMax, lastCheck, downs, kept>>
    BY DEF Tick, Down, TypeOK
<1>2. TypeOK' /\ Clocks' /\ IdleBound'
    BY <1>1 DEF Down, TypeOK, Clocks, IdleBound
<1>3. SidsBounded' /\ SegmentFits' /\ SegmentKept'
    BY <1>1 DEF Down, SidsBounded, SegmentFits, SegmentKept
<1> QED BY <1>1, <1>2, <1>3 DEF Down

\* What Init reads back: the objects of the segment, each at a position of
\* its own, and one entry for each of their numbers.
LEMMA StartReads ==
    ASSUME Down, Start
    PROVE  /\ ListsAgree'
           /\ \A p \in used' : Size - p \in 1 .. Len(shm.objs) /\ pool'[p] = shm.objs[Size - p]
           /\ \A k \in 1 .. Len(shm.objs) : Size - k \in used' /\ pool'[Size - k] = shm.objs[k]
           /\ pool' \in [Pos -> Object \cup {NoObj}]
           /\ DOMAIN index' = {pool'[p].sid : p \in used'}
           /\ \A i \in DOMAIN index' : index'[i] \in used' /\ pool'[index'[i]].sid = i
<1> DEFINE n == Len(shm.objs)
<1>1. n \in 0 .. Size /\ Restored = n /\ shm.objs \in Seq(Object)
    BY DEF Restored, Down, SegmentFits, TypeOK
<1>2. /\ free' = [i \in 1 .. Size - n |-> Size - n - i] /\ used' = Size - n .. Size - 1
      /\ pool' = [p \in Pos |-> IF p >= Size - n THEN shm.objs[Size - p] ELSE NoObj]
    BY <1>1 DEF Start, PoolInit
<1>3. ListsAgree'
    BY <1>1, <1>2, InitKeepsLists
<1>4. \A p \in used' : Size - p \in 1 .. n /\ pool'[p] = shm.objs[Size - p]
    BY <1>1, <1>2 DEF Pos
<1>5. ASSUME NEW k \in 1 .. n PROVE Size - k \in used' /\ pool'[Size - k] = shm.objs[k]
    <2>1. Size - k \in Pos /\ Size - k >= Size - n /\ Size - (Size - k) = k /\ Size - k \in used'
        BY <1>1, <1>2 DEF Pos
    <2> QED BY <1>2, <2>1
<1>6. pool' \in [Pos -> Object \cup {NoObj}]
    <2>1. \A p \in Pos : p >= Size - n => Size - p \in 1 .. n
        BY <1>1 DEF Pos
    <2> QED BY <1>1, <1>2, <2>1
<1>7. index' \in {f \in [{pool'[p].sid : p \in used'} -> used'] :
                     \A i \in {pool'[p].sid : p \in used'} : pool'[f[i]].sid = i}
    BY DEF Start
<1> HIDE DEF n
<1>8. /\ DOMAIN index' = {pool'[p].sid : p \in used'}
      /\ \A i \in DOMAIN index' : index'[i] \in used' /\ pool'[index'[i]].sid = i
    BY <1>7
<1> QED BY <1>3, <1>4, <1>5, <1>6, <1>8 DEF n

\* Starting makes a running process of what was left.
LEMMA StartKeeps == Down /\ Start => Running'
<1> SUFFICES ASSUME Down, Start PROVE Running'
    OBVIOUS
<1>1. /\ ListsAgree'
      /\ \A p \in used' : Size - p \in 1 .. Len(shm.objs) /\ pool'[p] = shm.objs[Size - p]
      /\ pool' \in [Pos -> Object \cup {NoObj}]
      /\ DOMAIN index' = {pool'[p].sid : p \in used'}
      /\ \A i \in DOMAIN index' : index'[i] \in used' /\ pool'[index'[i]].sid = i
    BY StartReads
<1>2. /\ up' = TRUE /\ shm' = NoSegment /\ UNCHANGED <<now, lastCheck, downs>>
      /\ curMax' = CHOOSE m \in DOMAIN index' \cup {0} : \A i \in DOMAIN index' : i <= m
    BY DEF Start, PoolInit
<1>3. PICK b \in Nat : \A k \in 1 .. Len(shm.objs) : shm.objs[k].sid <= b
    BY DEF Down, SidsBounded
<1>4. shm.objs \in Seq(Object) /\ Len(shm.objs) \in Nat
    BY DEF Down, TypeOK
<1>5. \A p \in used' : pool'[p] \in Object /\ pool'[p].sid \in Nat /\ pool'[p].sid <= b
    BY <1>1, <1>3, <1>4, ObjectFields
<1>6. DOMAIN index' \in SUBSET Nat /\ \A i \in DOMAIN index' : i <= b
    BY <1>1, <1>5
<1>7. IsFiniteSet(DOMAIN index')
    BY <1>6, FS_BoundedSetOfNaturals
<1>8. curMax' \in Nat
    <2> DEFINE ids == DOMAIN index' \cup {0}
    <2>1. ids \in SUBSET Nat /\ ids # {} /\ \A i \in ids : i <= b
        BY <1>6
    <2>2. \E m \in ids : \A i \in ids : i <= m
        BY <2>1, HasLargest
    <2>3. curMax' \in ids
        BY <1>2, <2>2
    <2> QED BY <2>1, <2>3
<1>9. IndexAgrees'
    <2>1. ASSUME NEW p \in used', pool'[p].sid # 0
          PROVE  pool'[p].sid \in DOMAIN index' /\ index'[pool'[p].sid] = p
        <3> DEFINE q == index'[pool'[p].sid]
        <3>1. pool'[p].sid \in DOMAIN index' /\ q \in used' /\ pool'[q].sid = pool'[p].sid
            BY <1>1
        <3> HIDE DEF q
        <3>2. /\ Size - p \in 1 .. Len(shm.objs) /\ pool'[p] = shm.objs[Size - p] /\ p \in Int
              /\ Size - q \in 1 .. Len(shm.objs) /\ pool'[q] = shm.objs[Size - q] /\ q \in Int
            BY <1>1, <3>1 DEF ListsAgree, Pos
        <3>3. Size - p = Size - q
            BY <2>1, <3>1, <3>2 DEF Down, SegmentFits
        <3>4. p = q
            BY <3>2, <3>3
        <3> QED BY <3>1, <3>4 DEF q
    <2> QED BY <1>1, <1>5, <1>7, <2>1 DEF IndexAgrees
<1>10. TypeOK'
    <2>1. up' \in BOOLEAN /\ shm'.state = "none" /\ shm'.objs \in Seq(Object)
        BY <1>2 DEF NoSegment
    <2>2. \A i \in DOMAIN index' : index'[i] \in Pos
        BY <1>1 DEF ListsAgree
    <2> QED BY <1>1, <1>2, <1>6, <1>8, <2>1, <2>2 DEF TypeOK, Down, ListsAgree
<1>11. Clocks' /\ IdleBound'
    <2>1. lastCheck' = 0 /\ now' \in Nat /\ CheckSec <= now'
        BY <1>2 DEF Down, Clocks, TypeOK
    <2>2. CheckDue'
        BY <2>1 DEF CheckDue
    <2> QED BY <1>2, <2>1, <2>2 DEF Clocks, IdleBound
<1>12. SidsBounded'
    <2>1. Len(shm'.objs) = 0
        BY <1>2 DEF NoSegment
    <2> QED BY <1>5, <2>1 DEF SidsBounded
<1> QED BY <1>1, <1>2, <1>9, <1>10, <1>11, <1>12 DEF Running

-----------------------------------------------------------------------------
(* The theorems.                                                           *)

IInv == Running \/ Down

\* The system starts with the process down and no segment.
LEMMA InitDown == Init => Down
<1> SUFFICES ASSUME Init PROVE Down
    OBVIOUS
<1>1. /\ free = <<>> /\ used = {} /\ pool = [p \in Pos |-> NoObj] /\ shm = NoSegment
      /\ up = FALSE /\ index = <<>> /\ curMax = 0
      /\ now = CheckSec /\ lastCheck = 0 /\ downs = MaxDowns /\ kept = NotKept
    BY DEF Init
<1>2. shm.state = "none" /\ shm.objs = <<>> /\ up \in BOOLEAN
    BY <1>1, Zenon DEF NoSegment
<1>3. DOMAIN index = {}
    BY <1>1
<1>4. TypeOK
    BY <1>1, <1>2, <1>3 DEF TypeOK
<1>5. Clocks /\ IdleBound
    BY <1>1 DEF Clocks, IdleBound
<1>6. SidsBounded /\ SegmentFits /\ SegmentKept
    BY <1>1, <1>2 DEF SidsBounded, SegmentFits, SegmentKept, NotKept
<1> QED BY <1>1, <1>4, <1>5, <1>6 DEF Down

\* Every action keeps the invariant.
LEMMA IInvStep == IInv /\ [Next]_vars => IInv'
<1> SUFFICES ASSUME IInv, [Next]_vars PROVE IInv'
    OBVIOUS
<1>1. CASE UNCHANGED vars
    BY <1>1 DEF vars, IInv, Running, Down, TypeOK, Clocks, IdleBound, CheckDue, Idle, SidsBounded,
                ListsAgree, IndexAgrees, SegmentFits, SegmentKept
<1>2. CASE CreateSession
    BY <1>2, CreateSessionKeeps DEF IInv, Down, CreateSession
<1>3. CASE CreateSessionNull
    BY <1>3, CreateSessionNullKeeps DEF IInv, Down, CreateSessionNull
<1>4. ASSUME NEW sid \in DOMAIN index, ReleaseSession(sid) PROVE IInv'
    BY <1>4, ReleaseSessionKeeps DEF IInv, Down, ReleaseSession
<1>5. ASSUME NEW sid \in DOMAIN index, SendMsgToDBProxy(sid) PROVE IInv'
    BY <1>5, SendKeeps DEF IInv, Down, SendMsgToDBProxy
<1>6. CASE CheckTimeOut
    BY <1>6, CheckTimeOutKeeps DEF IInv, Down, CheckTimeOut
<1>7. CASE Tick
    BY <1>7, TickKeeps, TickKeepsDown DEF IInv
<1>8. CASE Exit
    BY <1>8, ExitKeeps DEF IInv, Down, Exit, Stop
<1>9. CASE ExitKilled
    BY <1>9, ExitKilledKeeps DEF IInv, Down, ExitKilled, Stop
<1>10. CASE Crash
    BY <1>10, CrashKeeps DEF IInv, Down, Crash, Stop
<1>11. CASE Start
    BY <1>11, StartKeeps DEF IInv, Running, Start
<1> QED BY <1>1, <1>2, <1>3, <1>4, <1>5, <1>6, <1>7, <1>8, <1>9, <1>10, <1>11 DEF Next

\* So it holds always.
LEMMA AlwaysIInv == Spec => []IInv
    BY InitDown, IInvStep, PTL DEF Spec, IInv

\* Every variable keeps its type, _cur_max_id rebuilt by Init included.
THEOREM SessionTypes == Spec => []TypeOK
<1>1. IInv => TypeOK
    BY DEF IInv, Running, Down
<1> QED BY <1>1, AlwaysIInv, PTL

\* For every pool size and every wrap-around of the numbers: no position is lost
\* to both lists or in both, none has two owners and no number two sessions
\* (Malloc, Free, CreateSession, ReleaseSession, CheckTimeOut and both Init).
THEOREM PoolStaysSound == Spec => []PoolInv
<1>1. IInv => PoolInv
    <2> SUFFICES ASSUME Running PROVE PoolInv
        BY DEF IInv, Down, PoolInv
    <2>1. \A p \in used : pool[p] # NoObj
        BY ObjectAssumption DEF Running, IndexAgrees
    <2> QED BY <2>1 DEF Running, ListsAgree, IndexAgrees, PoolInv
<1> QED BY <1>1, AlwaysIInv, PTL

\* For every timeout and interval of the check: no session outlives its timeout
\* by more than the time since the last check, across restarts, after which the
\* old times count on.
THEOREM IdleStaysBounded == Spec => []IdleBound
<1>1. IInv => IdleBound
    BY DEF IInv, Running, Down
<1> QED BY <1>1, AlwaysIInv, PTL

\* A restart after any end of the process, and after any number of earlier ones,
\* brings back sessions that were there, with their times, and after an exit in
\* order every one of them (Release, Init).
THEOREM RestartsKeepSessions == Spec => RestartKeepsSessions
<1> DEFINE Brings ==
        ~up /\ up' =>
            /\ \A i \in DOMAIN index' \ {0} :
                  i \in DOMAIN kept.time /\ pool'[index'[i]].time = kept.time[i]
            /\ kept.all => DOMAIN kept.time \subseteq DOMAIN index'
<1>1. IInv /\ [Next]_vars => [Brings]_vars
    <2> SUFFICES ASSUME IInv, Next, ~up, up' PROVE Brings
        BY DEF vars
    <2>1. Start
        BY DEF Next, CreateSession, CreateSessionNull, ReleaseSession, SendMsgToDBProxy, CheckTimeOut,
               Tick, Exit, ExitKilled, Crash, Stop
    <2>2. Down
        BY DEF IInv, Running
    <2>3. /\ \A p \in used' : Size - p \in 1 .. Len(shm.objs) /\ pool'[p] = shm.objs[Size - p]
          /\ \A k \in 1 .. Len(shm.objs) : Size - k \in used' /\ pool'[Size - k] = shm.objs[k]
          /\ DOMAIN index' = {pool'[p].sid : p \in used'}
          /\ \A i \in DOMAIN index' : index'[i] \in used' /\ pool'[index'[i]].sid = i
        BY <2>1, <2>2, StartReads
    <2>4. ASSUME NEW i \in DOMAIN index' \ {0}
          PROVE  i \in DOMAIN kept.time /\ pool'[index'[i]].time = kept.time[i]
        <3>1. index'[i] \in used' /\ pool'[index'[i]].sid = i
            BY <2>3
        <3>2. Size - index'[i] \in 1 .. Len(shm.objs) /\ pool'[index'[i]] = shm.objs[Size - index'[i]]
            BY <2>3, <3>1
        <3> QED BY <2>2, <3>1, <3>2 DEF Down, SegmentKept
    <2>5. ASSUME kept.all, NEW i \in DOMAIN kept.time PROVE i \in DOMAIN index'
        <3>1. PICK k \in 1 .. Len(shm.objs) : shm.objs[k].sid = i
            BY <2>2, <2>5 DEF Down, SegmentKept
        <3>2. Size - k \in used' /\ pool'[Size - k].sid = i
            BY <2>3, <3>1
        <3> QED BY <2>3, <3>2
    <2> QED BY <2>4, <2>5
<1> QED BY <1>1, AlwaysIInv, PTL DEF Spec, RestartKeepsSessions

\* CreateSession loses a position to a session without a number only when at
\* least MaxCollide sessions have one, wherever the counter stands.
THEOREM LeaksNeedACrowd == Spec => LeaksOnlyInACrowd
<1> DEFINE Crowd ==
        up /\ up' => \A p \in used' \ used :
            \/ \E i \in DOMAIN index' : index'[i] = p
            \/ Cardinality(DOMAIN index \ {0}) >= MaxCollide
<1>1. IInv /\ [Next]_vars => [Crowd]_vars
    <2> SUFFICES ASSUME IInv, Next, up, up', NEW p \in used' \ used,
                        ~\E i \in DOMAIN index' : index'[i] = p
                 PROVE  Cardinality(DOMAIN index \ {0}) >= MaxCollide
        BY DEF vars
    <2>1. Running
        BY DEF IInv, Down
    <2>2. ~CreateSession
        <3> SUFFICES ASSUME CreateSession PROVE FALSE
            OBVIOUS
        <3>1. PICK sid \in Unused :
                /\ Malloc(Obj(sid, now))
                /\ index' = [i \in DOMAIN index \cup {sid} |-> IF i = sid THEN Head(free) ELSE index[i]]
            BY DEF CreateSession
        <3>2. p = Head(free)
            BY <3>1 DEF Malloc
        <3>3. sid \in DOMAIN index' /\ index'[sid] = p
            BY <3>1, <3>2
        <3> QED BY <3>3
    <2>3. CreateSessionNull
        BY <2>2 DEF Next, ReleaseSession, SendMsgToDBProxy, CheckTimeOut, Free, Tick, Exit, ExitKilled,
                    Crash, Stop, Start
    <2>4. curMax \in Nat /\ IsFiniteSet(DOMAIN index)
        BY <2>1 DEF Running, TypeOK, IndexAgrees
    <2> DEFINE tried == curMax + 1 .. curMax + MaxCollide
    <2>5. tried \in SUBSET (DOMAIN index \ {0})
        BY <2>3, <2>4 DEF CreateSessionNull, Unused
    <2>6. Cardinality(tried) = MaxCollide
        BY <2>4, FS_Interval
    <2>7. IsFiniteSet(DOMAIN index \ {0})
        BY <2>4, FS_RemoveElement
    <2>8. Cardinality(tried) <= Cardinality(DOMAIN index \ {0})
        BY <2>5, <2>7, FS_Subset
    <2>9. Cardinality(DOMAIN index \ {0}) \in Nat
        BY <2>7, FS_CardinalityType
    <2> QED BY <2>6, <2>8, <2>9
<1> QED BY <1>1, AlwaysIInv, PTL DEF Spec, LeaksOnlyInACrowd
=============================================================================
