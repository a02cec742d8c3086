----------------------------- MODULE ObjectMng -----------------------------
(***************************************************************************)
(* The pool under the session, player and timer managers                   *)
(* (include/object_mng.hpp): a fixed array of objects, a list of free      *)
(* positions, a set of used ones, and a shared memory segment in which the *)
(* used objects survive a restart.  A process that is down has an empty    *)
(* pool here.                                                              *)
(*                                                                         *)
(* A definition X_Slip before X is X with a slip such code invites; only   *)
(* the tests of the properties use it.                                     *)
(***************************************************************************)
EXTENDS Integers, Sequences

CONSTANTS Size,   \* _size
          NoObj   \* what a position holds that is not used

ASSUME SizeAssumption == Size \in Nat \ {0}

VARIABLES free,   \* _free_list, front first
          used,   \* _used_list
          pool,   \* _pool
          shm     \* the segment: whether there is one and it can be read, and the
                  \* objects in it

Pos == 0 .. Size - 1
Segment(objs) == [state |-> "whole", objs |-> objs]
NoSegment     == [state |-> "none", objs |-> <<>>]
TornSegment   == [state |-> "torn", objs |-> <<>>]
Positions(s) == {s[i] : i \in 1 .. Len(s)}

\* The order in which a set of positions is walked is the hash table's.
Distinct(s) == \A i, j \in 1 .. Len(s) : i # j => s[i] # s[j]
Walks(S) == {s \in UNION {[1 .. n -> S] : n \in 0 .. Size} : Distinct(s) /\ Positions(s) = S}

\* Init builds the free list with push_front, so Malloc hands out the last
\* position first, and the objects of a segment are put there in order.
\* Those beyond the size of the pool are dropped.  One that UnSerialize does not
\* take makes Init fail, and the segment stays: the server never starts.
Restored_OneShort == IF Len(shm.objs) < Size THEN Len(shm.objs) ELSE Size - 1
Restored == IF Len(shm.objs) <= Size THEN Len(shm.objs) ELSE Size
PoolInit_FromOne ==
    LET n == Restored
    IN /\ free' = [i \in 1 .. Size - n |-> Size - n - i + 1]
       /\ used' = Size - n .. Size - 1
       /\ pool' = [p \in Pos |-> IF p >= Size - n THEN shm.objs[Size - p] ELSE NoObj]
       /\ shm' = NoSegment
PoolInit ==
    LET n == Restored
    IN /\ shm.state # "torn"
       /\ free' = [i \in 1 .. Size - n |-> Size - n - i]
       /\ used' = Size - n .. Size - 1
       /\ pool' = [p \in Pos |-> IF p >= Size - n THEN shm.objs[Size - p] ELSE NoObj]
       /\ shm' = NoSegment

\* Malloc, and what the caller makes of the fresh object.
Malloc(obj) ==
    /\ free # <<>>
    /\ free' = Tail(free)
    /\ used' = used \cup {Head(free)}
    /\ pool' = [pool EXCEPT ![Head(free)] = obj]

\* Free of several positions, the last one first.
Free(ps) ==
    /\ free' = ps \o free
    /\ used' = used \ Positions(ps)
    /\ pool' = [p \in Pos |-> IF p \in Positions(ps) THEN NoObj ELSE pool[p]]

\* The process is gone.
PoolGone == free' = <<>> /\ used' = {} /\ pool' = [p \in Pos |-> NoObj]

\* Release writes the used objects to a new segment.  It gives up when there
\* is one already: Delete answers false when it has deleted.
PoolRelease ==
    /\ PoolGone
    /\ IF shm.state # "none" THEN shm' = NoSegment
       ELSE \E w \in Walks(used) : shm' = Segment([i \in 1 .. Len(w) |-> pool[w[i]]])

\* Release killed on the way.  The segment is zero-filled: the number of objects
\* is still missing, or the objects from some point on are read back as fresh
\* ones, or the length of one is there and what it announces is not.
PoolReleaseKilled(fresh) ==
    /\ PoolGone
    /\ IF shm.state # "none" THEN shm' = NoSegment
       ELSE \/ shm' = Segment(<<>>)
            \/ used # {} /\ shm' = TornSegment
            \/ \E w \in Walks(used) : \E done \in 0 .. Len(w) :
                  shm' = Segment([i \in 1 .. Len(w) |-> IF i <= done THEN pool[w[i]] ELSE fresh])
=============================================================================
