----------------------------- MODULE AuthProofs -----------------------------
(***************************************************************************)
(* What the auth servers guarantee for any number of servers, accounts and *)
(* crashes, and what a single server adds to it.                           *)
(***************************************************************************)
EXTENDS Auth, TLAPS

\* Type and the two properties of many servers: inductive together.
Kept == TypeOK /\ IndexIsMax /\ SameUid

\* Each step of an auth server, crashes included, keeps them.
LEMMA KeptStep == Kept /\ [Next]_vars => Kept'
<1> SUFFICES ASSUME Kept, [Next]_vars PROVE Kept'
    OBVIOUS
<1> USE DEF Kept, TypeOK, None
<1>1. CASE UNCHANGED vars
    BY <1>1 DEF vars, IndexIsMax, SameUid
<1>2. ASSUME NEW s \in Svr, Start(s) PROVE Kept'
    <2>1. TypeOK' BY <1>2 DEF Start
    <2>2. IndexIsMax' BY <1>2 DEF Start, IndexIsMax
    <2>3. SameUid' BY <1>2 DEF Start, SameUid
    <2> QED BY <2>1, <2>2, <2>3
<1>3. ASSUME NEW s \in Svr, NEW a \in Account, SelectFound(s, a) PROVE Kept'
    <2>1. TypeOK' BY <1>3 DEF SelectFound
    <2>2. IndexIsMax' BY <1>3 DEF SelectFound, IndexIsMax
    <2>3. SameUid' BY <1>3 DEF SelectFound, SameUid
    <2> QED BY <2>1, <2>2, <2>3
<1>4. ASSUME NEW s \in Svr, NEW a \in Account, SelectNothing(s, a) PROVE Kept'
    <2>1. TypeOK' BY <1>4 DEF SelectNothing
    <2>2. IndexIsMax' BY <1>4 DEF SelectNothing, IndexIsMax
    <2>3. SameUid' BY <1>4 DEF SelectNothing, SameUid
    <2> QED BY <2>1, <2>2, <2>3
<1>5. ASSUME NEW s \in Svr, UpdateIndex(s) PROVE Kept'
    <2>1. TypeOK' BY <1>5 DEF UpdateIndex
    <2>2. mem[s] + 1 <= uidIndex' /\ uidIndex <= uidIndex'
        BY <1>5 DEF UpdateIndex, IndexIsMax
    <2>3. IndexIsMax' BY <1>5, <2>1, <2>2 DEF UpdateIndex, IndexIsMax
    <2>4. SameUid' BY <1>5 DEF UpdateIndex, SameUid
    <2> QED BY <2>1, <2>3, <2>4
<1>6. ASSUME NEW s \in Svr, Insert(s) PROVE Kept'
    <2>1. TypeOK' BY <1>6 DEF Insert
    <2>2. IndexIsMax' BY <1>6 DEF Insert, IndexIsMax
    <2>3. told[req[s]] = {} BY <1>6 DEF Insert, SameUid
    <2>4. mem[s] # 0 BY <1>6 DEF Insert, IndexIsMax
    <2>5. SameUid' BY <1>6, <2>3, <2>4 DEF Insert, SameUid
    <2> QED BY <2>1, <2>2, <2>5
<1>7. ASSUME NEW s \in Svr, DiesBefore(s) PROVE Kept'
    <2>1. TypeOK' BY <1>7 DEF DiesBefore, Dies
    <2>2. IndexIsMax' BY <1>7 DEF DiesBefore, Dies, IndexIsMax
    <2>3. SameUid' BY <1>7 DEF DiesBefore, Dies, SameUid
    <2> QED BY <2>1, <2>2, <2>3
<1>8. ASSUME NEW s \in Svr, DiesAfterUpdate(s) PROVE Kept'
    <2>1. TypeOK' BY <1>8 DEF DiesAfterUpdate, Dies
    <2>2. uidIndex <= uidIndex' BY <1>8 DEF DiesAfterUpdate, Dies, IndexIsMax
    <2>3. IndexIsMax' BY <1>8, <2>1, <2>2 DEF DiesAfterUpdate, Dies, IndexIsMax
    <2>4. SameUid' BY <1>8 DEF DiesAfterUpdate, Dies, SameUid
    <2> QED BY <2>1, <2>3, <2>4
<1>9. ASSUME NEW s \in Svr, DiesAfterInsert(s) PROVE Kept'
    <2>1. TypeOK' BY <1>9 DEF DiesAfterInsert, Dies
    <2>2. IndexIsMax' BY <1>9 DEF DiesAfterInsert, Dies, IndexIsMax
    <2>3. told[req[s]] = {} BY <1>9 DEF DiesAfterInsert, SameUid
    <2>4. SameUid' BY <1>9, <2>3 DEF DiesAfterInsert, Dies, SameUid
    <2> QED BY <2>1, <2>2, <2>4
<1> QED BY <1>1, <1>2, <1>3, <1>4, <1>5, <1>6, <1>7, <1>8, <1>9 DEF Next, SvrStep

\* They hold before any server starts.
LEMMA KeptInit == Init => Kept
    BY DEF Init, Kept, TypeOK, IndexIsMax, SameUid, None

\* So they hold always.
LEMMA AlwaysKept == Spec => []Kept
    BY KeptInit, KeptStep, PTL DEF Spec

\* However many auth servers run and crash, between or inside the statements
\* of OnAuthorization, uid_index is never behind a stored uid.
THEOREM IndexStaysMax == Spec => []IndexIsMax
    <1>1. Kept => IndexIsMax BY DEF Kept
    <1> QED BY <1>1, AlwaysKept, PTL

\* However many auth servers run and crash, the uid a client was told for its
\* account stays the account's uid (the select, the primary key of the insert).
THEOREM UidStays == Spec => []SameUid
    <1>1. Kept => SameUid BY DEF Kept
    <1> QED BY <1>1, AlwaysKept, PTL

-----------------------------------------------------------------------------
(* The accounts of one server.  Its number is not behind their uids while  *)
(* it runs, and ahead of them when it is about to insert.                  *)

\* An account has a uid exactly when some server stored it.
Owned == \A a \in Account : table[a] # None <=> \E s \in Svr : a \in own[s]

Ahead ==
    \A s \in Svr :
        /\ pc[s] \in {"idle", "update"} => \A a \in own[s] : table[a] <= mem[s]
        /\ pc[s] = "insert" => \A a \in own[s] : table[a] < mem[s]

Distinct == Kept /\ Owned /\ Ahead /\ OwnUidsUnique

\* Storing one more account with the number at hand, which is what Insert does
\* whether or not the process survives it.
LEMMA StoreKeeps ==
    ASSUME Distinct, NEW s \in Svr, pc[s] = "insert", table[req[s]] = None,
           table' = [table EXCEPT ![req[s]] = mem[s]],
           own' = [own EXCEPT ![s] = @ \cup {req[s]}]
    PROVE  /\ Owned' /\ OwnUidsUnique'
           /\ \A a \in own'[s] : table'[a] <= mem[s]
           /\ \A t \in Svr \ {s} : own'[t] = own[t] /\ \A a \in own[t] : table'[a] = table[a]
<1> USE DEF Distinct, Kept, TypeOK, None
<1>1. mem[s] # 0 BY DEF IndexIsMax
<1>2. \A t \in Svr : req[s] \notin own[t] BY DEF Owned
<1>3. \A a \in Account : table'[a] = IF a = req[s] THEN mem[s] ELSE table[a]
    OBVIOUS
<1>4. \A t \in Svr : own'[t] = IF t = s THEN own[s] \cup {req[s]} ELSE own[t]
    OBVIOUS
<1>5. \A a \in own[s] : table[a] < mem[s] BY DEF Ahead
<1>6. Owned' BY <1>1, <1>3, <1>4 DEF Owned
<1>7. OwnUidsUnique' BY <1>2, <1>3, <1>4, <1>5 DEF OwnUidsUnique
<1>8. \A a \in own'[s] : table'[a] <= mem[s] BY <1>3, <1>4, <1>5
<1>9. \A t \in Svr \ {s} : own'[t] = own[t] /\ \A a \in own[t] : table'[a] = table[a]
    BY <1>2, <1>3, <1>4
<1> QED BY <1>6, <1>7, <1>8, <1>9

\* Each step keeps every server's number ahead and its uids distinct.
LEMMA DistinctStep == Distinct /\ [Next]_vars => Distinct'
<1> SUFFICES ASSUME Distinct, [Next]_vars PROVE Owned' /\ Ahead' /\ OwnUidsUnique'
    BY KeptStep DEF Distinct
<1> USE DEF Distinct, Kept, TypeOK, None
<1>1. CASE UNCHANGED vars
    BY <1>1 DEF vars, Owned, Ahead, OwnUidsUnique
<1>2. ASSUME NEW s \in Svr, Start(s) PROVE Owned' /\ Ahead' /\ OwnUidsUnique'
    BY <1>2 DEF Start, Owned, Ahead, OwnUidsUnique, IndexIsMax
<1>3. ASSUME NEW s \in Svr, NEW a \in Account, SelectFound(s, a)
      PROVE  Owned' /\ Ahead' /\ OwnUidsUnique'
    BY <1>3 DEF SelectFound, Owned, Ahead, OwnUidsUnique
<1>4. ASSUME NEW s \in Svr, NEW a \in Account, SelectNothing(s, a)
      PROVE  Owned' /\ Ahead' /\ OwnUidsUnique'
    BY <1>4 DEF SelectNothing, Owned, Ahead, OwnUidsUnique
<1>5. ASSUME NEW s \in Svr, UpdateIndex(s) PROVE Owned' /\ Ahead' /\ OwnUidsUnique'
    <2>1. \A a \in own[s] : table[a] < mem[s] + 1 BY <1>5 DEF UpdateIndex, Ahead
    <2>2. Ahead' BY <1>5, <2>1 DEF UpdateIndex, Ahead
    <2> QED BY <1>5, <2>2 DEF UpdateIndex, Owned, OwnUidsUnique
<1>6. ASSUME NEW s \in Svr, Insert(s) PROVE Owned' /\ Ahead' /\ OwnUidsUnique'
    <2>1. /\ Owned' /\ OwnUidsUnique'
          /\ \A a \in own'[s] : table'[a] <= mem[s]
          /\ \A t \in Svr \ {s} : own'[t] = own[t] /\ \A a \in own[t] : table'[a] = table[a]
        BY <1>6, StoreKeeps DEF Insert
    <2>2. Ahead' BY <1>6, <2>1 DEF Insert, Ahead
    <2> QED BY <2>1, <2>2
<1>7. ASSUME NEW s \in Svr, DiesBefore(s) PROVE Owned' /\ Ahead' /\ OwnUidsUnique'
    BY <1>7 DEF DiesBefore, Dies, Owned, Ahead, OwnUidsUnique
<1>8. ASSUME NEW s \in Svr, DiesAfterUpdate(s) PROVE Owned' /\ Ahead' /\ OwnUidsUnique'
    BY <1>8 DEF DiesAfterUpdate, Dies, Owned, Ahead, OwnUidsUnique
<1>9. ASSUME NEW s \in Svr, DiesAfterInsert(s) PROVE Owned' /\ Ahead' /\ OwnUidsUnique'
    <2>1. /\ Owned' /\ OwnUidsUnique'
          /\ \A t \in Svr \ {s} : own'[t] = own[t] /\ \A a \in own[t] : table'[a] = table[a]
        BY <1>9, StoreKeeps DEF DiesAfterInsert
    <2>2. Ahead' BY <1>9, <2>1 DEF DiesAfterInsert, Dies, Ahead
    <2> QED BY <2>1, <2>2
<1> QED BY <1>1, <1>2, <1>3, <1>4, <1>5, <1>6, <1>7, <1>8, <1>9 DEF Next, SvrStep

\* So it is always.
LEMMA AlwaysDistinct == Spec => []Distinct
<1>1. Init => Distinct
    BY KeptInit DEF Init, Distinct, Owned, Ahead, OwnUidsUnique, None
<1> QED BY <1>1, DistinctStep, PTL DEF Spec

\* However many auth servers run and crash, none gives the same uid to two
\* accounts (_uid_index, counted on from uid_index after every start).
THEOREM OwnUidsStayUnique == Spec => []OwnUidsUnique
    <1>1. Distinct => OwnUidsUnique BY DEF Distinct
    <1> QED BY <1>1, AlwaysDistinct, PTL

-----------------------------------------------------------------------------
Single == \A s, t \in Svr : s = t
UidsUnique == \A a, b \in Account : a # b /\ table[a] = table[b] => table[a] = None

\* The deployment of start.sh: a single auth server never gives two accounts
\* the same uid, wherever it crashes and however often it restarts.
THEOREM OneServerUidsUnique == ASSUME Single PROVE Spec => []UidsUnique
<1>1. Distinct => UidsUnique
    BY DEF Distinct, Owned, OwnUidsUnique, UidsUnique, Single
<1> QED BY <1>1, AlwaysDistinct, PTL
=============================================================================
