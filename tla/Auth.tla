------------------------------- MODULE Auth -------------------------------
(***************************************************************************)
(* The auth server (authsvr/db_mng.cpp): it finds the uid of an account or *)
(* gives a guest a new one.  The numbers come from the table uid_index,    *)
(* which a server reads when it starts and then counts along with; taking  *)
(* a number and storing the account are two statements, each committed by  *)
(* itself.  _conn throws on errors and nobody catches, so that a statement *)
(* that fails ends the process, with or without its effect on the tables.  *)
(*                                                                         *)
(* A definition X_Slip before X is X with a slip such code invites; only   *)
(* the tests of the properties use it.                                     *)
(***************************************************************************)
EXTENDS Integers, FiniteSets

CONSTANTS Svr,         \* auth servers
          Guest,       \* guest accounts
          Other,       \* accounts of other types; none is stored at first
          MaxCrashes   \* bound on processes that end

ASSUME AuthAssumption == Guest \cap Other = {} /\ MaxCrashes \in Nat

Account == Guest \cup Other
None == 0   \* no uid; real ones are larger

VARIABLES uidIndex,  \* table uid_index: its one number
          table,     \* tables account_n: uid by account
          mem,       \* _uid_index of every server
          pc,        \* the statement a server is about to send
          req,       \* the account it works on
          told,      \* history: uids sent to clients, by account
          own,       \* history: the accounts every server stored
          crashes

vars == <<uidIndex, table, mem, pc, req, told, own, crashes>>

Init ==
    /\ uidIndex = 1 /\ table = [a \in Account |-> None]
    /\ mem = [s \in Svr |-> 0] /\ pc = [s \in Svr |-> "down"]
    /\ req \in [Svr -> Account]
    /\ told = [a \in Account |-> {}] /\ own = [s \in Svr |-> {}]
    /\ crashes = 0

Start_Zero(s) ==
    /\ pc[s] = "down"
    /\ mem' = [mem EXCEPT ![s] = 0]
    /\ pc' = [pc EXCEPT ![s] = "idle"]
    /\ UNCHANGED <<uidIndex, table, req, told, own, crashes>>

\* DBManager::Init.
Start(s) ==
    /\ pc[s] = "down"
    /\ mem' = [mem EXCEPT ![s] = uidIndex]
    /\ pc' = [pc EXCEPT ![s] = "idle"]
    /\ UNCHANGED <<uidIndex, table, req, told, own, crashes>>

\* A request for account a; the select finds it, or finds nothing.
SelectFound(s, a) ==
    /\ pc[s] = "idle" /\ table[a] # None
    /\ told' = [told EXCEPT ![a] = @ \cup {table[a]}]
    /\ UNCHANGED <<uidIndex, table, mem, pc, req, own, crashes>>

SelectNothing(s, a) ==
    /\ pc[s] = "idle" /\ table[a] = None
    /\ a \in Guest   \* others are told ACCOUNT_NOT_FOUND
    /\ req' = [req EXCEPT ![s] = a]
    /\ pc' = [pc EXCEPT ![s] = "update"]
    /\ UNCHANGED <<uidIndex, table, mem, told, own, crashes>>

UpdateIndex_Blind(s) ==
    /\ pc[s] = "update"
    /\ uidIndex' = mem[s]
    /\ mem' = [mem EXCEPT ![s] = @ + 1]
    /\ pc' = [pc EXCEPT ![s] = "insert"]
    /\ UNCHANGED <<table, req, told, own, crashes>>

\* update uid_index ... where uid = mem: no row, no error.
UpdateIndex(s) ==
    /\ pc[s] = "update"
    /\ uidIndex' = IF uidIndex = mem[s] THEN mem[s] + 1 ELSE uidIndex
    /\ mem' = [mem EXCEPT ![s] = @ + 1]
    /\ pc' = [pc EXCEPT ![s] = "insert"]
    /\ UNCHANGED <<table, req, told, own, crashes>>

Insert_Replace(s) ==
    /\ pc[s] = "insert"
    /\ table' = [table EXCEPT ![req[s]] = mem[s]]
    /\ told' = [told EXCEPT ![req[s]] = @ \cup {mem[s]}]
    /\ own' = [own EXCEPT ![s] = @ \cup {req[s]}]
    /\ pc' = [pc EXCEPT ![s] = "idle"]
    /\ UNCHANGED <<uidIndex, mem, req, crashes>>

Insert(s) ==
    /\ pc[s] = "insert" /\ table[req[s]] = None
    /\ table' = [table EXCEPT ![req[s]] = mem[s]]
    /\ told' = [told EXCEPT ![req[s]] = @ \cup {mem[s]}]
    /\ own' = [own EXCEPT ![s] = @ \cup {req[s]}]
    /\ pc' = [pc EXCEPT ![s] = "idle"]
    /\ UNCHANGED <<uidIndex, mem, req, crashes>>

Dies(s) ==
    /\ crashes < MaxCrashes
    /\ crashes' = crashes + 1
    /\ pc' = [pc EXCEPT ![s] = "down"]
    /\ UNCHANGED <<mem, req, told>>

\* The process ends before a statement, by an error of it (a second row for
\* an account is one), or after a statement that did have its effect.
DiesBefore(s) == pc[s] # "down" /\ Dies(s) /\ UNCHANGED <<uidIndex, table, own>>

DiesAfterUpdate(s) ==
    /\ pc[s] = "update" /\ Dies(s)
    /\ uidIndex' = IF uidIndex = mem[s] THEN mem[s] + 1 ELSE uidIndex
    /\ UNCHANGED <<table, own>>

DiesAfterInsert(s) ==
    /\ pc[s] = "insert" /\ table[req[s]] = None /\ Dies(s)
    /\ table' = [table EXCEPT ![req[s]] = mem[s]]
    /\ own' = [own EXCEPT ![s] = @ \cup {req[s]}]
    /\ UNCHANGED uidIndex

SvrStep(s) ==
    \/ Start(s) \/ UpdateIndex(s) \/ Insert(s)
    \/ \E a \in Account : SelectFound(s, a) \/ SelectNothing(s, a)
    \/ DiesBefore(s) \/ DiesAfterUpdate(s) \/ DiesAfterInsert(s)

Next == \E s \in Svr : SvrStep(s)

Spec == Init /\ [][Next]_vars

-----------------------------------------------------------------------------
(* Properties.                                                             *)

\* The state has its type.
TypeOK ==
    /\ uidIndex \in Nat \ {0}
    /\ table \in [Account -> Nat]
    /\ mem \in [Svr -> Nat]
    /\ pc \in [Svr -> {"down", "idle", "update", "insert"}]
    /\ req \in [Svr -> Account]
    /\ told \in [Account -> SUBSET Nat] /\ own \in [Svr -> SUBSET Account]
    /\ crashes \in Nat

\* No stored uid is above the number in uid_index, which is what a restarted
\* server goes on from; nor is the number a server is about to store.
IndexIsMax ==
    /\ \A a \in Account : table[a] <= uidIndex
    /\ \A s \in Svr : mem[s] <= uidIndex /\ (pc[s] = "insert" => mem[s] # None)

\* A client is told one uid for its account, for ever: the one stored.
SameUid == \A a \in Account : \A u \in told[a] : u = table[a] /\ u # None

\* A server never gives a uid twice, wherever it dies, however often it starts
\* again and whatever the others do (the two servers themselves may collide:
\* the update that finds no row goes unnoticed, db_mng.cpp:76-85).
OwnUidsUnique == \A s \in Svr : \A a, b \in own[s] : a # b => table[a] # table[b]
=============================================================================
