----------------------------- MODULE MCCenter -----------------------------
(***************************************************************************)
(* The center between two servers; every run has its own budget of         *)
(* messages, restarts and faults.                                          *)
(***************************************************************************)
EXTENDS Center

BudgetOf(msgs, exits, rsts, again, late, kills) ==
    [msgs |-> msgs, exits |-> exits, rsts |-> rsts, again |-> again, late |-> late, kills |-> kills]

Everything == BudgetOf(2, 1, 1, 1, 2, 0)
Liveness   == BudgetOf(1, 1, 0, 1, 1, 1)
Resets     == BudgetOf(2, 3, 1, 0, 0, 0)
=============================================================================
