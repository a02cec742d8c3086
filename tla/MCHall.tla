------------------------------ MODULE MCHall ------------------------------
(***************************************************************************)
(* Two connections of two players.  Either tcpsvr has one position and the *)
(* hall server room for both players, so that one connection logs in both, *)
(* or it has two positions and there is room for one player.               *)
(***************************************************************************)
EXTENDS Hall

Players == [S \in {{1}, {1, 2}} |-> IF S = {1} THEN 2 ELSE 1]

Troubles == [sends |-> 2, faults |-> 2]
=============================================================================
