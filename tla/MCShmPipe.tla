----------------------------- MODULE MCShmPipe -----------------------------
(***************************************************************************)
(* A small ring.  Message a has one byte, b has three, and c has four,     *)
(* which is more than the reader's buffer takes.                           *)
(***************************************************************************)
EXTENDS ShmPipe, TLC

CONSTANTS a, b, c

OversizeToo == a :> 1 @@ b :> 3 @@ c :> 4
=============================================================================
