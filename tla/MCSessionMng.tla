--------------------------- MODULE MCSessionMng ---------------------------
(***************************************************************************)
(* A small pool whose session numbers wrap early.                          *)
(***************************************************************************)
EXTENDS SessionMng
=============================================================================
