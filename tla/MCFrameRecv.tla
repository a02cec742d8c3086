---------------------------- MODULE MCFrameRecv ----------------------------
(***************************************************************************)
(* A few short frames and a buffer little longer than the longest.         *)
(***************************************************************************)
EXTENDS FrameRecv
=============================================================================
