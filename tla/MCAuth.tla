------------------------------ MODULE MCAuth ------------------------------
(***************************************************************************)
(* A few accounts that register while auth servers come and go.            *)
(***************************************************************************)
EXTENDS Auth
=============================================================================
