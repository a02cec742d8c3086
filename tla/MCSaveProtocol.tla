-------------------------- MODULE MCSaveProtocol --------------------------
(***************************************************************************)
(* Up to two logic servers and two players, and a few login sessions.       *)
(***************************************************************************)
EXTENDS SaveProtocol, TLC

CONSTANTS h1, h2, alice, bob

=============================================================================
