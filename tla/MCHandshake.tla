---------------------------- MODULE MCHandshake -----------------------------
(* Small instances of Handshake.                                           *)
EXTENDS Handshake
=============================================================================
