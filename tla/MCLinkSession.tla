--------------------------- MODULE MCLinkSession ----------------------------
(* Small instances of LinkSession.                                         *)
EXTENDS LinkSession
=============================================================================
