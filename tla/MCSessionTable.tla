--------------------------- MODULE MCSessionTable ---------------------------
(* Small instances of SessionTable.                                        *)
EXTENDS SessionTable
=============================================================================
