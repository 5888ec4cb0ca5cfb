----------------------------- MODULE MCTcpClient -----------------------------
(* Instances of TcpClient for TLC: the sockets are interchangeable only up *)
(* to the choice of a new one, so no symmetry is used.                     *)
EXTENDS TcpClient

MCHurry == BOOLEAN
MCCalm == {FALSE}
=============================================================================
