----------------------------- MODULE MCReception -----------------------------
(* Instances of Reception for TLC: blocks of two bytes and two-bit digits, *)
(* so that a body of two bytes needs a header of two.                      *)
EXTENDS Reception

MCBytes == 0 .. 2 * HeaderBase - 1

Ev(body, transformed) == [body |-> body, transformed |-> transformed]

(* Bodies shorter than a block, as long and longer, with bytes that would  *)
(* read as headers.                                                        *)
MCPeerEvents == {Ev(<<1>>, FALSE), Ev(<<5, 2>>, TRUE), Ev(<<4, 4, 6, 5>>, FALSE)}
=============================================================================
