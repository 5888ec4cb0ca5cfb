------------------------------ MODULE MCWaits -------------------------------
(* Small instances of Waits: one wait of each kind.                        *)
EXTENDS Waits

CONSTANTS w1, w2, w3
Kinds == (w1 :> "event" @@ w2 :> "any" @@ w3 :> "all")
=============================================================================
