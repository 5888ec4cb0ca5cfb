-------------------------- MODULE MCEventBasedFlow --------------------------
(* A small instance of EventBasedFlow: flows of one thread and of two.     *)
EXTENDS EventBasedFlow

CONSTANTS w1, w2

MCCrews == {{w1}, {w1, w2}}
=============================================================================
