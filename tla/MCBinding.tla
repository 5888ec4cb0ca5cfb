----------------------------- MODULE MCBinding ------------------------------
(***************************************************************************)
(* A small instance of Binding.  Tokens k1, k2 and k3 share a slot (one    *)
(* type, one fingerprint, three handlers), and belong to two sinks.        *)
(***************************************************************************)
EXTENDS Binding, TLC

CONSTANTS t1, t2, sinkA, sinkB, k1, k2, k3, k4, x, y

MCSinkOf == (k1 :> sinkA) @@ (k2 :> sinkA) @@ (k3 :> sinkB) @@ (k4 :> NoSink)
MCSlotOf == (k1 :> x) @@ (k2 :> x) @@ (k3 :> x) @@ (k4 :> y)

(* Each sink is used by one thread, as in a SingleThreadFlow per sink or   *)
(* a MultiThreadFlow whose handlers confine their sinks.                   *)
OwnTouches == (t1 :> {k1, k2, k4}) @@ (t2 :> {k3, k4})
OwnDisposes == (t1 :> {sinkA}) @@ (t2 :> {sinkB})
=============================================================================
