---------------------- MODULE MCSynchronizedEventQueue ----------------------
(* Small instances of SynchronizedEventQueue.                              *)
EXTENDS SynchronizedEventQueue
=============================================================================
