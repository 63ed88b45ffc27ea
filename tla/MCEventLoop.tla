---------------------------- MODULE MCEventLoop ----------------------------
(* Small instances of the event loop. *)
EXTENDS EventLoop

CONSTANTS home, t1, b1, o1, o2, stop
=============================================================================
