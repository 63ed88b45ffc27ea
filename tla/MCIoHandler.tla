---------------------------- MODULE MCIoHandler ----------------------------
(* Two descriptors and the notifier, more than a list holds, and a third   *)
(* address for a handler that is added while another waits to be freed.    *)
EXTENDS IoHandler
=============================================================================
