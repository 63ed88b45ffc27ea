--------------------------- MODULE MCVirtqNotify ---------------------------
(* Small instances of the notifications, with and without event index. *)
EXTENDS VirtqNotify
=============================================================================
