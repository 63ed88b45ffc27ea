----------------------------- MODULE MCInflight -----------------------------
(* Small instances of the inflight region. *)
EXTENDS Inflight
=============================================================================
