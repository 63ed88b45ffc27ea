----------------------------- MODULE MCVdevLifo -----------------------------
(* One vring with the order of event.c. *)
EXTENDS VdevLifo

CONSTANTS v1, r1

OneQueue == [v \in Vring |-> r1]

(* Starts and stops the vring; nothing fails. *)
SteadyClient == {[req |-> {"SET_FEATURES", "SET_MEM_TABLE", "SET_VRING_KICK",
                           "GET_VRING_BASE"},
                  vrings |-> Vring, feature |-> {}, fault |-> {},
                  max_req |-> 1]}

(* The same client, gone before some reply is sent. *)
HastyClient == {[c EXCEPT !.fault = {"send"}] : c \in SteadyClient}
=============================================================================
