------------------------------- MODULE MCVdev -------------------------------
(* Small instances of the device state machine. *)
EXTENDS Vdev, TLC

CONSTANTS v1, v2, r1

(* Each vring has a request queue of its own, which goes by its name. *)
OwnQueue == [v \in Vring |-> v]

(* All vrings on one request queue. *)
OneQueue == [v \in Vring |-> r1]

(* Starts, stops and reconfigures running vrings, while anything may fail. *)
LifecycleReq == {"SET_FEATURES", "SET_MEM_TABLE", "SET_VRING_KICK",
                 "GET_VRING_BASE"}

Lifecycle == [req |-> LifecycleReq, vrings |-> Vring, feature |-> {},
              fault |-> {"send", "start", "listen"}, max_req |-> 1]

(* Replaces what running vrings use. *)
Replace == [req |-> {"SET_FEATURES", "SET_MEM_TABLE", "SET_LOG_BASE",
                     "SET_VRING_KICK"},
            vrings |-> Vring, feature |-> {"LOG_ALL"}, fault |-> {},
            max_req |-> 0]

(* Sends every request about one vring. *)
VringReq == {"SET_FEATURES", "SET_MEM_TABLE", "SET_VRING_KICK",
             "SET_VRING_CALL", "SET_VRING_ERR", "SET_VRING_ADDR",
             "SET_VRING_ENABLE"}

VringMsgs(v) == [req |-> VringReq, vrings |-> {v},
                 feature |-> {"PROTOCOL_FEATURES"}, fault |-> {"send"},
                 max_req |-> 1]

(* Replaces the memory, region by region too, and the log under one vring. *)
MemoryMsgs(v) == [req |-> Replace.req \cup {"ADD_MEM_REG", "REM_MEM_REG",
                                           "GET_VRING_BASE"},
                  vrings |-> {v}, feature |-> {"LOG_ALL"}, fault |-> {"send"},
                  max_req |-> 0]

(* Sends every other request about the device, with the other setters of a  *)
(* vring.                                                                   *)
DeviceReq == (KnownReq \cup {"UNKNOWN"}) \
             ((VringReq \ {"SET_FEATURES", "SET_MEM_TABLE", "SET_VRING_KICK"})
              \cup {"SET_LOG_BASE"})

DeviceMsgs(v) == [req |-> DeviceReq, vrings |-> {v},
                  feature |-> {"PROTOCOL_FEATURES"}, fault |-> {"send"},
                  max_req |-> 0]

(* A client of v2 alone is one of v1 renamed. *)
AllClients == {Lifecycle, Replace, VringMsgs(v1), MemoryMsgs(v1),
               DeviceMsgs(v1)}

(* Starts and stops vrings, and nothing fails. *)
SteadyClient == {[Lifecycle EXCEPT !.fault = {}]}

(* Renaming the two vrings, and their queues with them. *)
VringSym == Permutations({v1, v2})

=============================================================================
