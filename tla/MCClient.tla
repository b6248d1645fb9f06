-------------------------------- MODULE MCClient --------------------------------
(* Small instances of Client: ids on both sides of the step from one digit to   *)
(* two, and flags of which one is zero, one wraps around to a negative number   *)
(* and one, the only request that is accepted, to a positive one.               *)
EXTENDS Client

Flags     == {[nodes |-> 5, cpus |-> 0], [nodes |-> 128, cpus |-> 1], [nodes |-> 257, cpus |-> 1]}
Requested == {specFromProto(a) : a \in Flags}
================================================================================
