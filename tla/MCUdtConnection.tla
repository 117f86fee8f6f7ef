-------------------------- MODULE MCUdtConnection --------------------------
EXTENDS UdtConnection

(* An urgent message and an empty one that may be shed. *)
MCKinds == {[priority |-> 0, len |-> 1], [priority |-> 1, len |-> 0]}
=============================================================================
