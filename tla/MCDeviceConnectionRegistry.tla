---------------------- MODULE MCDeviceConnectionRegistry ----------------------
(* Two devices that share a stripe, so that one device's authentication      *)
(* waits for another's transition, and two sockets for them or for one.      *)
EXTENDS DeviceConnectionRegistry

MCStripeOf == [d \in Devices |-> CHOOSE s \in Stripes : TRUE]
==============================================================================
