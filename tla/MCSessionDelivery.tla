-------------------------- MODULE MCSessionDelivery --------------------------
(* One device, a queue of one notification and up to three events: enough    *)
(* for an overflow, for events committed between registration, replay and    *)
(* ready, and for publications out of order.  Devices meet only in Publish,  *)
(* which treats each queue by itself.                                        *)
EXTENDS SessionDelivery
==============================================================================
