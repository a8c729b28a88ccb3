------------------------------ MODULE MCDelivery ------------------------------
(* Delivery for TLC: the constants need no more than model values. *)
EXTENDS Delivery
=============================================================================
