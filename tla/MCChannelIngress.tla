--------------------------- MODULE MCChannelIngress ---------------------------
(* A small instance of ChannelIngress for TLC: two events that share their
   thread and identity, so that they compete for every row. *)
EXTENDS ChannelIngress

CONSTANTS t1, i1

OneThread == [e \in Events |-> t1]
OneIdentity == [e \in Events |-> i1]
=============================================================================
