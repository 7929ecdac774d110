---------------------------- MODULE MCUdpSocket ----------------------------
(***************************************************************************)
(* Instances of UdpSocket for TLC: three objects, so that a descriptor can  *)
(* be handed on twice, and as many descriptors, which other code takes too. *)
(***************************************************************************)
EXTENDS UdpSocket
=============================================================================
