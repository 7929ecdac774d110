---------------------------- MODULE MCPacketCodec ----------------------------
(***************************************************************************)
(* parse_packet asked about every buffer of up to MaxLen bytes.  With two    *)
(* values of a byte a word is below 16, so that a declared length of 8 or    *)
(* more wraps totalLen.                                                     *)
(***************************************************************************)
EXTENDS PacketBuffer
=============================================================================
