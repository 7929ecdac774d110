--------------------------- MODULE MCPacketStream ---------------------------
(***************************************************************************)
(* Instances of PacketStream for TLC.  With two values of a byte a word is  *)
(* below 16, and a payload has at most 7 bytes.                             *)
(***************************************************************************)
EXTENDS PacketStream

\* A packet of one word, greetings of no and of one byte, and a packet of a type that
\* no reader accepts.  A buffer of 5 bytes holds more than one packet, and less than
\* one greeting.
MCPackets ==
  {create_ping, create_msg(<<>>), create_msg(<<1>>), PacketOfType(invalid)}

MCInBufferLen == [d \in Streams |-> 5]
=============================================================================
