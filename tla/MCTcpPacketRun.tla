---------------------------- MODULE MCTcpPacketRun ----------------------------
(***************************************************************************)
(* The instance of TcpPacketRun for TLC.  How reads cut the packets is asked *)
(* by MCTcpPacket; here the messages are short.                             *)
(***************************************************************************)
EXTENDS TcpPacketRun

MCHelloClient == <<1>>
MCHelloWorld  == <<0>>
MCLargeMsg    == <<1, 0>>
MCMsg100      == <<0>>
MCMsg50       == <<>>
MCMsg150      == <<0, 1>>
MCQUIT        == <<1, 1>>

MCPackets == {create_ping, create_pong} \cup Greetings

MCInBufferLen == [d \in Streams |-> 12]
=============================================================================
