---------------------------- MODULE MCTcpPacket ----------------------------
(***************************************************************************)
(* Instances of TcpPacket for TLC.  The sizes keep the order of the         *)
(* program's: the client's large message is more than twice the server's        *)
(* inBuffer, and the three last messages together several of the client's.  *)
(***************************************************************************)
EXTENDS TcpPacket

MCHelloClient == <<1>>
MCHelloWorld  == <<0>>
MCLargeMsg    == <<1, 0, 1, 1, 0, 0, 1>>
MCMsg100      == <<0, 1>>
MCMsg50       == <<>>
MCMsg150      == <<0, 1, 1>>
MCQUIT        == <<1, 1>>

MCPackets == {create_ping, create_pong} \cup Greetings

MCInBufferLen == [d \in Streams |-> IF d = "C2S" THEN 7 ELSE 9]
=============================================================================
