----------------------------- MODULE MCUdpManyRun -----------------------------
EXTENDS UdpManyRun, TLC

MCstr == [p \in 1 .. MAX_PORT |-> ToString(p)]
MCUnicastPorts == <<"1", "2">>
MCUnicastClients == <<"u0", "u1">>
MCMulticastClients == <<"m0", "m1">>

\* One client of each kind with any ports; two with the ports of the host, with multicast
\* clients that share a unicast port of the host, with ports that overlap, and with a port
\* too high.
MCArguments ==
  [clients : -1 .. 1, base_port : 0 .. 5, multicast_port : 0 .. 5] \cup
  [clients : {2}, base_port : {1, 2, 4}, multicast_port : {1, 3}]

\* One client of each kind with ports of the host: three programs, so that one is behind and
\* one before another in each loop of the runner.
MCFollowed == {[clients |-> 1, base_port |-> 1, multicast_port |-> 3]}
=============================================================================
