--------------------------- MODULE UdpManyScripts ---------------------------
(***************************************************************************)
(* The programs of sandbox/udp-many, and the order in which its run.py       *)
(* starts them.                                                             *)
(***************************************************************************)
EXTENDS UdpScript, Sequences, Functions

CONSTANTS
  UnicastPorts,  \* the ports that the host writes to, in this order
  MulticastPort

Host == "host"
GroupGreeting == "Hello multicast!"

\* Mutant: the greeting names the first port for everybody.
HostScriptFirst ==
  <<Op("open")>>
  \o [i \in DOMAIN UnicastPorts |-> SendOp(UnicastPorts[i], UnicastPorts[1], TRUE)]
  \o <<SendOp(MulticastPort, UnicastPorts[1], TRUE), Op("exit")>>

HostScript ==
  <<Op("open")>>
  \o [i \in DOMAIN UnicastPorts |-> SendOp(UnicastPorts[i], UnicastPorts[i], TRUE)]
  \o <<SendOp(MulticastPort, GroupGreeting, TRUE), Op("exit")>>

\* Mutant: SO_REUSEADDR, as the multicast client has it.
UnicastClientScriptShares(to) == <<BindOp(to, TRUE), Op("receive"), Op("exit")>>
UnicastClientScript(to) == <<BindOp(to, FALSE), Op("receive"), Op("exit")>>

\* Mutant: no IP_ADD_MEMBERSHIP.
MulticastClientScriptNoJoin(to) ==
  <<BindOp(to, TRUE), Op("receive"), Op("exit")>>

MulticastClientScript(to) ==
  <<BindOp(to, TRUE), Op("join"), Op("receive"), Op("exit")>>

ManyOrder(unicast, multicast) == <<Host>> \o unicast \o multicast

\* Unicast clients differ in their ports, multicast clients share one.
ManyScript(unicast, ports, multicast, shared_port) ==
  [p \in {Host} \cup Range(unicast) \cup Range(multicast) |->
     CASE p = Host -> HostScript
       [] p \in Range(unicast) ->
            UnicastClientScript(ports[CHOOSE i \in DOMAIN unicast : unicast[i] = p])
       [] p \in Range(multicast) -> MulticastClientScript(shared_port)]

ManyGroups == {MulticastPort}
=============================================================================
