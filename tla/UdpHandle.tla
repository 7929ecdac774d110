----------------------------- MODULE UdpHandle -----------------------------
(***************************************************************************)
(* What udp_socket promises its users: each object is a UDP endpoint of its *)
(* own, with its port and the datagrams that wait on it, as if it held them *)
(* itself.  A move hands them over, and they end with the object that has   *)
(* them.  There are no descriptors here.                                    *)
(***************************************************************************)
EXTENDS Integers, Sequences

CONSTANTS Objects, Ports

VARIABLE value

Unbound == 0
Nullopt == -1
Socket(state, port, queue) == [state |-> state, port |-> port, queue |-> queue]

Absent == Socket("absent", Nullopt, <<>>)   \* no object there
Empty  == Socket("empty", Nullopt, <<>>)    \* an object without a socket
Fresh  == Socket("open", Unbound, <<>>)

PortTaken(p) == \E o \in Objects : value[o].port = p

Init == value = [o \in Objects |-> Absent]

Create(o) ==
  /\ value[o] = Absent
  /\ value' = [value EXCEPT ![o] = Fresh]

Name(o, p) ==
  /\ value[o].state = "open" /\ value[o].port = Unbound
  /\ ~ PortTaken(p)
  /\ value' = [value EXCEPT ![o].port = p]

\* The object from, which may be o itself, is left empty.
Move(o, from) ==
  /\ value[from].state # "absent"
  /\ value' = [value EXCEPT ![o] = value[from], ![from] = Empty]

Destroy(o) ==
  /\ value[o].state # "absent"
  /\ value' = [value EXCEPT ![o] = Absent]

\* A datagram from o arrives at the object that has the port it is for.
Send(o, p, to) ==
  /\ value[o].state = "open" /\ value[o].port = p
  /\ value[to].state = "open"
  /\ value' = [value EXCEPT ![to].queue = Append(@, p)]

Receive(o) ==
  /\ value[o].queue # <<>>
  /\ value' = [value EXCEPT ![o].queue = Tail(@)]

Next ==
  \E o \in Objects :
    \/ Create(o) \/ Destroy(o) \/ Receive(o)
    \/ \E p \in Ports : Name(o, p)
    \/ \E other \in Objects : \/ Move(o, other)
                              \/ \E p \in Ports : Send(o, p, other)

Spec == Init /\ [][Next]_value
=============================================================================
