----------------------------- MODULE UdpSocket -----------------------------
(***************************************************************************)
(* dirtynet::detail::posix::udp_socket (and the facade dirtynet::udp_socket, *)
(* which has one and moves with it): an object that owns a descriptor, and  *)
(* the kernel's table of descriptors, in which a number that was closed is  *)
(* given out again at once.                                                 *)
(*                                                                          *)
(* The objects belong to any number of threads, each of which uses its own; *)
(* other code of the process opens and closes descriptors too.              *)
(***************************************************************************)
EXTENDS Integers, Sequences

CONSTANTS
  Objects,   \* the places a udp_socket may be in
  Fds,       \* the descriptors the process may have
  Ports,     \* the ports of the host
  MaxQueue   \* number of datagrams the kernel holds for a socket

ASSUME SocketAssumption ==
  /\ Fds \in SUBSET Nat
  /\ Ports \in SUBSET (Nat \ {0})
  /\ MaxQueue \in Nat

Empty == -1      \* the value of _fd in an object without a socket
NoPort == 0      \* the port of a socket without a name
Nullopt == -1    \* the result of get_port() on an object without a socket

VARIABLES
  alive,     \* the objects that are constructed
  binding,   \* binding[o]: the port that bind() has yet to give to o, or NoPort
  fd,        \* fd[o]: the member _fd
  openFds,   \* kernel: the descriptors in use
  otherFds,  \* those of them that other code has opened
  portOf,    \* kernel: the port of a socket
  queue      \* kernel: the senders of the datagrams that wait on a socket

objectVars == <<alive, binding, fd>>
kernelVars == <<openFds, otherFds, portOf, queue>>
vars == <<objectVars, kernelVars>>

Init ==
  /\ alive = {}
  /\ binding = [o \in Objects |-> NoPort]
  /\ fd = [o \in Objects |-> Empty]
  /\ openFds = {}
  /\ otherFds = {}
  /\ portOf = [f \in Fds |-> NoPort]
  /\ queue = [f \in Fds |-> <<>>]

----------------------------------------------------------------------------
(***************************************************************************)
(* The kernel.                                                              *)
(***************************************************************************)

\* socket() gives the smallest number that is free.
NewFd(f) ==
  /\ f \notin openFds
  /\ \A g \in Fds : g < f => g \in openFds

\* close(): what the descriptor stood for is gone, whoever uses it.
Close(S) ==
  /\ openFds' = openFds \ S
  /\ otherFds' = otherFds \ S
  /\ portOf' = [f \in Fds |-> IF f \in S THEN NoPort ELSE portOf[f]]
  /\ queue' = [f \in Fds |-> IF f \in S THEN <<>> ELSE queue[f]]

PortInUse(p) == \E f \in openFds : portOf[f] = p

\* The part of close(_fd) that the object's code guards with _fd > -1.
Held(o) == IF fd[o] = Empty THEN {} ELSE {fd[o]}

----------------------------------------------------------------------------
(***************************************************************************)
(* The members of udp_socket.  A function that only fails, for want of a    *)
(* descriptor or on an object without a socket, changes nothing; nor does    *)
(* kill(), which is left to a later revision.                               *)
(***************************************************************************)
Usable(o) == o \in alive /\ binding[o] = NoPort

Construct(o, f) ==
  /\ o \notin alive
  /\ NewFd(f)
  /\ alive' = alive \cup {o}
  /\ fd' = [fd EXCEPT ![o] = f]
  /\ openFds' = openFds \cup {f}

open(o, f) ==
  /\ Construct(o, f)
  /\ UNCHANGED <<binding, otherFds, portOf, queue>>

\* bind() constructs the object before it asks the kernel for the port...
bind(o, f, p) ==
  /\ Construct(o, f)
  /\ binding' = [binding EXCEPT ![o] = p]
  /\ UNCHANGED <<otherFds, portOf, queue>>

BindDone(o) ==
  /\ binding[o] # NoPort
  /\ ~ PortInUse(binding[o])
  /\ portOf' = [portOf EXCEPT ![fd[o]] = binding[o]]
  /\ binding' = [binding EXCEPT ![o] = NoPort]
  /\ UNCHANGED <<alive, fd, openFds, otherFds, queue>>

\* ...and destroys it if the kernel refuses, because the port is in use or for some
\* other reason.
BindError(o) ==
  /\ binding[o] # NoPort
  /\ Close(Held(o))
  /\ alive' = alive \ {o}
  /\ fd' = [fd EXCEPT ![o] = Empty]
  /\ binding' = [binding EXCEPT ![o] = NoPort]

\* Mutant: the source keeps its descriptor.
MoveConstructShares(o, other) ==
  /\ o \notin alive
  /\ Usable(other)
  /\ alive' = alive \cup {o}
  /\ fd' = [fd EXCEPT ![o] = fd[other]]
  /\ UNCHANGED <<binding, kernelVars>>

MoveConstruct(o, other) ==
  /\ o \notin alive
  /\ Usable(other)
  /\ alive' = alive \cup {o}
  /\ fd' = [fd EXCEPT ![o] = fd[other], ![other] = Empty]
  /\ UNCHANGED <<binding, kernelVars>>

\* Mutant: std::exchange takes the descriptor, and an object assigned to itself keeps it.
MoveAssignExchange(o, other) ==
  /\ Usable(o) /\ Usable(other)
  /\ Close(Held(o))
  /\ fd' = [fd EXCEPT ![other] = Empty, ![o] = fd[other]]
  /\ UNCHANGED <<alive, binding>>

\* other may be the object itself: its socket is closed, and it is left empty.
MoveAssign(o, other) ==
  /\ Usable(o) /\ Usable(other)
  /\ Close(Held(o))
  /\ fd' = [fd EXCEPT ![o] = fd[other], ![other] = Empty]
  /\ UNCHANGED <<alive, binding>>

Destroy(o) ==
  /\ Usable(o)
  /\ Close(Held(o))
  /\ alive' = alive \ {o}
  /\ fd' = [fd EXCEPT ![o] = Empty]
  /\ UNCHANGED binding

\* A socket without a name gets one before it sends.
AutoBind(o, p) ==
  /\ Usable(o) /\ fd[o] # Empty
  /\ portOf[fd[o]] = NoPort
  /\ ~ PortInUse(p)
  /\ portOf' = [portOf EXCEPT ![fd[o]] = p]
  /\ UNCHANGED <<objectVars, openFds, otherFds, queue>>

\* Mutant: the socket sends before it has a name.
send_to_unnamed(o, target) ==
  /\ Usable(o) /\ fd[o] # Empty
  /\ \E f \in openFds :
       /\ portOf[f] = target
       /\ Len(queue[f]) < MaxQueue
       /\ queue' = [queue EXCEPT ![f] = Append(@, portOf[fd[o]])]
  /\ UNCHANGED <<objectVars, openFds, otherFds, portOf>>

\* A datagram that no socket is there for, or no room, is lost: nothing changes.
send_to(o, target) ==
  /\ Usable(o) /\ fd[o] # Empty
  /\ portOf[fd[o]] # NoPort
  /\ \E f \in openFds :
       /\ portOf[f] = target
       /\ Len(queue[f]) < MaxQueue
       /\ queue' = [queue EXCEPT ![f] = Append(@, portOf[fd[o]])]
  /\ UNCHANGED <<objectVars, openFds, otherFds, portOf>>

\* receive() blocks while there is no datagram.
receive(o) ==
  /\ Usable(o) /\ fd[o] # Empty
  /\ queue[fd[o]] # <<>>
  /\ queue' = [queue EXCEPT ![fd[o]] = Tail(@)]
  /\ UNCHANGED <<objectVars, openFds, otherFds, portOf>>

get_port(o) == IF fd[o] = Empty THEN Nullopt ELSE portOf[fd[o]]

----------------------------------------------------------------------------
(***************************************************************************)
(* Other code of the process.                                               *)
(***************************************************************************)
OtherOpens(f) ==
  /\ NewFd(f)
  /\ openFds' = openFds \cup {f}
  /\ otherFds' = otherFds \cup {f}
  /\ UNCHANGED <<objectVars, portOf, queue>>

OtherCloses(f) ==
  /\ f \in otherFds
  /\ Close({f})
  /\ UNCHANGED objectVars

Next ==
  \/ \E o \in Objects :
       \/ \E f \in Fds : open(o, f) \/ \E p \in Ports : bind(o, f, p)
       \/ BindDone(o) \/ BindError(o)
       \/ \E other \in Objects : MoveConstruct(o, other) \/ MoveAssign(o, other)
       \/ Destroy(o) \/ receive(o)
       \/ \E p \in Ports : AutoBind(o, p) \/ send_to(o, p)
  \/ \E f \in Fds : OtherOpens(f) \/ OtherCloses(f)

Spec == Init /\ [][Next]_vars

----------------------------------------------------------------------------
\* Every variable has its type.
UdpTypeOK ==
  /\ alive \subseteq Objects
  /\ binding \in [Objects -> Ports \cup {NoPort}]
  /\ fd \in [Objects -> Fds \cup {Empty}]
  /\ openFds \subseteq Fds
  /\ otherFds \subseteq openFds
  /\ portOf \in [Fds -> Ports \cup {NoPort}]
  /\ queue \in [Fds -> Seq(Ports)]

\* Every open descriptor has exactly one owner, other code or one live object, so it
\* is neither leaked nor closed twice; and no object holds one that is closed, whose
\* number the kernel may have given to somebody else.
UniqueOwner ==
  /\ \A f \in openFds \ otherFds : \E o \in alive : fd[o] = f
  /\ \A o \in Objects : fd[o] # Empty => o \in alive /\ fd[o] \in openFds \ otherFds
  /\ \A o, other \in Objects : fd[o] = fd[other] /\ fd[o] # Empty => o = other

\* The objects are sockets with a value of their own: the descriptors, and the order
\* in which numbers are closed and given out again, cannot be told from outside.
Value(o) ==
  IF o \notin alive
  THEN [state |-> "absent", port |-> Nullopt, queue |-> <<>>]
  ELSE [state |-> IF fd[o] = Empty THEN "empty" ELSE "open",
        port  |-> get_port(o),
        queue |-> IF fd[o] = Empty THEN <<>> ELSE queue[fd[o]]]

Handle == INSTANCE UdpHandle WITH value <- [o \in Objects |-> Value(o)]
HandleSpec == Handle!Spec
=============================================================================
