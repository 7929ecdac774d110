-------------------------- MODULE UdpSocket_proofs --------------------------
(***************************************************************************)
(* For every number of objects, descriptors and ports: each descriptor has  *)
(* one owner, and udp_socket objects behave as if each held its socket.     *)
(***************************************************************************)
EXTENDS UdpSocket, TLAPS

\* A descriptor that no object owns is not that of a socket with a name or datagrams.
FdsOK ==
  \A f \in Fds : f \notin openFds \ otherFds => portOf[f] = NoPort /\ queue[f] = <<>>

\* bind() in progress has a socket without a name.
BindingOK ==
  \A o \in Objects :
    binding[o] # NoPort => o \in alive /\ fd[o] # Empty /\ portOf[fd[o]] = NoPort

UdpInv == UdpTypeOK /\ UniqueOwner /\ FdsOK /\ BindingOK

----------------------------------------------------------------------------
LEMMA UdpInitOK == Init => UdpInv
BY DEF Init, UdpInv, UdpTypeOK, UniqueOwner, FdsOK, BindingOK, NoPort, Empty

(***************************************************************************)
(* A descriptor is never -1.                                                *)
(***************************************************************************)
LEMMA FdsAreNotEmpty == Empty \notin Fds /\ NoPort \notin Ports
BY SocketAssumption DEF Empty, NoPort

(***************************************************************************)
(* open() and bind() construct an object for a descriptor nobody had.       *)
(***************************************************************************)
LEMMA ConstructOK ==
  ASSUME UdpInv, NEW o \in Objects, NEW f \in Fds, Construct(o, f),
         binding' \in [Objects -> Ports \cup {NoPort}],
         \A e \in Objects : e # o => binding'[e] = binding[e],
         UNCHANGED <<otherFds, portOf, queue>>
  PROVE  UdpInv'
<1>1. /\ o \notin alive /\ f \notin openFds /\ f # Empty
      /\ alive' = alive \cup {o} /\ fd' = [fd EXCEPT ![o] = f]
      /\ openFds' = openFds \cup {f}
  BY FdsAreNotEmpty DEF Construct, NewFd
<1>2. UdpTypeOK'
  BY <1>1 DEF UdpInv, UdpTypeOK
<1>3. fd'[o] = f /\ \A e \in Objects : e # o => fd'[e] = fd[e]
  BY <1>1 DEF UdpInv, UdpTypeOK
<1>4. UniqueOwner'
  <2>1. \A e \in Objects : fd[e] # f
    BY <1>1 DEF UdpInv, UniqueOwner
  <2> QED
    BY <1>1, <1>3, <2>1 DEF UdpInv, UdpTypeOK, UniqueOwner
<1>5. FdsOK' /\ portOf[f] = NoPort
  BY <1>1 DEF UdpInv, FdsOK
<1>6. BindingOK'
  BY <1>1, <1>3, <1>5 DEF UdpInv, BindingOK
<1> QED
  BY <1>2, <1>4, <1>5, <1>6 DEF UdpInv

(***************************************************************************)
(* Closing what the object o holds, which then holds the descriptor of      *)
(* other, or none.                                                          *)
(***************************************************************************)
LEMMA CloseOK ==
  ASSUME UdpInv, NEW o \in Objects, Close(Held(o)), fd' = [fd EXCEPT ![o] = Empty],
         alive \ {o} \subseteq alive', alive' \subseteq alive,
         binding' = [binding EXCEPT ![o] = NoPort]
  PROVE  UdpInv'
<1>1. /\ openFds' = openFds \ Held(o) /\ otherFds' = otherFds \ Held(o)
      /\ portOf' = [g \in Fds |-> IF g \in Held(o) THEN NoPort ELSE portOf[g]]
      /\ queue' = [g \in Fds |-> IF g \in Held(o) THEN <<>> ELSE queue[g]]
  BY DEF Close
<1>2. UdpTypeOK'
  <2>1. queue' \in [Fds -> Seq(Ports)] /\ portOf' \in [Fds -> Ports \cup {NoPort}]
    BY <1>1 DEF UdpInv, UdpTypeOK
  <2> QED
    BY <1>1, <2>1 DEF UdpInv, UdpTypeOK
<1>3. fd'[o] = Empty /\ \A e \in Objects : e # o => fd'[e] = fd[e]
  BY DEF UdpInv, UdpTypeOK
<1>4. Held(o) \cap otherFds = {} /\ \A e \in Objects : e # o => fd[e] \notin Held(o)
  BY DEF UdpInv, UniqueOwner, Held
<1>5. UniqueOwner'
  <2>1. ASSUME NEW f \in openFds' \ otherFds' PROVE \E e \in alive' : fd'[e] = f
    <3>1. f \in openFds \ otherFds /\ f \notin Held(o)
      BY <1>1, <1>4
    <3>2. PICK e \in alive : fd[e] = f
      BY <3>1 DEF UdpInv, UniqueOwner
    <3>3. f # Empty
      BY <3>1, FdsAreNotEmpty DEF UdpInv, UdpTypeOK
    <3>4. e # o
      BY <3>1, <3>2, <3>3 DEF Held
    <3> QED
      BY <1>3, <3>2, <3>4 DEF UdpInv, UdpTypeOK
  <2>2. ASSUME NEW e \in Objects, fd'[e] # Empty
        PROVE  e \in alive' /\ fd'[e] \in openFds' \ otherFds'
    BY <1>1, <1>3, <1>4, <2>2 DEF UdpInv, UniqueOwner
  <2>3. ASSUME NEW e \in Objects, NEW g \in Objects, fd'[e] = fd'[g], fd'[e] # Empty
        PROVE  e = g
    BY <1>3, <2>3 DEF UdpInv, UniqueOwner
  <2> QED
    BY <2>1, <2>2, <2>3 DEF UniqueOwner
<1>6. FdsOK'
  BY <1>1 DEF UdpInv, FdsOK
<1>7. BindingOK'
  <2> SUFFICES ASSUME NEW e \in Objects, binding'[e] # NoPort
               PROVE  e \in alive' /\ fd'[e] # Empty /\ portOf'[fd'[e]] = NoPort
    BY DEF BindingOK
  <2>1. e # o /\ binding'[e] = binding[e]
    BY DEF UdpInv, UdpTypeOK
  <2>2. e \in alive /\ fd[e] # Empty /\ portOf[fd[e]] = NoPort
    BY <2>1 DEF UdpInv, BindingOK
  <2>3. fd[e] \in Fds
    BY <2>2 DEF UdpInv, UdpTypeOK
  <2> QED
    BY <1>1, <1>3, <2>1, <2>2, <2>3
<1> QED
  BY <1>2, <1>5, <1>6, <1>7 DEF UdpInv

(***************************************************************************)
(* What o holds is closed, and o gets the descriptor of another object.     *)
(***************************************************************************)
LEMMA HandOverOK ==
  ASSUME UdpInv, NEW o \in Objects, NEW other \in Objects, o # other,
         Close(Held(o)), Usable(other), binding[o] = NoPort,
         alive' = alive \cup {o},
         fd' = [fd EXCEPT ![o] = fd[other], ![other] = Empty],
         UNCHANGED <<binding>>
  PROVE  UdpInv'
<1>1. /\ openFds' = openFds \ Held(o) /\ otherFds' = otherFds \ Held(o)
      /\ portOf' = [g \in Fds |-> IF g \in Held(o) THEN NoPort ELSE portOf[g]]
      /\ queue' = [g \in Fds |-> IF g \in Held(o) THEN <<>> ELSE queue[g]]
  BY DEF Close
<1>2. UdpTypeOK'
  <2>1. queue' \in [Fds -> Seq(Ports)] /\ portOf' \in [Fds -> Ports \cup {NoPort}]
    BY <1>1 DEF UdpInv, UdpTypeOK
  <2> QED
    BY <1>1, <2>1 DEF UdpInv, UdpTypeOK
<1>3. /\ fd'[o] = fd[other] /\ fd'[other] = Empty
      /\ \A e \in Objects : e \notin {o, other} => fd'[e] = fd[e]
  BY DEF UdpInv, UdpTypeOK
<1>4. Held(o) \cap otherFds = {} /\ \A e \in Objects : e # o => fd[e] \notin Held(o)
  BY DEF UdpInv, UniqueOwner, Held
<1>5. UniqueOwner'
  <2>1. ASSUME NEW f \in openFds' \ otherFds' PROVE \E e \in alive' : fd'[e] = f
    <3>1. f \in openFds \ otherFds /\ f \notin Held(o)
      BY <1>1, <1>4
    <3>2. PICK e \in alive : fd[e] = f
      BY <3>1 DEF UdpInv, UniqueOwner
    <3>3. f # Empty /\ e \in Objects
      BY <3>1, FdsAreNotEmpty DEF UdpInv, UdpTypeOK
    <3>4. e # o
      BY <3>1, <3>2, <3>3 DEF Held
    <3>5. CASE e = other
      BY <1>3, <3>2, <3>5
    <3>6. CASE e # other
      BY <1>3, <3>2, <3>3, <3>4, <3>6
    <3> QED
      BY <3>5, <3>6
  <2>2. ASSUME NEW e \in Objects, fd'[e] # Empty
        PROVE  e \in alive' /\ fd'[e] \in openFds' \ otherFds'
    <3>1. e # other
      BY <1>3, <2>2
    <3>2. CASE e = o
      <4>1. fd'[e] = fd[other] /\ fd[other] # Empty
        BY <1>3, <2>2, <3>2
      <4>2. fd[other] \in openFds \ otherFds /\ fd[other] \notin Held(o)
        BY <1>4, <4>1 DEF UdpInv, UniqueOwner
      <4> QED
        BY <1>1, <3>2, <4>1, <4>2
    <3>3. CASE e # o
      <4>1. fd'[e] = fd[e] /\ fd[e] # Empty
        BY <1>3, <2>2, <3>1, <3>3
      <4>2. e \in alive /\ fd[e] \in openFds \ otherFds /\ fd[e] \notin Held(o)
        BY <1>4, <3>3, <4>1 DEF UdpInv, UniqueOwner
      <4> QED
        BY <1>1, <4>1, <4>2
    <3> QED
      BY <3>2, <3>3
  <2>3. ASSUME NEW e \in Objects, NEW g \in Objects, fd'[e] = fd'[g], fd'[e] # Empty
        PROVE  e = g
    <3> DEFINE was(x) == IF x = o THEN other ELSE x
    <3>1. e # other /\ g # other
      BY <1>3, <2>3
    <3>2. fd'[e] = fd[was(e)] /\ fd'[g] = fd[was(g)]
      BY <1>3, <3>1
    <3>3. was(e) = was(g)
      BY <2>3, <3>2 DEF UdpInv, UniqueOwner
    <3> QED
      BY <3>1, <3>3
  <2> QED
    BY <2>1, <2>2, <2>3 DEF UniqueOwner
<1>6. FdsOK'
  BY <1>1 DEF UdpInv, FdsOK
<1>7. BindingOK'
  <2> SUFFICES ASSUME NEW e \in Objects, binding[e] # NoPort
               PROVE  e \in alive' /\ fd'[e] # Empty /\ portOf'[fd'[e]] = NoPort
    BY DEF BindingOK
  <2>1. e \notin {o, other}
    BY DEF Usable
  <2>2. e \in alive /\ fd[e] # Empty /\ portOf[fd[e]] = NoPort
    BY DEF UdpInv, BindingOK
  <2>3. fd[e] \in Fds
    BY <2>2 DEF UdpInv, UdpTypeOK
  <2> QED
    BY <1>1, <1>3, <2>1, <2>2, <2>3
<1> QED
  BY <1>2, <1>5, <1>6, <1>7 DEF UdpInv

(***************************************************************************)
(* Closing nothing changes nothing; an object that is not there holds none. *)
(***************************************************************************)
LEMMA CloseNothing ==
  ASSUME UdpInv, UNCHANGED kernelVars
  PROVE  Close({})
BY DEF Close, kernelVars, UdpInv, UdpTypeOK

LEMMA NothingHeld ==
  ASSUME UdpInv, NEW o \in Objects, o \notin alive
  PROVE  fd[o] = Empty /\ Held(o) = {} /\ binding[o] = NoPort
BY DEF UdpInv, UniqueOwner, BindingOK, Held

LEMMA MoveOK ==
  ASSUME UdpInv, NEW o \in Objects, NEW other \in Objects,
         MoveConstruct(o, other) \/ MoveAssign(o, other)
  PROVE  UdpInv'
<1>1. CASE MoveConstruct(o, other)
  <2>1. o # other
    BY <1>1 DEF MoveConstruct, Usable
  <2>2. Close(Held(o)) /\ binding[o] = NoPort
    BY <1>1, CloseNothing, NothingHeld DEF MoveConstruct
  <2> QED
    BY <1>1, <2>1, <2>2, HandOverOK DEF MoveConstruct
<1>2. CASE MoveAssign(o, other) /\ o # other
  <2>1. alive' = alive \cup {o} /\ binding[o] = NoPort
    BY <1>2 DEF MoveAssign, Usable
  <2> QED
    BY <1>2, <2>1, HandOverOK DEF MoveAssign
<1>3. CASE MoveAssign(o, other) /\ o = other
  <2>1. fd' = [fd EXCEPT ![o] = Empty] /\ binding' = [binding EXCEPT ![o] = NoPort]
    BY <1>3 DEF MoveAssign, Usable, UdpInv, UdpTypeOK
  <2> QED
    BY <1>3, <2>1, CloseOK DEF MoveAssign
<1> QED
  BY <1>1, <1>2, <1>3

----------------------------------------------------------------------------
(***************************************************************************)
(* Steps that leave the objects' descriptors alone.                         *)
(***************************************************************************)
LEMMA NameOK ==
  ASSUME UdpInv, NEW o \in Objects, NEW p \in Ports, o \in alive, fd[o] # Empty,
         binding' = [binding EXCEPT ![o] = NoPort],
         portOf' = [portOf EXCEPT ![fd[o]] = p],
         UNCHANGED <<alive, fd, openFds, otherFds, queue>>
  PROVE  UdpInv'
<1>1. fd[o] \in Fds /\ fd[o] \in openFds \ otherFds
  BY DEF UdpInv, UdpTypeOK, UniqueOwner
<1>2. UdpTypeOK' /\ UniqueOwner'
  BY <1>1 DEF UdpInv, UdpTypeOK, UniqueOwner
<1>3. FdsOK'
  BY <1>1 DEF UdpInv, FdsOK
<1>4. BindingOK'
  <2> SUFFICES ASSUME NEW e \in Objects, binding'[e] # NoPort
               PROVE  e \in alive /\ fd[e] # Empty /\ portOf'[fd[e]] = NoPort
    BY DEF BindingOK
  <2>1. e # o /\ binding'[e] = binding[e]
    BY DEF UdpInv, UdpTypeOK
  <2>2. e \in alive /\ fd[e] # Empty /\ portOf[fd[e]] = NoPort
    BY <2>1 DEF UdpInv, BindingOK
  <2>3. fd[e] # fd[o] /\ fd[e] \in Fds
    BY <2>1, <2>2 DEF UdpInv, UdpTypeOK, UniqueOwner
  <2> QED
    BY <2>2, <2>3 DEF UdpInv, UdpTypeOK
<1> QED
  BY <1>2, <1>3, <1>4 DEF UdpInv

LEMMA QueueOK ==
  ASSUME UdpInv, NEW f \in openFds \ otherFds, NEW q \in Seq(Ports),
         queue' = [queue EXCEPT ![f] = q],
         UNCHANGED <<objectVars, openFds, otherFds, portOf>>
  PROVE  UdpInv'
<1>1. UNCHANGED <<alive, binding, fd, openFds, otherFds, portOf>>
  BY DEF objectVars
<1>2. f \in Fds
  BY DEF UdpInv, UdpTypeOK
<1>3. UdpTypeOK' /\ UniqueOwner' /\ BindingOK'
  BY <1>1, <1>2 DEF UdpInv, UdpTypeOK, UniqueOwner, BindingOK
<1>4. FdsOK'
  BY <1>1, <1>2 DEF UdpInv, UdpTypeOK, FdsOK
<1> QED
  BY <1>3, <1>4 DEF UdpInv

LEMMA OtherOK ==
  ASSUME UdpInv, NEW f \in Fds, OtherOpens(f) \/ OtherCloses(f)
  PROVE  UdpInv'
<1>1. CASE OtherOpens(f)
  <2>1. /\ f \notin openFds /\ openFds' = openFds \cup {f}
        /\ otherFds' = otherFds \cup {f}
        /\ UNCHANGED <<alive, binding, fd, portOf, queue>>
    BY <1>1 DEF OtherOpens, NewFd, objectVars
  <2>2. \A o \in Objects : fd[o] # f
    BY <2>1, FdsAreNotEmpty DEF UdpInv, UniqueOwner
  <2> QED
    BY <2>1, <2>2 DEF UdpInv, UdpTypeOK, UniqueOwner, FdsOK, BindingOK
<1>2. CASE OtherCloses(f)
  <2>1. /\ f \in otherFds /\ openFds' = openFds \ {f} /\ otherFds' = otherFds \ {f}
        /\ portOf' = [g \in Fds |-> IF g \in {f} THEN NoPort ELSE portOf[g]]
        /\ queue' = [g \in Fds |-> IF g \in {f} THEN <<>> ELSE queue[g]]
        /\ UNCHANGED <<alive, binding, fd>>
    BY <1>2 DEF OtherCloses, Close, objectVars
  <2>2. portOf' = portOf /\ queue' = queue
    BY <2>1 DEF UdpInv, UdpTypeOK, FdsOK
  <2> QED
    BY <2>1, <2>2 DEF UdpInv, UdpTypeOK, UniqueOwner, FdsOK, BindingOK
<1> QED
  BY <1>1, <1>2

----------------------------------------------------------------------------
LEMMA UdpStepOK == UdpInv /\ [Next]_vars => UdpInv'
<1> SUFFICES ASSUME UdpInv, [Next]_vars PROVE UdpInv'
  OBVIOUS
<1>1. CASE UNCHANGED vars
  BY <1>1 DEF vars, objectVars, kernelVars, UdpInv, UdpTypeOK, UniqueOwner, FdsOK,
     BindingOK
<1>2. ASSUME NEW o \in Objects, NEW f \in Fds, open(o, f) PROVE UdpInv'
  <2>1. binding' \in [Objects -> Ports \cup {NoPort}] /\ binding' = binding
    BY <1>2 DEF open, UdpInv, UdpTypeOK
  <2> QED
    BY <1>2, <2>1, ConstructOK DEF open
<1>3. ASSUME NEW o \in Objects, NEW f \in Fds, NEW p \in Ports, bind(o, f, p)
      PROVE  UdpInv'
  <2>1. /\ binding' \in [Objects -> Ports \cup {NoPort}]
        /\ \A e \in Objects : e # o => binding'[e] = binding[e]
    BY <1>3 DEF bind, UdpInv, UdpTypeOK
  <2> QED
    BY <1>3, <2>1, ConstructOK DEF bind
<1>4. ASSUME NEW o \in Objects, BindDone(o) PROVE UdpInv'
  <2>1. o \in alive /\ fd[o] # Empty /\ binding[o] \in Ports
    BY <1>4 DEF BindDone, UdpInv, UdpTypeOK, BindingOK
  <2> QED
    BY <1>4, <2>1, NameOK DEF BindDone
<1>5. ASSUME NEW o \in Objects, BindError(o) PROVE UdpInv'
  <2>1. alive' \subseteq alive /\ alive \ {o} \subseteq alive'
    BY <1>5 DEF BindError, UdpInv, UdpTypeOK
  <2> QED
    BY <1>5, <2>1, CloseOK DEF BindError
<1>6. ASSUME NEW o \in Objects, NEW other \in Objects,
             MoveConstruct(o, other) \/ MoveAssign(o, other)
      PROVE  UdpInv'
  BY <1>6, MoveOK
<1>7. ASSUME NEW o \in Objects, Destroy(o) PROVE UdpInv'
  <2>1. /\ alive' \subseteq alive
        /\ alive \ {o} \subseteq alive'
        /\ binding' = [binding EXCEPT ![o] = NoPort]
    BY <1>7 DEF Destroy, Usable, UdpInv, UdpTypeOK
  <2> QED
    BY <1>7, <2>1, CloseOK DEF Destroy
<1>8. ASSUME NEW o \in Objects, receive(o) PROVE UdpInv'
  <2>1. fd[o] \in openFds \ otherFds /\ fd[o] \in Fds
    BY <1>8 DEF receive, UdpInv, UniqueOwner, UdpTypeOK
  <2>2. Tail(queue[fd[o]]) \in Seq(Ports)
    BY <1>8, <2>1 DEF receive, UdpInv, UdpTypeOK
  <2> QED
    BY <1>8, <2>1, <2>2, QueueOK DEF receive
<1>9. ASSUME NEW o \in Objects, NEW p \in Ports, AutoBind(o, p) PROVE UdpInv'
  <2>1. /\ o \in alive /\ fd[o] # Empty /\ binding' = [binding EXCEPT ![o] = NoPort]
        /\ UNCHANGED <<alive, fd>>
    BY <1>9 DEF AutoBind, Usable, objectVars, UdpInv, UdpTypeOK
  <2> QED
    BY <1>9, <2>1, NameOK DEF AutoBind
<1>10. ASSUME NEW o \in Objects, NEW p \in Ports, send_to(o, p) PROVE UdpInv'
  <2>1. PICK f \in openFds : /\ portOf[f] = p
                             /\ queue' = [queue EXCEPT ![f] = Append(@, portOf[fd[o]])]
    BY <1>10 DEF send_to
  <2>2. f \in Fds /\ f \notin otherFds
    BY <2>1, FdsAreNotEmpty DEF UdpInv, UdpTypeOK, FdsOK
  <2>3. portOf[fd[o]] \in Ports
    BY <1>10 DEF send_to, UdpInv, UdpTypeOK
  <2>4. Append(queue[f], portOf[fd[o]]) \in Seq(Ports)
    BY <2>2, <2>3 DEF UdpInv, UdpTypeOK
  <2> QED
    BY <1>10, <2>1, <2>2, <2>4, QueueOK DEF send_to
<1>11. ASSUME NEW f \in Fds, OtherOpens(f) \/ OtherCloses(f) PROVE UdpInv'
  BY <1>11, OtherOK
<1> QED
  BY <1>1, <1>2, <1>3, <1>4, <1>5, <1>6, <1>7, <1>8, <1>9, <1>10, <1>11 DEF Next

----------------------------------------------------------------------------
(***************************************************************************)
(* The value of an object as a step leaves it.                              *)
(***************************************************************************)
LEMMA ValueSame ==
  ASSUME UdpInv, NEW e \in Objects, e \in alive' <=> e \in alive, fd'[e] = fd[e],
         fd[e] # Empty => /\ portOf'[fd[e]] = portOf[fd[e]]
                          /\ queue'[fd[e]] = queue[fd[e]]
  PROVE  Value(e)' = Value(e)
BY DEF Value, get_port, Nullopt

\* What the object x shows is a function of all the objects.
LEMMA ValueAt == \A x \in Objects : [o \in Objects |-> Value(o)][x] = Value(x)
OBVIOUS

LEMMA ValueChanges ==
  ASSUME NEW f, f = [o \in Objects |-> Value(o)],
         NEW g, g = [o \in Objects |-> Value(o)'],
         NEW x \in Objects, NEW v, Value(x)' = v,
         \A e \in Objects : e # x => Value(e)' = Value(e)
  PROVE  g = [f EXCEPT ![x] = v]
OBVIOUS

(***************************************************************************)
(* A construction creates a fresh socket.                                   *)
(***************************************************************************)
LEMMA CreateStep ==
  ASSUME UdpInv, NEW o \in Objects, NEW f \in Fds, Construct(o, f),
         UNCHANGED <<portOf, queue>>
  PROVE  Handle!Create(o)
<1>1. /\ o \notin alive /\ f \notin openFds /\ f # Empty
      /\ alive' = alive \cup {o} /\ fd'[o] = f
      /\ \A e \in Objects : e # o => fd'[e] = fd[e]
  BY FdsAreNotEmpty DEF Construct, NewFd, UdpInv, UdpTypeOK
<1>2. portOf'[f] = NoPort /\ queue'[f] = <<>>
  BY <1>1 DEF UdpInv, FdsOK
<1>3. Value(o) = Handle!Absent /\ Value(o)' = Handle!Fresh
  BY <1>1, <1>2 DEF Value, get_port, Nullopt, NoPort, Handle!Absent, Handle!Fresh,
     Handle!Socket, Handle!Unbound, Handle!Nullopt
<1>4. \A e \in Objects : e # o => Value(e)' = Value(e)
  BY <1>1, ValueSame
<1> QED
  BY <1>3, <1>4, ValueChanges DEF Handle!Create

(***************************************************************************)
(* A socket gets its port.                                                  *)
(***************************************************************************)
LEMMA NameStep ==
  ASSUME UdpInv, NEW o \in Objects, NEW p \in Ports, o \in alive, fd[o] # Empty,
         portOf[fd[o]] = NoPort, ~ PortInUse(p),
         portOf' = [portOf EXCEPT ![fd[o]] = p],
         UNCHANGED <<alive, fd, queue>>
  PROVE  Handle!Name(o, p)
<1>1. fd[o] \in Fds /\ portOf'[fd[o]] = p
  BY DEF UdpInv, UdpTypeOK
<1>2. /\ Value(o).state = "open" /\ Value(o).port = Handle!Unbound
      /\ Value(o)' = [Value(o) EXCEPT !.port = p]
  BY <1>1 DEF Value, get_port, NoPort, Handle!Unbound
<1>3. ASSUME NEW e \in Objects, e # o PROVE Value(e)' = Value(e)
  <2>1. fd[e] # Empty => fd[e] # fd[o] /\ fd[e] \in Fds
    BY <1>3 DEF UdpInv, UdpTypeOK, UniqueOwner
  <2> QED
    BY <2>1, ValueSame DEF UdpInv, UdpTypeOK
<1>4. ASSUME NEW e \in Objects PROVE Value(e).port # p
  <2>1. p # Nullopt
    BY SocketAssumption DEF Nullopt
  <2>2. fd[e] # Empty => fd[e] \in openFds
    BY DEF UdpInv, UniqueOwner
  <2> QED
    BY <2>1, <2>2 DEF Value, get_port, Nullopt, PortInUse
<1> QED
  BY <1>2, <1>3, <1>4, ValueChanges DEF Handle!Name, Handle!PortTaken

(***************************************************************************)
(* The end of an object is the end of its socket, and of no other.          *)
(***************************************************************************)
LEMMA HeldIsOwn ==
  ASSUME UdpInv, NEW o \in Objects, Close(Held(o)), NEW e \in Objects, e # o,
         fd[e] # Empty
  PROVE  portOf'[fd[e]] = portOf[fd[e]] /\ queue'[fd[e]] = queue[fd[e]]
BY DEF Close, Held, UdpInv, UdpTypeOK, UniqueOwner

LEMMA DestroyStep ==
  ASSUME UdpInv, NEW o \in Objects, o \in alive, Close(Held(o)),
         alive' = alive \ {o}, fd' = [fd EXCEPT ![o] = Empty]
  PROVE  Handle!Destroy(o)
<1>1. Value(o).state # "absent" /\ Value(o)' = Handle!Absent
  BY DEF Value, get_port, Nullopt, Handle!Absent, Handle!Socket, Handle!Nullopt
<1>2. ASSUME NEW e \in Objects, e # o PROVE Value(e)' = Value(e)
  <2>1. fd'[e] = fd[e] /\ (e \in alive' <=> e \in alive)
    BY <1>2 DEF UdpInv, UdpTypeOK
  <2> QED
    BY <1>2, <2>1, HeldIsOwn, ValueSame
<1> QED
  BY <1>1, <1>2, ValueChanges DEF Handle!Destroy

(***************************************************************************)
(* A move gives the target the value of the source.                         *)
(***************************************************************************)
LEMMA MoveStep ==
  ASSUME UdpInv, NEW o \in Objects, NEW other \in Objects, other \in alive,
         Close(Held(o)), alive' = alive \cup {o},
         fd' = [fd EXCEPT ![o] = fd[other], ![other] = Empty]
  PROVE  Handle!Move(o, other)
<1> DEFINE value == [x \in Objects |-> Value(x)]
<1>1. /\ fd'[other] = Empty
      /\ o # other => fd'[o] = fd[other]
      /\ \A e \in Objects : e \notin {o, other} => fd'[e] = fd[e]
  BY DEF UdpInv, UdpTypeOK
<1>2. Value(other).state # "absent" /\ Value(other)' = Handle!Empty
  <2>1. Value(other).state # "absent"
    BY DEF Value, get_port, Nullopt
  <2>2. other \in alive'
    OBVIOUS
  <2> QED
    BY <1>1, <2>1, <2>2 DEF Value, get_port, Nullopt, Handle!Empty, Handle!Socket,
       Handle!Nullopt
<1>3. ASSUME o # other PROVE Value(o)' = Value(other)
  <2>1. o \in alive' /\ fd'[o] = fd[other]
    BY <1>1, <1>3
  <2>2. fd[other] # Empty => /\ portOf'[fd[other]] = portOf[fd[other]]
                             /\ queue'[fd[other]] = queue[fd[other]]
    BY <1>3, HeldIsOwn
  <2> QED
    BY <2>1, <2>2 DEF Value, get_port, Nullopt
<1>4. ASSUME NEW e \in Objects, e \notin {o, other} PROVE Value(e)' = Value(e)
  <2>1. fd'[e] = fd[e] /\ (e \in alive' <=> e \in alive)
    BY <1>1, <1>4
  <2> QED
    BY <1>4, <2>1, HeldIsOwn, ValueSame
<1>5. ASSUME NEW e \in Objects
      PROVE  Value(e)' = [value EXCEPT ![o] = value[other], ![other] = Handle!Empty][e]
  BY <1>2, <1>3, <1>4
<1>6. [x \in Objects |-> Value(x)']
        = [value EXCEPT ![o] = value[other], ![other] = Handle!Empty]
  BY <1>5
<1> QED
  BY <1>2, <1>6 DEF Handle!Move

(***************************************************************************)
(* A datagram is put on, or taken from, the queue of one object.            *)
(***************************************************************************)
LEMMA QueueStep ==
  ASSUME UdpInv, NEW to \in Objects, fd[to] # Empty,
         NEW q, queue' = [queue EXCEPT ![fd[to]] = q],
         UNCHANGED <<alive, fd, portOf>>
  PROVE  /\ Value(to).state = "open" /\ Value(to).queue = queue[fd[to]]
         /\ Value(to)' = [Value(to) EXCEPT !.queue = q]
         /\ \A e \in Objects : e # to => Value(e)' = Value(e)
<1>1. fd[to] \in Fds /\ to \in alive /\ queue'[fd[to]] = q
  BY DEF UdpInv, UdpTypeOK, UniqueOwner
<1>2. /\ Value(to).state = "open" /\ Value(to).queue = queue[fd[to]]
      /\ Value(to)' = [Value(to) EXCEPT !.queue = q]
  BY <1>1 DEF Value, get_port, Nullopt
<1>3. ASSUME NEW e \in Objects, e # to PROVE Value(e)' = Value(e)
  <2>1. fd[e] # Empty => fd[e] # fd[to] /\ fd[e] \in Fds
    BY <1>3 DEF UdpInv, UdpTypeOK, UniqueOwner
  <2> QED
    BY <2>1, ValueSame DEF UdpInv, UdpTypeOK
<1> QED
  BY <1>2, <1>3

LEMMA SendStep ==
  ASSUME UdpInv, NEW o \in Objects, NEW p \in Ports, send_to(o, p)
  PROVE  Handle!Next
<1> DEFINE from == portOf[fd[o]]
<1>1. /\ fd[o] # Empty /\ from # NoPort /\ o \in alive
      /\ UNCHANGED <<alive, fd, portOf>>
  BY DEF send_to, Usable, objectVars
<1>2. PICK f \in openFds : portOf[f] = p /\ queue' = [queue EXCEPT ![f] = Append(@, from)]
  BY DEF send_to
<1>3. f \in openFds \ otherFds
  BY <1>2, FdsAreNotEmpty DEF UdpInv, UdpTypeOK, FdsOK
<1>4. PICK to \in Objects : fd[to] = f
  BY <1>3 DEF UdpInv, UdpTypeOK, UniqueOwner
<1>5. fd[to] # Empty /\ queue' = [queue EXCEPT ![fd[to]] = Append(queue[fd[to]], from)]
  BY <1>2, <1>3, <1>4, FdsAreNotEmpty DEF UdpInv, UdpTypeOK
<1>6. /\ Value(to).state = "open" /\ Value(to).queue = queue[fd[to]]
      /\ Value(to)' = [Value(to) EXCEPT !.queue = Append(queue[fd[to]], from)]
      /\ \A e \in Objects : e # to => Value(e)' = Value(e)
  BY <1>1, <1>5, QueueStep
<1>7. Value(o).state = "open" /\ Value(o).port = from /\ from \in Ports
  BY <1>1 DEF Value, get_port, Nullopt, UdpInv, UdpTypeOK
<1>8. Handle!Send(o, from, to)
  BY <1>6, <1>7, ValueChanges DEF Handle!Send
<1> QED
  BY <1>7, <1>8 DEF Handle!Next

LEMMA ReceiveStep ==
  ASSUME UdpInv, NEW o \in Objects, receive(o)
  PROVE  Handle!Receive(o)
<1>1. /\ fd[o] # Empty /\ queue[fd[o]] # <<>>
      /\ queue' = [queue EXCEPT ![fd[o]] = Tail(queue[fd[o]])]
      /\ UNCHANGED <<alive, fd, portOf>>
  BY DEF receive, objectVars
<1>2. /\ Value(o).queue = queue[fd[o]]
      /\ Value(o)' = [Value(o) EXCEPT !.queue = Tail(queue[fd[o]])]
      /\ \A e \in Objects : e # o => Value(e)' = Value(e)
  BY <1>1, QueueStep
<1> QED
  BY <1>1, <1>2, ValueChanges DEF Handle!Receive

(***************************************************************************)
(* Every step is one of the abstract socket objects, or none.               *)
(***************************************************************************)
LEMMA HandleStep == UdpInv /\ [Next]_vars => [Handle!Next]_([o \in Objects |-> Value(o)])
<1> SUFFICES ASSUME UdpInv, [Next]_vars
             PROVE  Handle!Next \/ \A e \in Objects : Value(e)' = Value(e)
  OBVIOUS
<1>1. CASE UNCHANGED vars
  BY <1>1 DEF vars, objectVars, kernelVars, Value, get_port
<1>2. ASSUME NEW o \in Objects, NEW f \in Fds,
             open(o, f) \/ \E p \in Ports : bind(o, f, p)
      PROVE  Handle!Next
  BY <1>2, CreateStep DEF open, bind, Handle!Next
<1>3. ASSUME NEW o \in Objects, BindDone(o) PROVE Handle!Next
  <2>1. /\ o \in alive /\ fd[o] # Empty /\ portOf[fd[o]] = NoPort
        /\ binding[o] \in Ports
    BY <1>3 DEF BindDone, UdpInv, UdpTypeOK, BindingOK
  <2> QED
    BY <1>3, <2>1, NameStep DEF BindDone, Handle!Next
<1>4. ASSUME NEW o \in Objects, BindError(o) \/ Destroy(o) PROVE Handle!Next
  <2>1. o \in alive
    BY <1>4 DEF BindError, Destroy, Usable, UdpInv, BindingOK
  <2> QED
    BY <1>4, <2>1, DestroyStep DEF BindError, Destroy, Handle!Next
<1>5. ASSUME NEW o \in Objects, NEW other \in Objects,
             MoveConstruct(o, other) \/ MoveAssign(o, other)
      PROVE  Handle!Next
  <2>1. other \in alive /\ fd' = [fd EXCEPT ![o] = fd[other], ![other] = Empty]
    BY <1>5 DEF MoveConstruct, MoveAssign, Usable
  <2>2. alive' = alive \cup {o}
    BY <1>5 DEF MoveConstruct, MoveAssign, Usable
  <2>3. Close(Held(o))
    BY <1>5, CloseNothing, NothingHeld DEF MoveConstruct, MoveAssign
  <2> QED
    BY <2>1, <2>2, <2>3, MoveStep DEF Handle!Next
<1>6. ASSUME NEW o \in Objects, receive(o) PROVE Handle!Next
  BY <1>6, ReceiveStep DEF Handle!Next
<1>7. ASSUME NEW o \in Objects, NEW p \in Ports, AutoBind(o, p) PROVE Handle!Next
  BY <1>7, NameStep DEF AutoBind, Usable, objectVars, Handle!Next
<1>8. ASSUME NEW o \in Objects, NEW p \in Ports, send_to(o, p) PROVE Handle!Next
  BY <1>8, SendStep
<1>9. ASSUME NEW f \in Fds, OtherOpens(f) \/ OtherCloses(f)
       PROVE  \A e \in Objects : Value(e)' = Value(e)
  <2>1. UNCHANGED <<alive, fd>>
    BY <1>9 DEF OtherOpens, OtherCloses, objectVars
  <2>2. portOf' = portOf /\ queue' = queue
    BY <1>9 DEF OtherOpens, OtherCloses, Close, UdpInv, UdpTypeOK, FdsOK
  <2> QED
    BY <2>1, <2>2 DEF Value, get_port, Nullopt
<1> QED
  BY <1>1, <1>2, <1>3, <1>4, <1>5, <1>6, <1>7, <1>8, <1>9 DEF Next

(***************************************************************************)
(* The types of the objects, and of the descriptors and what the kernel      *)
(* keeps for each, are right in every reachable state.                      *)
(***************************************************************************)
THEOREM SocketTypes == Spec => []UdpTypeOK
<1>1. UdpInv => UdpTypeOK
  BY DEF UdpInv
<1> QED
  BY <1>1, UdpInitOK, UdpStepOK, PTL DEF Spec

(***************************************************************************)
(* Ownership: no descriptor is leaked, closed twice, or used after its      *)
(* number was given to somebody else.                                       *)
(***************************************************************************)
THEOREM Ownership == Spec => []UniqueOwner
<1>1. UdpInv => UniqueOwner
  BY DEF UdpInv
<1> QED
  BY <1>1, UdpInitOK, UdpStepOK, PTL DEF Spec

(***************************************************************************)
(* The objects are sockets with a value of their own: the move operations,  *)
(* the destructor and the failing bind() keep the descriptors out of sight. *)
(***************************************************************************)
THEOREM ImplementsHandle == Spec => HandleSpec
<1>1. Init => Handle!Init
  BY DEF Init, Value, Nullopt, Handle!Init, Handle!Absent, Handle!Socket, Handle!Nullopt
<1> QED
  BY <1>1, HandleStep, UdpInitOK, UdpStepOK, PTL DEF Spec, HandleSpec, Handle!Spec
=============================================================================
