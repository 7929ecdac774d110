----------------------------- MODULE UdpSandbox -----------------------------
(***************************************************************************)
(* Programs that exchange datagrams on one machine, started and stopped by   *)
(* a runner: sandbox/udp-ping and sandbox/udp-many.                         *)
(*                                                                          *)
(* Each main() is a script with one socket.  The kernel puts a datagram into *)
(* the queue of a socket when it is sent, or drops it, and the sender cannot *)
(* tell.  What is sent to a port that nobody is bound to is lost.           *)
(***************************************************************************)
EXTENDS Runner, UdpScript, FiniteSets, Functions

CONSTANTS
  Script,    \* Script[p]: the instructions of program p
  Ports,     \* the ports that the programs name
  Groups,    \* the ports that are sent to as a multicast group
  MayBeTaken, \* the ports that somebody else may hold, like a program left behind earlier
  MaxFaults, \* bound: how many system calls fail for want of a resource
  MaxDrops   \* bound: how many datagrams the kernel drops

\* A program that sends before it binds gets a port of its own from the kernel.
AllPorts == Ports \cup Programs

ASSUME UdpAssumption ==
  /\ Programs \subseteq DOMAIN Script
  /\ Ports \cap Programs = {} /\ NoPort \notin AllPorts
  /\ Groups \subseteq Ports /\ MayBeTaken \subseteq Ports
  /\ MaxFaults \in Nat /\ MaxDrops \in Nat

VARIABLES
  at,      \* at[p]: the position of p in its script
  port,    \* port[p]: the port that p's socket is bound to
  shared,  \* the programs whose socket has SO_REUSEADDR
  joined,  \* the programs whose socket is a member of the group
  queue,   \* queue[p]: the datagrams in the buffer of p's socket
  got,     \* got[p]: the datagrams that p has received
  missed,  \* history: the programs that a datagram for them did not reach
  taken,   \* the ports that somebody else holds
  faults, drops

sockets == <<port, shared, joined, queue>>
counters == <<missed, faults, drops>>
udpVars == <<at, sockets, got, counters, taken>>
vars == <<runnerVars, udpVars>>

UdpType ==
  /\ RunnerType
  /\ at \in [Programs -> Nat] /\ \A p \in Programs : at[p] \in DOMAIN Script[p]
  /\ port \in [Programs -> AllPorts \cup {NoPort}]
  /\ {shared, joined, missed} \subseteq SUBSET Programs
  /\ \A p \in Programs : \A d \in Range(queue[p]) \cup Range(got[p]) : d.from \in AllPorts
  /\ faults \in 0 .. MaxFaults /\ drops \in 0 .. MaxDrops

Init ==
  /\ RunnerInit
  /\ at = [p \in Programs |-> 1]
  /\ port = [p \in Programs |-> NoPort]
  /\ shared = {} /\ joined = {}
  /\ queue = [p \in Programs |-> <<>>]
  /\ got = [p \in Programs |-> <<>>]
  /\ missed = {} /\ faults = 0 /\ drops = 0
  /\ taken \in SUBSET MayBeTaken

Instr(p) == Script[p][at[p]]
At(p, op) == Running(p) /\ Instr(p).op = op

Advance(p) == at' = [at EXCEPT ![p] = @ + 1]

\* The end of a program closes its socket.
Finish(p, code) ==
  /\ End(p, code)
  /\ port' = [port EXCEPT ![p] = NoPort]
  /\ shared' = shared \ {p}
  /\ joined' = joined \ {p}
  /\ queue' = [queue EXCEPT ![p] = <<>>]
  /\ UNCHANGED <<at, got>>

----------------------------------------------------------------------------
(***************************************************************************)
(* socket(), bind() and IP_ADD_MEMBERSHIP.                                  *)
(***************************************************************************)
OpenSocket(p) ==
  /\ At(p, "open")
  /\ Advance(p)
  /\ UNCHANGED <<runnerVars, sockets, got, counters>>

\* The program has no port if its argument is none.
PortTaken(p) ==
  Instr(p).to = NoPort \/ Instr(p).to \in taken \/
  \E q \in Programs \ {p} :
    port[q] = Instr(p).to /\ ~ (q \in shared /\ Instr(p).share)

BindPort(p) ==
  /\ At(p, "bind") /\ ~ PortTaken(p)
  /\ port' = [port EXCEPT ![p] = Instr(p).to]
  /\ shared' = IF Instr(p).share THEN shared \cup {p} ELSE shared
  /\ Advance(p)
  /\ UNCHANGED <<runnerVars, joined, queue, got, counters>>

BindFails(p) ==
  /\ At(p, "bind") /\ PortTaken(p)
  /\ Finish(p, "failure")
  /\ UNCHANGED counters

JoinGroup(p) ==
  /\ At(p, "join")
  /\ joined' = joined \cup {p}
  /\ Advance(p)
  /\ UNCHANGED <<runnerVars, port, shared, queue, got, counters>>

----------------------------------------------------------------------------
(***************************************************************************)
(* sendto().  The kernel (Linux, IP_MULTICAST_ALL) gives a datagram for the  *)
(* group to every socket bound to its port, once anybody has joined; any     *)
(* other only to one of the sockets that share the port.                    *)
(***************************************************************************)
Listens(p, to) == port[p] = to /\ (to \in Groups => joined # {})

\* The programs that wait, or will wait, for datagrams at a port.
MeantFor ==
  [to \in AllPorts |->
    {p \in Programs :
       \/ p = to
       \/ \E i \in DOMAIN Script[p] : Script[p][i].op = "bind" /\ Script[p][i].to = to}]

\* The sets of sockets that the kernel may choose for a datagram.
Receivers(to) ==
  LET listeners == {q \in Programs : Listens(q, to)} IN
  IF to \in Groups \/ listeners = {} THEN {listeners} ELSE {{q} : q \in listeners}

\* The datagram reaches those it is for, except for those it is dropped for.
Deliver(p, to, msg) ==
  \E receivers \in Receivers(to) : \E dropped \in SUBSET receivers :
    /\ drops' = drops + Cardinality(dropped) /\ drops' <= MaxDrops
    /\ queue' = [q \in Programs |->
         IF q \in receivers \ dropped
         THEN Append(queue[q], [from |-> port'[p], msg |-> msg]) ELSE queue[q]]
    /\ missed' = missed \cup dropped \cup {q \in MeantFor[to] \ receivers :
                                           Listens(q, to) \/ ~ At(q, "receive")}

\* Mutant: a sender without a port has no address that could be answered.
AutoBindNot(p) == UNCHANGED port

\* A socket that is not bound gets a port of its own with its first datagram.
AutoBind(p) == port' = [port EXCEPT ![p] = IF @ = NoPort THEN p ELSE @]

\* Mutant: an answer goes to the port that the program itself is bound to.
TargetOwn(p) == IF At(p, "reply") THEN port[p] ELSE Instr(p).to

\* An answer goes to the sender of the last datagram received.
Target(p) == IF At(p, "reply") THEN got[p][Len(got[p])].from ELSE Instr(p).to

SendDatagram(p) ==
  /\ At(p, "send") \/ At(p, "reply")
  /\ AutoBind(p)
  /\ Deliver(p, Target(p), Instr(p).msg)
  /\ Advance(p)
  /\ UNCHANGED <<runnerVars, shared, joined, got, faults>>

----------------------------------------------------------------------------
(***************************************************************************)
(* recvfrom(), return, and what may go wrong in between.                    *)
(***************************************************************************)
\* Mutant: MSG_DONTWAIT in place of MSG_WAITALL, and without a datagram a program ends.
ReceiveNoWait(p) ==
  /\ At(p, "receive")
  /\ IF queue[p] = <<>> THEN Finish(p, "zero")
     ELSE /\ got' = [got EXCEPT ![p] = Append(@, Head(queue[p]))]
          /\ queue' = [queue EXCEPT ![p] = Tail(@)]
          /\ Advance(p)
          /\ UNCHANGED <<runnerVars, port, shared, joined>>
  /\ UNCHANGED counters

ReceiveDatagram(p) ==
  /\ At(p, "receive") /\ queue[p] # <<>>
  /\ got' = [got EXCEPT ![p] = Append(@, Head(queue[p]))]
  /\ queue' = [queue EXCEPT ![p] = Tail(@)]
  /\ Advance(p)
  /\ UNCHANGED <<runnerVars, port, shared, joined, counters>>

ExitZero(p) ==
  /\ At(p, "exit")
  /\ Finish(p, "zero")
  /\ UNCHANGED counters

Killed(p) ==
  /\ Dies(p)
  /\ Finish(p, "killed")
  /\ UNCHANGED counters

\* A system call fails: the program returns its result.
FaultSeen(p) ==
  /\ At(p, "open") \/ At(p, "bind") \/ At(p, "join")
     \/ ((At(p, "send") \/ At(p, "reply")) /\ Instr(p).checked)
  /\ faults < MaxFaults /\ faults' = faults + 1
  /\ Finish(p, "failure")
  /\ UNCHANGED <<missed, drops>>

\* sendto() fails and the program goes on.
FaultUnseen(p) ==
  /\ (At(p, "send") \/ At(p, "reply")) /\ ~ Instr(p).checked
  /\ faults < MaxFaults /\ faults' = faults + 1
  /\ missed' = missed \cup MeantFor[Target(p)]
  /\ Advance(p)
  /\ UNCHANGED <<runnerVars, sockets, got, drops>>

Step(p) ==
  \/ OpenSocket(p) \/ BindPort(p) \/ BindFails(p) \/ JoinGroup(p)
  \/ SendDatagram(p) \/ ReceiveDatagram(p) \/ ExitZero(p)

Next ==
  \/ (RunnerMain \/ Interrupt) /\ UNCHANGED udpVars
  \/ \E p \in Programs :
       (Step(p) \/ Killed(p) \/ FaultSeen(p) \/ FaultUnseen(p)) /\ UNCHANGED taken

Spec == Init /\ [][Next]_vars

----------------------------------------------------------------------------
(***************************************************************************)
(* Properties.                                                              *)
(***************************************************************************)
\* A program that waits although a datagram was sent to it has missed it: it was dropped,
\* or sent before the program waited.
SilenceHasCause ==
  \A p \in Programs :
    At(p, "receive") /\ queue[p] = <<>> /\ p \notin missed =>
      \A q \in Programs : \A i \in 1 .. at[q] - 1 :
        Script[q][i].op = "send" => p \notin MeantFor[Script[q][i].to]

\* All programs that are left wait for each other only after a datagram has been missed,
\* or after a program did not end well.
StandstillHasCause ==
  /\ launched = Len(Order) /\ \E p \in Programs : Running(p)
  /\ \A p \in Programs : Running(p) => At(p, "receive") /\ queue[p] = <<>>
  => missed # {} \/ \E p \in Programs : child[p] \in {"failure", "killed"}

\* A program fails only if a system call failed for want of a resource or somebody else
\* holds its port: no two programs of a sandbox stand in each other's way.
PortsDoNotClash ==
  (\E p \in Programs : child[p] = "failure") => faults > 0 \/ taken # {}

\* A runner that answers 0 has programs that have received all that they wait for.
SuccessIsComplete ==
  pc = "returned" /\ answer = "zero" =>
    \A p \in Programs :
      Len(got[p]) = Cardinality({i \in DOMAIN Script[p] : Script[p][i].op = "receive"})
=============================================================================
