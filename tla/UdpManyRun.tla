------------------------------ MODULE UdpManyRun ------------------------------
(***************************************************************************)
(* sandbox/udp-many with the arguments of its run.py: how many clients of    *)
(* each kind, the first of the unicast ports, and the multicast port.  The   *)
(* host takes no arguments: its ports are in its source.                    *)
(*                                                                          *)
(* The arguments are chosen first, and make the order and the scripts of the *)
(* programs of UdpSandbox.                                                  *)
(***************************************************************************)
EXTENDS Integers, UdpManyScripts

CONSTANTS
  Ports, MaxInterrupts, MaxFaults, MaxDrops, \* of UdpSandbox
  MAX_PORT,     \* 65535 in the program
  str,          \* str[p]: the text of port p, which is its name
  UnicastClients, MulticastClients, \* the clients of each kind
  Arguments,    \* bound: the arguments that are tried
  Followed      \* bound: the arguments of the runs that are followed beyond their time limit,
                \* and that the user may interrupt

ASSUME ManyRunAssumption ==
  /\ {MAX_PORT, MaxInterrupts, MaxFaults, MaxDrops} \subseteq Nat
  /\ str \in [1 .. MAX_PORT -> Ports] /\ IsInjective(str)
  /\ UnicastPorts \in Seq(Ports) /\ IsInjective(UnicastPorts)
  /\ MulticastPort \in Ports \ Range(UnicastPorts)
  /\ Arguments \subseteq [clients : Int, base_port : Int, multicast_port : Int]
  /\ \A a \in Arguments :
       a.clients <= Len(UnicastClients) /\ a.clients <= Len(MulticastClients)

\* The programs have names of their own.
ASSUME NamesAssumption ==
  LET names == {Host} \cup Range(UnicastClients) \cup Range(MulticastClients) IN
  /\ UnicastClients \in Seq(names) /\ IsInjective(UnicastClients)
  /\ MulticastClients \in Seq(names) /\ IsInjective(MulticastClients)
  /\ Host \notin Range(UnicastClients) \cup Range(MulticastClients)
  /\ Range(UnicastClients) \cap Range(MulticastClients) = {}
  /\ names \cap Ports = {} /\ NoPort \notin names \cup Ports

VARIABLES
  args, \* the arguments of run.py
  pc, launched, listed, next, answer, interrupts, child, signal, \* of Runner
  at, port, shared, joined, queue, got, missed, taken, faults, drops \* of UdpSandbox

programVars == <<at, port, shared, joined, queue, got, missed, taken, faults, drops>>
sandboxVars ==
  <<pc, launched, listed, next, answer, interrupts, child, signal, programVars>>
runVars == <<args, sandboxVars>>

----------------------------------------------------------------------------
(***************************************************************************)
(* The arguments, as the runner takes them and as the clients do.           *)
(***************************************************************************)
validate_port(p) == 1 <= p /\ p <= MAX_PORT

\* Mutant: the last port is the base port and the number of clients.
RangeFitsLate(base_port, clients) == base_port + clients - 2 <= MAX_PORT
RangeFits(base_port, clients) == base_port + clients - 1 <= MAX_PORT

client_ports(base_port, clients) == [i \in 1 .. clients |-> base_port + i - 1]

Accepted(a) ==
  /\ a.clients >= 0
  /\ validate_port(a.base_port) /\ validate_port(a.multicast_port)
  /\ a.clients = 0 \/ RangeFits(a.base_port, a.clients)

\* A port is named by its text, and one that a client refuses has no name.
parsePort(p) == IF p \in 1 .. MAX_PORT THEN str[p] ELSE NoPort

Unicast(a) == SubSeq(UnicastClients, 1, a.clients)
Multicast(a) == SubSeq(MulticastClients, 1, a.clients)
ClientPorts(a) ==
  [i \in 1 .. a.clients |-> parsePort(client_ports(a.base_port, a.clients)[i])]

ScriptFor(a) ==
  ManyScript(Unicast(a), ClientPorts(a), Multicast(a), parsePort(a.multicast_port))

Many(a) ==
  INSTANCE UdpSandbox
  WITH Order <- ManyOrder(Unicast(a), Multicast(a)), Script <- ScriptFor(a),
       Polling <- TRUE, Together <- TRUE, Groups <- ManyGroups, MayBeTaken <- {}

----------------------------------------------------------------------------
RunInit == \E a \in Arguments : args = a /\ Many(a)!Init

\* The runner goes on only with arguments that it accepts.
Within(a) ==
  /\ pc = "check" /\ pc' = "launch" => Accepted(a)
  /\ answer' \in {"124", "130"} \/ interrupts' > 0 => a \in Followed

RunNext ==
  \E a \in Arguments : args = a /\ UNCHANGED args /\ Many(a)!Next /\ Within(a)

RunSpec == RunInit /\ [][RunNext]_runVars

RunnerStep ==
  \E a \in Arguments :
    /\ args = a /\ UNCHANGED <<args, programVars>>
    /\ Many(a)!RunnerMain /\ Within(a)

DiesAtLast ==
  \E a \in Arguments, p \in DOMAIN signal :
    /\ args = a /\ UNCHANGED <<args, taken>>
    /\ signal[p] = "KILL" /\ Many(a)!Killed(p)

\* The runner is scheduled and its deadlines pass; SIGKILL ends a program, one after the
\* other.
RunFairness == WF_runVars(RunnerStep) /\ WF_runVars(DiesAtLast)

FairRunSpec == RunSpec /\ RunFairness

----------------------------------------------------------------------------
(***************************************************************************)
(* Properties.                                                              *)
(***************************************************************************)
\* What the runner has accepted no client refuses, and no two clients stand in each other's
\* way; save that the unicast ports may include the multicast port, for which they then
\* compete, because the runner looks at each argument alone; or that a system call failed.
FailureIsOverlap ==
  (\E p \in DOMAIN child : child[p] = "failure") =>
    faults > 0 \/ \E i \in 1 .. args.clients :
      client_ports(args.base_port, args.clients)[i] = args.multicast_port

HostPorts == Range(UnicastPorts) \cup {MulticastPort}

\* The runner answers 0 only for arguments that name ports of the host, though it accepts
\* any; where clients share a port, it must be that of the group, and a unicast client must
\* have no part in it, for it does not share.  With other arguments the runner can only time
\* out, or report a client that failed.
SuccessFitsTheHost ==
  pc = "returned" /\ answer = "zero" /\ args.clients > 0 =>
    /\ Range(ClientPorts(args)) \cup {parsePort(args.multicast_port)} \subseteq HostPorts
    /\ args.clients > 1 => parsePort(args.multicast_port) = MulticastPort
    /\ args.multicast_port \notin Range(client_ports(args.base_port, args.clients))

\* A client that waits although a datagram was sent to it has missed it: the kernel dropped
\* it, or gave it to another client at the same port, or it was sent before the client
\* waited.  That is not so if a unicast client has the port of the group: it does not join.
SilenceHasCause ==
  \A a \in Arguments :
    args = a /\ MulticastPort \notin Range(ClientPorts(a)) => Many(a)!SilenceHasCause

\* What a client receives is the greeting for the port that it is bound to, once, from the
\* host.
RightGreeting ==
  \A a \in Arguments : \A p \in DOMAIN got \ {Host} :
    LET mine == ScriptFor(a)[p][1].to IN
    args = a =>
      /\ Len(got[p]) <= 1
      /\ \A d \in Range(got[p]) :
           d.from = Host /\ d.msg = IF mine = MulticastPort THEN GroupGreeting ELSE mine

\* The runner, which stops all programs together, kills none that was not asked to stop
\* first: SIGKILL only follows a SIGTERM (or the terminal's interrupt) after which the
\* program did not end, whoever ended or was interrupted in between.
TermFirst ==
  [][\A p \in DOMAIN signal :
       signal'[p] = "KILL" => signal[p] # "none"]_runVars

\* The runner returns, though clients wait for ever or ignore SIGTERM.
RunnerReturns == args \in Followed ~> pc = "returned"
=============================================================================
