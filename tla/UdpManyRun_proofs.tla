-------------------------- MODULE UdpManyRun_proofs --------------------------
(***************************************************************************)
(* udp-many with any arguments of its run.py.                                *)
(*                                                                          *)
(* The arguments make the order and the scripts of the programs, and do not  *)
(* change.  So the theorems are about a run with the arguments Chosen, of     *)
(* which nothing is assumed.  If the runner refuses them, no program is        *)
(* started.  If it accepts them, the run is one of UdpSandbox with the         *)
(* programs that they make (ManyRuns), and what UdpSandbox_proofs shows of    *)
(* such programs holds of it.                                               *)
(***************************************************************************)
EXTENDS UdpManyRun, SequenceTheorems, TLAPS

CONSTANT Chosen \* the arguments of run.py: any

Sandbox ==
  INSTANCE UdpSandbox_proofs
  WITH Order <- ManyOrder(Unicast(Chosen), Multicast(Chosen)), Script <- ScriptFor(Chosen),
       Polling <- TRUE, Together <- TRUE, Groups <- ManyGroups, MayBeTaken <- {},
       Checked <- TRUE

----------------------------------------------------------------------------
(***************************************************************************)
(* The run is one of UdpSandbox.                                            *)
(***************************************************************************)
LEMMA SameInit == Many(Chosen)!Init => Sandbox!Init
  BY DEF Many!Init, Sandbox!Init, Many!RunnerInit, Sandbox!RunnerInit, Many!Programs,
     Sandbox!Programs, Many!NoPort, Sandbox!NoPort

LEMMA SameRunnerMain == Many(Chosen)!RunnerMain => Sandbox!RunnerMain
  BY DEF Many!RunnerMain, Sandbox!RunnerMain, Many!Check, Sandbox!Check, Many!Launch,
     Sandbox!Launch, Many!Append1, Sandbox!Append1, Many!LaunchFails, Sandbox!LaunchFails,
     Many!AllLaunched, Sandbox!AllLaunched, Many!SeeAllEnded, Sandbox!SeeAllEnded,
     Many!DeadlinePasses, Sandbox!DeadlinePasses, Many!Collect, Sandbox!Collect, Many!StopNext,
     Sandbox!StopNext, Many!StopDone, Sandbox!StopDone, Many!EndSeen, Sandbox!EndSeen,
     Many!GraceOver, Sandbox!GraceOver, Many!KillNext, Sandbox!KillNext, Many!KillDone,
     Sandbox!KillDone, Many!Programs, Sandbox!Programs, Many!ExitCodes, Sandbox!ExitCodes,
     Many!Running, Sandbox!Running, Many!Ended, Sandbox!Ended, Many!AllEnded, Sandbox!AllEnded,
     Many!Failed, Sandbox!Failed, Many!Stopped, Sandbox!Stopped, Many!Return, Sandbox!Return,
     Many!StopAll, Sandbox!StopAll, Many!Signal, Sandbox!Signal, Many!NoPort, Sandbox!NoPort

LEMMA SameInterrupt == Many(Chosen)!Interrupt => Sandbox!Interrupt
  BY DEF Many!Interrupt, Sandbox!Interrupt, Many!Programs, Sandbox!Programs, Many!ExitCodes,
     Sandbox!ExitCodes, Many!Running, Sandbox!Running, Many!Ended, Sandbox!Ended, Many!AllEnded,
     Sandbox!AllEnded, Many!Failed, Sandbox!Failed, Many!Stopped, Sandbox!Stopped, Many!Return,
     Sandbox!Return, Many!StopAll, Sandbox!StopAll, Many!Signal, Sandbox!Signal, Many!NoPort,
     Sandbox!NoPort

LEMMA SameStep ==
  ASSUME NEW p,
         \/ Many(Chosen)!Step(p) \/ Many(Chosen)!Killed(p)
         \/ Many(Chosen)!FaultSeen(p) \/ Many(Chosen)!FaultUnseen(p)
  PROVE  \/ Sandbox!Step(p) \/ Sandbox!Killed(p)
         \/ Sandbox!FaultSeen(p) \/ Sandbox!FaultUnseen(p)
  BY DEF Many!Step, Sandbox!Step, Many!Killed, Sandbox!Killed, Many!FaultSeen, Sandbox!FaultSeen,
     Many!FaultUnseen, Sandbox!FaultUnseen, Many!OpenSocket, Sandbox!OpenSocket, Many!BindPort,
     Sandbox!BindPort, Many!BindFails, Sandbox!BindFails, Many!JoinGroup, Sandbox!JoinGroup,
     Many!SendDatagram, Sandbox!SendDatagram, Many!ReceiveDatagram, Sandbox!ReceiveDatagram,
     Many!ExitZero, Sandbox!ExitZero, Many!Finish, Sandbox!Finish, Many!End, Sandbox!End,
     Many!Dies, Sandbox!Dies, Many!At, Sandbox!At, Many!Instr, Sandbox!Instr, Many!Advance,
     Sandbox!Advance, Many!PortTaken, Sandbox!PortTaken, Many!Deliver, Sandbox!Deliver,
     Many!Receivers, Sandbox!Receivers, Many!Listens, Sandbox!Listens, Many!MeantFor,
     Sandbox!MeantFor, Many!AllPorts, Sandbox!AllPorts, Many!Target, Sandbox!Target,
     Many!AutoBind, Sandbox!AutoBind, Many!runnerVars, Sandbox!runnerVars, Many!udpVars,
     Sandbox!udpVars, Many!sockets, Sandbox!sockets, Many!counters, Sandbox!counters,
     Many!Cardinality, Sandbox!Cardinality, Many!NoPort, Sandbox!NoPort, Many!Programs,
     Sandbox!Programs, Many!Running, Sandbox!Running

LEMMA SameNext == Many(Chosen)!Next => Sandbox!Next
<1>1. Many(Chosen)!Programs = Sandbox!Programs
  BY DEF Many!Programs, Sandbox!Programs
<1>2. Many(Chosen)!udpVars = Sandbox!udpVars
  BY DEF Many!udpVars, Sandbox!udpVars, Many!sockets, Sandbox!sockets, Many!counters,
     Sandbox!counters
<1> QED
  BY SameRunnerMain, SameInterrupt, SameStep, <1>1, <1>2 DEF Many!Next, Sandbox!Next,
     Many!udpVars, Sandbox!udpVars, Many!sockets, Sandbox!sockets, Many!counters,
     Sandbox!counters

\* A step of the run with its arguments.
LEMMA RunStep ==
  ASSUME args = Chosen, [RunNext]_runVars
  PROVE  /\ args' = Chosen /\ [Sandbox!Next]_Sandbox!vars
         /\ pc = "check" /\ pc' = "launch" => Accepted(Chosen)
<1>1. CASE RunNext
  <2>1. PICK a \in Arguments :
          /\ args = a /\ UNCHANGED args
          /\ Many(a)!Next
          /\ pc = "check" /\ pc' = "launch" => Accepted(a)
    BY <1>1 DEF RunNext, Within
  <2>2. a = Chosen
    BY <2>1
  <2>3. Many(Chosen)!Next
    BY <2>1, <2>2
  <2> QED
    BY <2>1, <2>2, <2>3, SameNext
<1>2. CASE UNCHANGED runVars
  BY <1>2 DEF runVars, sandboxVars, programVars, Sandbox!vars, Sandbox!runnerVars, Sandbox!udpVars,
     Sandbox!sockets, Sandbox!counters
<1> QED
  BY <1>1, <1>2

\* The run with its arguments is a run of the programs that they make.
THEOREM ManyRuns ==
  /\ RunSpec /\ args = Chosen => Sandbox!Spec /\ [](args = Chosen)
  /\ RunSpec /\ ~ (args = Chosen) => []~ (args = Chosen)
<1>1. RunInit /\ args = Chosen => Sandbox!Init
  <2> SUFFICES ASSUME RunInit, args = Chosen PROVE Sandbox!Init
    OBVIOUS
  <2>1. PICK a \in Arguments : args = a /\ Many(a)!Init
    BY DEF RunInit
  <2>2. a = Chosen
    BY <2>1
  <2>3. Many(Chosen)!Init
    BY <2>1, <2>2
  <2> QED
    BY <2>3, SameInit
<1>2. args = Chosen /\ [RunNext]_runVars => (args = Chosen)' /\ [Sandbox!Next]_Sandbox!vars
  BY RunStep
<1>3. ~ (args = Chosen) /\ [RunNext]_runVars => (~ (args = Chosen))'
  BY DEF RunNext, runVars
<1> QED
  BY <1>1, <1>2, <1>3, PTL DEF RunSpec, Sandbox!Spec

----------------------------------------------------------------------------
(***************************************************************************)
(* The programs that accepted arguments make.                               *)
(***************************************************************************)
\* The host, the unicast clients and the multicast clients, one after the other.
LEMMA OrderIs ==
  ASSUME NEW S, Host \in S, NEW u \in Seq(S), NEW m \in Seq(S),
         IsInjective(u), IsInjective(m), Host \notin Range(u) \cup Range(m),
         Range(u) \cap Range(m) = {}
  PROVE  /\ ManyOrder(u, m) \in Seq({Host} \cup Range(u) \cup Range(m))
         /\ Range(ManyOrder(u, m)) = {Host} \cup Range(u) \cup Range(m)
         /\ IsInjective(ManyOrder(u, m))
<1> DEFINE o == ManyOrder(u, m)
           k == Len(u)
           l == Len(m)
           h == <<Host>>
<1>1. /\ k \in Nat /\ l \in Nat /\ DOMAIN u = 1 .. k /\ DOMAIN m = 1 .. l
      /\ h \in Seq(S) /\ Len(h) = 1 /\ h[1] = Host
  OBVIOUS
<1>2. o = (h \o u) \o m
  BY DEF ManyOrder
<1> HIDE DEF o, h
<1>3. /\ h \o u \in Seq(S) /\ Len(h \o u) = 1 + k
      /\ \A i \in 1 .. 1 + k : (h \o u)[i] = IF i <= 1 THEN h[i] ELSE u[i - 1]
  <2>1. /\ h \o u \in Seq(S) /\ Len(h \o u) = Len(h) + Len(u)
        /\ \A i \in 1 .. Len(h) + Len(u) :
             (h \o u)[i] = IF i <= Len(h) THEN h[i] ELSE u[i - Len(h)]
    BY <1>1, ConcatProperties
  <2> QED
    BY <1>1, <2>1
<1>4. /\ o \in Seq(S) /\ Len(o) = 1 + k + l
      /\ \A i \in 1 .. 1 + k + l :
           o[i] = IF i <= 1 + k THEN (h \o u)[i] ELSE m[i - (1 + k)]
  <2>1. /\ o \in Seq(S) /\ Len(o) = Len(h \o u) + Len(m)
        /\ \A i \in 1 .. Len(h \o u) + Len(m) :
             o[i] = IF i <= Len(h \o u) THEN (h \o u)[i] ELSE m[i - Len(h \o u)]
    BY <1>2, <1>3, ConcatProperties
  <2> QED
    BY <1>1, <1>3, <2>1
<1> HIDE DEF k, l
<1>5. DOMAIN o = 1 .. 1 + k + l
  BY <1>1, <1>4
<1>6. o[1] = Host
  BY <1>1, <1>3, <1>4
<1>7. ASSUME NEW i \in 1 .. k PROVE o[i + 1] = u[i] /\ i + 1 \in DOMAIN o
  <2>1. i + 1 \in 1 .. 1 + k /\ i + 1 \in 1 .. 1 + k + l /\ i + 1 <= 1 + k
        /\ ~ (i + 1 <= 1) /\ (i + 1) - 1 = i
    BY <1>1
  <2> QED
    BY <1>3, <1>4, <1>5, <2>1
<1>8. ASSUME NEW i \in 1 .. l PROVE o[i + (1 + k)] = m[i] /\ i + (1 + k) \in DOMAIN o
  <2>1. i + (1 + k) \in 1 .. 1 + k + l /\ ~ (i + (1 + k) <= 1 + k)
        /\ (i + (1 + k)) - (1 + k) = i
    BY <1>1
  <2> QED
    BY <1>4, <1>5, <2>1
<1>9. ASSUME NEW i \in DOMAIN o
      PROVE  \/ i = 1
             \/ i - 1 \in 1 .. k /\ o[i] = u[i - 1]
             \/ i - (1 + k) \in 1 .. l /\ o[i] = m[i - (1 + k)]
  <2>1. CASE i - 1 \in 1 .. k
    <3>1. (i - 1) + 1 = i
      BY <1>5, <1>1
    <3> QED
      BY <1>7, <2>1, <3>1
  <2>2. CASE i - (1 + k) \in 1 .. l
    <3>1. (i - (1 + k)) + (1 + k) = i
      BY <1>5, <1>1
    <3> QED
      BY <1>8, <2>2, <3>1
  <2> QED
    BY <1>1, <1>5, <2>1, <2>2
<1>10. Range(o) = {Host} \cup Range(u) \cup Range(m)
  <2>1. Range(o) \subseteq {Host} \cup Range(u) \cup Range(m)
    BY <1>1, <1>6, <1>9 DEF Range
  <2>2. Range(u) \subseteq Range(o)
    BY <1>1, <1>7 DEF Range
  <2>3. Range(m) \subseteq Range(o)
    BY <1>1, <1>8 DEF Range
  <2>4. Host \in Range(o)
    <3>1. 1 \in DOMAIN o
      BY <1>1, <1>5
    <3> QED
      BY <1>6, <3>1 DEF Range
  <2> QED
    BY <2>1, <2>2, <2>3, <2>4
<1>11. o \in Seq({Host} \cup Range(u) \cup Range(m))
  <2>1. o = [i \in 1 .. 1 + k + l |-> o[i]] /\ 1 + k + l \in Nat
    BY <1>1, <1>4, <1>5
  <2>2. \A i \in 1 .. 1 + k + l : o[i] \in {Host} \cup Range(u) \cup Range(m)
    BY <1>5, <1>10 DEF Range
  <2> QED
    BY <2>1, <2>2
<1>12. ASSUME NEW i \in DOMAIN o, NEW j \in DOMAIN o, o[i] = o[j] PROVE i = j
  <2>1. \A n \in 1 .. k : u[n] # Host /\ \A n1 \in 1 .. l : u[n] # m[n1]
    BY <1>1 DEF Range
  <2>2. \A n \in 1 .. l : m[n] # Host
    BY <1>1 DEF Range
  <2>3. \A n, n1 \in 1 .. k : u[n] = u[n1] => n = n1
    BY <1>1 DEF IsInjective
  <2>4. \A n, n1 \in 1 .. l : m[n] = m[n1] => n = n1
    BY <1>1 DEF IsInjective
  <2>5. i \in Nat /\ j \in Nat
    BY <1>5, <1>1
  <2>6. CASE i = 1
    BY <1>6, <1>9, <1>12, <2>1, <2>2, <2>6
  <2>7. CASE j = 1
    BY <1>6, <1>9, <1>12, <2>1, <2>2, <2>7
  <2>8. CASE i # 1 /\ j # 1 /\ i - 1 \in 1 .. k /\ o[i] = u[i - 1]
    <3>1. j - 1 \in 1 .. k /\ o[j] = u[j - 1]
      BY <1>9, <1>12, <2>1, <2>8
    <3>2. i - 1 = j - 1
      BY <1>12, <2>3, <2>8, <3>1
    <3> QED
      BY <2>5, <3>2
  <2>9. CASE i # 1 /\ j # 1 /\ i - (1 + k) \in 1 .. l /\ o[i] = m[i - (1 + k)]
    <3>1. j - (1 + k) \in 1 .. l /\ o[j] = m[j - (1 + k)]
      BY <1>9, <1>12, <2>1, <2>9
    <3>2. i - (1 + k) = j - (1 + k)
      BY <1>12, <2>4, <2>9, <3>1
    <3> QED
      BY <1>1, <2>5, <3>2
  <2> QED
    BY <1>9, <2>6, <2>7, <2>8, <2>9
<1> QED
  BY <1>10, <1>11, <1>12 DEF o, IsInjective

\* As many clients as asked for are the first of all clients.
LEMMA FirstClients ==
  ASSUME NEW S, NEW all \in Seq(S), NEW n \in Int, n <= Len(all), IsInjective(all)
  PROVE  LET s == SubSeq(all, 1, n) IN
         /\ s \in Seq(S) /\ DOMAIN s = 1 .. n
         /\ Range(s) \subseteq Range(all) /\ IsInjective(s)
<1> DEFINE s == SubSeq(all, 1, n)
<1>1. Len(all) \in Nat /\ DOMAIN all = 1 .. Len(all) /\ \A i \in 1 .. n : i \in 1 .. Len(all)
  OBVIOUS
<1>2. \A i \in 1 .. n : all[i] \in S
  BY <1>1
<1>3. /\ s \in Seq(S) /\ Len(s) = IF 1 <= n THEN n - 1 + 1 ELSE 0
      /\ \A i \in 1 .. n - 1 + 1 : s[i] = all[1 + i - 1]
  BY <1>2, SubSeqProperties
<1> HIDE DEF s
<1>4. DOMAIN s = 1 .. n
  BY <1>3
<1>5. \A i \in 1 .. n : s[i] = all[i]
  BY <1>3
<1>6. Range(s) \subseteq Range(all)
  BY <1>1, <1>4, <1>5 DEF Range
<1>7. IsInjective(s)
  BY <1>1, <1>4, <1>5 DEF IsInjective
<1> QED
  BY <1>3, <1>4, <1>6, <1>7 DEF s

\* The ports that a client is given, with the checks of its runner.
LEMMA PortsAre ==
  ASSUME Chosen \in Arguments, Accepted(Chosen)
  PROVE  /\ Chosen.clients \in Nat
         /\ DOMAIN ClientPorts(Chosen) = 1 .. Chosen.clients
         /\ parsePort(Chosen.multicast_port) \in Ports
         /\ \A i \in 1 .. Chosen.clients : ClientPorts(Chosen)[i] \in Ports
         /\ \A i, j \in 1 .. Chosen.clients :
              ClientPorts(Chosen)[i] = ClientPorts(Chosen)[j] => i = j
         /\ \A i \in 1 .. Chosen.clients :
              ClientPorts(Chosen)[i] = parsePort(Chosen.multicast_port) =>
                client_ports(Chosen.base_port, Chosen.clients)[i] = Chosen.multicast_port
<1> DEFINE n == Chosen.clients
           b == Chosen.base_port
           m == Chosen.multicast_port
<1>1. /\ n \in Nat /\ b \in 1 .. MAX_PORT /\ m \in 1 .. MAX_PORT /\ MAX_PORT \in Nat
      /\ n = 0 \/ b + n - 1 <= MAX_PORT
  BY ManyRunAssumption DEF Accepted, validate_port, RangeFits
<1>2. /\ str \in [1 .. MAX_PORT -> Ports]
      /\ \A p, q \in 1 .. MAX_PORT : str[p] = str[q] => p = q
  BY ManyRunAssumption DEF IsInjective
<1> HIDE DEF n, b, m
<1>3. \A i \in 1 .. n : b + i - 1 \in 1 .. MAX_PORT
  BY <1>1
<1>4. \A i \in 1 .. n : client_ports(b, n)[i] = b + i - 1
  BY DEF client_ports
<1>5. \A i \in 1 .. n : ClientPorts(Chosen)[i] = str[b + i - 1]
  BY <1>3, <1>4 DEF ClientPorts, parsePort, n, b
<1>6. parsePort(m) = str[m]
  BY <1>1 DEF parsePort
<1>7. DOMAIN ClientPorts(Chosen) = 1 .. n
  BY DEF ClientPorts, n
<1>8. ASSUME NEW i \in 1 .. n, NEW j \in 1 .. n, ClientPorts(Chosen)[i] = ClientPorts(Chosen)[j]
      PROVE  i = j
  <2>1. b + i - 1 = b + j - 1
    BY <1>2, <1>3, <1>5, <1>8
  <2> QED
    BY <1>1, <2>1
<1>9. ASSUME NEW i \in 1 .. n, ClientPorts(Chosen)[i] = parsePort(m)
      PROVE  client_ports(b, n)[i] = m
  <2>1. str[b + i - 1] = str[m]
    BY <1>5, <1>6, <1>9
  <2> QED
    BY <1>1, <1>2, <1>3, <1>4, <2>1
<1>10. \A i \in 1 .. n : ClientPorts(Chosen)[i] \in Ports
  BY <1>2, <1>3, <1>5
<1>11. parsePort(m) \in Ports
  BY <1>1, <1>2, <1>6
<1> QED
  BY <1>1, <1>7, <1>8, <1>9, <1>10, <1>11 DEF n, b, m

\* Any arguments make a sandbox of programs with names of their own.
LEMMA NamesFit ==
  ASSUME Chosen \in Arguments
  PROVE  LET u == Unicast(Chosen)
             m == Multicast(Chosen) IN
         /\ Sandbox!RunnerAssumption /\ Sandbox!UdpAssumption
         /\ Sandbox!Programs = {Host} \cup Range(u) \cup Range(m)
         /\ Host \notin Range(u) \cup Range(m) /\ Range(u) \cap Range(m) = {}
         /\ DOMAIN u = 1 .. Chosen.clients /\ IsInjective(u)
         /\ DOMAIN m = 1 .. Chosen.clients /\ IsInjective(m)
<1> DEFINE u == Unicast(Chosen)
           m == Multicast(Chosen)
           S == {Host} \cup Range(UnicastClients) \cup Range(MulticastClients)
           o == ManyOrder(u, m)
           all == {Host} \cup Range(u) \cup Range(m)
<1>1. /\ Chosen.clients \in Int /\ Chosen.clients <= Len(UnicastClients)
      /\ Chosen.clients <= Len(MulticastClients)
  BY ManyRunAssumption
<1>2. /\ u \in Seq(S) /\ DOMAIN u = 1 .. Chosen.clients
      /\ Range(u) \subseteq Range(UnicastClients) /\ IsInjective(u)
  BY <1>1, FirstClients, NamesAssumption DEF Unicast
<1>3. /\ m \in Seq(S) /\ DOMAIN m = 1 .. Chosen.clients
      /\ Range(m) \subseteq Range(MulticastClients) /\ IsInjective(m)
  BY <1>1, FirstClients, NamesAssumption DEF Multicast
<1>4. /\ S \cap Ports = {} /\ NoPort \notin S \cup Ports
      /\ Host \notin Range(UnicastClients) \cup Range(MulticastClients)
      /\ Range(UnicastClients) \cap Range(MulticastClients) = {}
  BY NamesAssumption
<1> HIDE DEF u, m, S, o
<1>5. Host \notin Range(u) \cup Range(m) /\ Range(u) \cap Range(m) = {} /\ all \subseteq S
  BY <1>2, <1>3, <1>4 DEF S
<1>6. o \in Seq(all) /\ Range(o) = all /\ IsInjective(o)
  <2>1. Host \in S
    BY DEF S
  <2>2. u \in Seq(S) /\ m \in Seq(S) /\ IsInjective(u) /\ IsInjective(m)
    BY <1>2, <1>3
  <2>3. Host \notin Range(u) \cup Range(m) /\ Range(u) \cap Range(m) = {}
    BY <1>5
  <2> QED
    BY <2>1, <2>2, <2>3, OrderIs DEF o
<1>7. Sandbox!Programs = all
  BY <1>6 DEF Sandbox!Programs, o, u, m, Range
<1>8. Sandbox!RunnerAssumption
  <2>1. \A i, j \in DOMAIN o : o[i] = o[j] => i = j
    BY <1>6 DEF IsInjective
  <2>2. MaxInterrupts \in Nat
    BY ManyRunAssumption
  <2> QED
    BY <1>6, <1>7, <2>1, <2>2 DEF Sandbox!RunnerAssumption, o, u, m
<1>9. Sandbox!UdpAssumption
  <2>1. all \subseteq DOMAIN ScriptFor(Chosen)
    BY DEF ScriptFor, ManyScript, u, m
  <2>2. Ports \cap all = {} /\ NoPort \notin Ports \cup all
    BY <1>4, <1>5
  <2>3. ManyGroups \subseteq Ports /\ MaxFaults \in Nat /\ MaxDrops \in Nat
    BY ManyRunAssumption DEF ManyGroups
  <2> QED
    BY <1>7, <2>1, <2>2, <2>3 DEF Sandbox!UdpAssumption, Sandbox!AllPorts, NoPort, Sandbox!NoPort
<1> QED
  BY <1>2, <1>3, <1>5, <1>7, <1>8, <1>9 DEF u, m

\* Accepted arguments make scripts like those that UdpSandbox_proofs asks for.
LEMMA ScriptsFit ==
  ASSUME Chosen \in Arguments, Accepted(Chosen)
  PROVE  Sandbox!ManyConfig(Unicast(Chosen), ClientPorts(Chosen), Multicast(Chosen),
                            parsePort(Chosen.multicast_port))
<1> DEFINE u == Unicast(Chosen)
           m == Multicast(Chosen)
<1>1. /\ Sandbox!Programs = {Host} \cup Range(u) \cup Range(m)
      /\ Host \notin Range(u) \cup Range(m) /\ Range(u) \cap Range(m) = {}
      /\ DOMAIN u = 1 .. Chosen.clients /\ IsInjective(u)
  BY NamesFit
<1> HIDE DEF u, m
<1>2. ScriptFor(Chosen) =
        Sandbox!ManyScript(u, ClientPorts(Chosen), m, parsePort(Chosen.multicast_port))
  BY DEF ScriptFor, ManyScript, Sandbox!ManyScript, u, m, Host, Sandbox!Host, Range,
     Sandbox!Range, HostScript, Sandbox!HostScript, UnicastClientScript,
     Sandbox!UnicastClientScript, MulticastClientScript, Sandbox!MulticastClientScript,
     Op, Sandbox!Op, BindOp, Sandbox!BindOp, SendOp, Sandbox!SendOp, GroupGreeting,
     Sandbox!GroupGreeting
<1>3. /\ Sandbox!Programs = {Sandbox!Host} \cup Sandbox!Range(u) \cup Sandbox!Range(m)
      /\ Sandbox!Host \notin Sandbox!Range(u) \cup Sandbox!Range(m)
      /\ Sandbox!Range(u) \cap Sandbox!Range(m) = {}
  BY <1>1 DEF Host, Sandbox!Host, Range, Sandbox!Range
<1>4. \A i, j \in DOMAIN u : u[i] = u[j] => i = j
  BY <1>1 DEF IsInjective
<1>5. /\ \A i \in DOMAIN u : ClientPorts(Chosen)[i] \in Ports
      /\ parsePort(Chosen.multicast_port) \in Ports
  BY <1>1, PortsAre
<1>6. /\ UnicastPorts \in Seq(Ports) /\ Sandbox!IsInjective(UnicastPorts)
      /\ MulticastPort \in Ports \ Sandbox!Range(UnicastPorts)
  BY ManyRunAssumption DEF IsInjective, Sandbox!IsInjective, Range, Sandbox!Range
<1>7. ManyGroups = Sandbox!ManyGroups
  BY DEF ManyGroups, Sandbox!ManyGroups
<1> QED
  BY <1>2, <1>3, <1>4, <1>5, <1>6, <1>7 DEF Sandbox!ManyConfig, u, m

----------------------------------------------------------------------------
(***************************************************************************)
(* Arguments that are not tried, and arguments that are refused.            *)
(***************************************************************************)
LEMMA NotTried ==
  ASSUME Chosen \notin Arguments
  PROVE  RunSpec => []~ (args = Chosen)
<1>1. RunInit => ~ (args = Chosen)
  BY DEF RunInit
<1> QED
  BY <1>1, ManyRuns, PTL DEF RunSpec

\* With arguments that the runner refuses no program is started.
THEOREM RefusedStartsNothing ==
  ASSUME Chosen \in Arguments, ~ Accepted(Chosen)
  PROVE  RunSpec /\ args = Chosen => []Sandbox!Refused
<1> USE NamesFit
<1>1. Sandbox!Init => Sandbox!Refused
  BY Sandbox!RefusedAtFirst
<1>2. ASSUME Sandbox!Refused, args = Chosen, [RunNext]_runVars PROVE Sandbox!Refused'
  <2>1. [Sandbox!Next]_Sandbox!vars /\ ~ (pc = "check" /\ pc' = "launch")
    BY <1>2, RunStep
  <2> QED
    BY <1>2, <2>1, Sandbox!RefusedStays
<1>3. Sandbox!Spec => Sandbox!Init
  BY PTL DEF Sandbox!Spec
<1>4. Sandbox!Refused /\ args = Chosen /\ [RunNext]_runVars => Sandbox!Refused'
  BY <1>2
<1> HIDE NamesFit
<1> QED
  BY <1>1, <1>3, <1>4, ManyRuns, PTL DEF RunSpec

----------------------------------------------------------------------------
(***************************************************************************)
(* What the clients receive, and how they end.                              *)
(***************************************************************************)
\* A program fails only if a system call failed, or because the unicast ports include the
\* multicast port.
THEOREM FailureIsAlwaysOverlap == RunSpec => [](args = Chosen => FailureIsOverlap)
<1> DEFINE u == Unicast(Chosen)
           ports == ClientPorts(Chosen)
           m == Multicast(Chosen)
           shared_port == parsePort(Chosen.multicast_port)
           Overlap == \E i \in 1 .. Chosen.clients :
             client_ports(Chosen.base_port, Chosen.clients)[i] = Chosen.multicast_port
<1>1. CASE Chosen \in Arguments /\ Accepted(Chosen) /\ ~ Overlap
  <2>1. /\ Sandbox!RunnerAssumption /\ Sandbox!UdpAssumption
        /\ DOMAIN u = 1 .. Chosen.clients
    BY <1>1, NamesFit
  <2>2. Sandbox!ManyConfig(u, ports, m, shared_port)
    BY <1>1, ScriptsFit
  <2>3. Sandbox!OwnPorts(u, ports, shared_port)
    BY <1>1, <2>1, PortsAre DEF Sandbox!OwnPorts
  <2> HIDE DEF u, ports, m, shared_port
  <2>4. Sandbox!ScriptsOK /\ Sandbox!SharesPorts
    BY <2>1, <2>2, <2>3, Sandbox!ManyScriptsOK
  <2>5. Sandbox!Spec => []Sandbox!PortsDoNotClash
    BY <2>1, <2>4, Sandbox!PortsNeverClash
  <2>6. Sandbox!Spec => [](taken \subseteq {})
    BY <2>1, Sandbox!TakenStays
  <2>7. Sandbox!Spec => []Sandbox!RunnerInv
    BY <2>1, Sandbox!ImplementsRunner, Sandbox!RunnerInvariant, PTL
  <2>8. Sandbox!PortsDoNotClash /\ taken \subseteq {} /\ Sandbox!RunnerInv => FailureIsOverlap
    BY DEF Sandbox!PortsDoNotClash, Sandbox!RunnerInv, Sandbox!RunnerType, FailureIsOverlap
  <2> QED
    BY <2>5, <2>6, <2>7, <2>8, ManyRuns, PTL
<1>2. CASE Overlap
  <2>1. args = Chosen => FailureIsOverlap
    BY <1>2 DEF FailureIsOverlap
  <2> QED
    BY <2>1, PTL
<1>3. CASE Chosen \in Arguments /\ ~ Accepted(Chosen)
  <2>1. Sandbox!Refused => FailureIsOverlap
    BY DEF Sandbox!Refused, FailureIsOverlap
  <2>2. RunSpec /\ args = Chosen => []Sandbox!Refused
    BY <1>3, RefusedStartsNothing
  <2> QED
    BY <2>1, <2>2, ManyRuns, PTL
<1>4. CASE Chosen \notin Arguments
  <2>1. RunSpec => []~ (args = Chosen)
    BY <1>4, NotTried
  <2> QED
    BY <2>1, PTL
<1> QED
  BY <1>1, <1>2, <1>3, <1>4

\* A client that waits has not been sent a datagram, or has missed it, unless a unicast
\* client has the port of the group.
THEOREM SilenceAlwaysHasCause == RunSpec => [](args = Chosen => SilenceHasCause)
<1> DEFINE u == Unicast(Chosen)
           ports == ClientPorts(Chosen)
           m == Multicast(Chosen)
           shared_port == parsePort(Chosen.multicast_port)
<1>1. ASSUME MulticastPort \notin Range(ports) => Many(Chosen)!SilenceHasCause
      PROVE  args = Chosen => SilenceHasCause
  BY <1>1 DEF SilenceHasCause
<1>2. CASE Chosen \in Arguments /\ Accepted(Chosen) /\ MulticastPort \notin Range(ports)
  <2>1. /\ Sandbox!RunnerAssumption /\ Sandbox!UdpAssumption
        /\ DOMAIN u = 1 .. Chosen.clients
    BY <1>2, NamesFit
  <2>2. Sandbox!ManyConfig(u, ports, m, shared_port)
    BY <1>2, ScriptsFit
  <2>3. \A i \in DOMAIN u : ports[i] # MulticastPort
    BY <1>2, <2>1, PortsAre DEF Range
  <2> HIDE DEF u, ports, m, shared_port
  <2>4. Sandbox!ScriptsOK /\ Sandbox!JoinsGroups
    BY <2>1, <2>2, <2>3, Sandbox!ManyScriptsOK
  <2>5. Sandbox!Spec => []Sandbox!SilenceHasCause
    BY <2>1, <2>4, Sandbox!SilenceAlwaysHasCause
  <2>6. Sandbox!SilenceHasCause => Many(Chosen)!SilenceHasCause
    BY DEF Sandbox!SilenceHasCause, Many!SilenceHasCause, Sandbox!Programs, Many!Programs,
       Sandbox!At, Many!At, Sandbox!Running, Many!Running, Sandbox!Instr, Many!Instr,
       Sandbox!MeantFor, Many!MeantFor, Sandbox!AllPorts, Many!AllPorts
  <2>7. Sandbox!SilenceHasCause => (args = Chosen => SilenceHasCause)
    BY <1>1, <2>6
  <2> QED
    BY <2>5, <2>7, ManyRuns, PTL
<1>3. CASE MulticastPort \in Range(ports)
  <2>1. args = Chosen => SilenceHasCause
    BY <1>1, <1>3
  <2> QED
    BY <2>1, PTL
<1>4. CASE Chosen \in Arguments /\ ~ Accepted(Chosen)
  <2>1. Sandbox!Refused => Many(Chosen)!SilenceHasCause
    BY DEF Sandbox!Refused, Many!SilenceHasCause, Sandbox!Programs, Many!Programs, Many!At,
       Many!Running
  <2>2. RunSpec /\ args = Chosen => []Sandbox!Refused
    BY <1>4, RefusedStartsNothing
  <2>3. Sandbox!Refused => (args = Chosen => SilenceHasCause)
    BY <1>1, <2>1
  <2> QED
    BY <2>2, <2>3, ManyRuns, PTL
<1>5. CASE Chosen \notin Arguments
  <2>1. RunSpec => []~ (args = Chosen)
    BY <1>5, NotTried
  <2> QED
    BY <2>1, PTL
<1> QED
  BY <1>2, <1>3, <1>4, <1>5

\* What a client receives is the greeting for its port, once, from the host.
THEOREM GreetingIsAlwaysRight == RunSpec => [](args = Chosen => RightGreeting)
<1> DEFINE u == Unicast(Chosen)
           ports == ClientPorts(Chosen)
           m == Multicast(Chosen)
           shared_port == parsePort(Chosen.multicast_port)
           Greeted(p) ==
             /\ Len(got[p]) <= 1
             /\ \A d \in Range(got[p]) :
                  /\ d.from = Host
                  /\ d.msg = IF ScriptFor(Chosen)[p][1].to = MulticastPort
                             THEN GroupGreeting ELSE ScriptFor(Chosen)[p][1].to
<1>1. ASSUME \A p \in DOMAIN got \ {Host} : Greeted(p)
      PROVE  args = Chosen => RightGreeting
  BY <1>1 DEF RightGreeting
<1>2. CASE Chosen \in Arguments /\ Accepted(Chosen)
  <2>1. Sandbox!RunnerAssumption /\ Sandbox!UdpAssumption
    BY <1>2, NamesFit
  <2>2. Sandbox!ManyConfig(u, ports, m, shared_port)
    BY <1>2, ScriptsFit
  <2> HIDE DEF u, ports, m, shared_port
  <2>3. Sandbox!ScriptsOK
    BY <2>1, <2>2, Sandbox!ManyScriptsOK
  <2>4. Sandbox!Spec => []Sandbox!DataInv
    BY <2>1, <2>3, Sandbox!DataInvariant
  <2>5. Sandbox!Spec => []Sandbox!Greetings
    BY <2>1, <2>2, Sandbox!ManyGreets
  <2>6. Sandbox!DataInv /\ Sandbox!Greetings => \A p \in DOMAIN got \ {Host} : Greeted(p)
    BY DEF Sandbox!DataInv, Sandbox!Greetings, Sandbox!Greeted, Sandbox!PortOf, Host,
       Sandbox!Host, GroupGreeting, Sandbox!GroupGreeting, Range, Sandbox!Range
  <2>7. Sandbox!DataInv /\ Sandbox!Greetings => (args = Chosen => RightGreeting)
    BY <1>1, <2>6
  <2> QED
    BY <2>4, <2>5, <2>7, ManyRuns, PTL
<1>3. CASE Chosen \in Arguments /\ ~ Accepted(Chosen)
  <2>1. ASSUME Sandbox!Refused, NEW p \in DOMAIN got \ {Host} PROVE Greeted(p)
    <3>1. got[p] = <<>>
      BY <2>1 DEF Sandbox!Refused
    <3>2. Len(got[p]) = 0 /\ Range(got[p]) = {}
      BY <3>1 DEF Range
    <3> QED
      BY <3>2
  <2>2. RunSpec /\ args = Chosen => []Sandbox!Refused
    BY <1>3, RefusedStartsNothing
  <2>3. Sandbox!Refused => (args = Chosen => RightGreeting)
    BY <1>1, <2>1
  <2> QED
    BY <2>2, <2>3, ManyRuns, PTL
<1>4. CASE Chosen \notin Arguments
  <2>1. RunSpec => []~ (args = Chosen)
    BY <1>4, NotTried
  <2> QED
    BY <2>1, PTL
<1> QED
  BY <1>2, <1>3, <1>4

\* The runner answers 0 only for ports of the host; if there are several clients of each kind,
\* only for the multicast port of the host; and never if that is also a unicast port.
THEOREM SuccessAlwaysFitsTheHost == RunSpec => [](args = Chosen => SuccessFitsTheHost)
<1> DEFINE u == Unicast(Chosen)
           ports == ClientPorts(Chosen)
           m == Multicast(Chosen)
           shared_port == parsePort(Chosen.multicast_port)
<1>1. CASE Chosen \in Arguments /\ Accepted(Chosen)
  <2>1. /\ Sandbox!RunnerAssumption /\ Sandbox!UdpAssumption
        /\ DOMAIN u = 1 .. Chosen.clients /\ DOMAIN m = 1 .. Chosen.clients
        /\ IsInjective(m)
        /\ Host \notin Range(u) \cup Range(m) /\ Range(u) \cap Range(m) = {}
    BY <1>1, NamesFit
  <2>2. Sandbox!ManyConfig(u, ports, m, shared_port)
    BY <1>1, ScriptsFit
  <2>3. Chosen.clients \in Nat /\ DOMAIN ports = 1 .. Chosen.clients
    BY <1>1, PortsAre
  <2>4. ASSUME Sandbox!SuccessFits, args = Chosen PROVE SuccessFitsTheHost
    <3> SUFFICES ASSUME pc = "returned", answer = "zero", Chosen.clients > 0
                 PROVE  /\ Range(ports) \cup {shared_port} \subseteq HostPorts
                        /\ Chosen.clients > 1 => shared_port = MulticastPort
                        /\ Chosen.multicast_port \notin
                             Range(client_ports(Chosen.base_port, Chosen.clients))
      BY <2>4 DEF SuccessFitsTheHost
    <3> HIDE DEF u, ports, m, shared_port
    <3>1. /\ \A p \in Sandbox!Programs \ {Host} : Sandbox!PortOf(p) \in HostPorts
          /\ \A p, q \in Sandbox!Programs \ {Host} :
               p # q /\ Sandbox!PortOf(p) = Sandbox!PortOf(q) =>
                 Sandbox!PortOf(p) = MulticastPort /\ ScriptFor(Chosen)[p][1].share
      BY <2>4 DEF Sandbox!SuccessFits, HostPorts, Host, Sandbox!Host, Range, Sandbox!Range
    <3>2. ASSUME NEW c \in 1 .. Chosen.clients
          PROVE  /\ u[c] \in Sandbox!Programs \ {Host} /\ Sandbox!PortOf(u[c]) = ports[c]
                 /\ ~ ScriptFor(Chosen)[u[c]][1].share
      <4>1. Sandbox!BoundTo(u, ports)
        BY <2>1, <2>2, Sandbox!UnicastPort
      <4>2. u[c] # Host
        BY <2>1 DEF Range
      <4> QED
        BY <2>1, <4>1, <4>2 DEF Sandbox!BoundTo
    <3>3. ASSUME NEW c \in 1 .. Chosen.clients PROVE ports[c] \in HostPorts
      BY <3>1, <3>2
    <3>4. ASSUME NEW c \in 1 .. Chosen.clients PROVE m[c] \in Range(m) /\ m[c] # Host
      BY <2>1 DEF Range
    <3>5. ASSUME NEW c \in 1 .. Chosen.clients
          PROVE  m[c] \in Sandbox!Programs /\ Sandbox!PortOf(m[c]) = shared_port
      <4>1. m[c] \in Sandbox!Range(m)
        BY <3>4 DEF Range, Sandbox!Range
      <4> QED
        BY <2>1, <2>2, <4>1, Sandbox!MulticastIs DEF Sandbox!PortOf
    <3>6. ASSUME Chosen.clients > 1 PROVE shared_port = MulticastPort
      <4>1. 1 \in 1 .. Chosen.clients /\ 2 \in 1 .. Chosen.clients /\ 1 # 2
        BY <2>3, <3>6
      <4>2. m[1] # m[2]
        BY <2>1, <4>1 DEF IsInjective
      <4> QED
        BY <3>1, <3>4, <3>5, <4>1, <4>2
    <3>7. Range(ports) \subseteq HostPorts
      BY <2>3, <3>3 DEF Range
    <3>8. shared_port \in HostPorts
      <4>1. 1 \in 1 .. Chosen.clients
        BY <2>3
      <4> QED
        BY <3>1, <3>4, <3>5, <4>1
    <3>9. ASSUME NEW c \in 1 .. Chosen.clients,
                 client_ports(Chosen.base_port, Chosen.clients)[c] = Chosen.multicast_port
          PROVE  FALSE
      <4>1. ports[c] = shared_port
        BY <2>3, <3>9 DEF ClientPorts, ports, shared_port
      <4>2. u[c] # m[c]
        BY <2>1, <3>4 DEF Range
      <4> QED
        BY <3>1, <3>4, <3>5, <3>2, <4>1, <4>2
    <3> QED
      BY <3>6, <3>7, <3>8, <3>9 DEF Range, client_ports
  <2> HIDE DEF u, ports, m, shared_port
  <2>5. Sandbox!Spec => []Sandbox!SuccessFits
    BY <2>1, <2>2, Sandbox!ManySucceeds
  <2>6. Sandbox!SuccessFits => (args = Chosen => SuccessFitsTheHost)
    BY <2>4
  <2> QED
    BY <2>5, <2>6, ManyRuns, PTL
<1>2. CASE Chosen \in Arguments /\ ~ Accepted(Chosen)
  <2>1. Sandbox!Refused => SuccessFitsTheHost
    BY DEF Sandbox!Refused, SuccessFitsTheHost
  <2>2. RunSpec /\ args = Chosen => []Sandbox!Refused
    BY <1>2, RefusedStartsNothing
  <2> QED
    BY <2>1, <2>2, ManyRuns, PTL
<1>3. CASE Chosen \notin Arguments
  <2>1. RunSpec => []~ (args = Chosen)
    BY <1>3, NotTried
  <2> QED
    BY <2>1, PTL
<1> QED
  BY <1>1, <1>2, <1>3

----------------------------------------------------------------------------
(***************************************************************************)
(* How the runner stops its programs.                                       *)
(***************************************************************************)
\* No client and no host is killed that was not asked to stop before, however many clients
\* there are.
THEOREM TermFirstIsKept == RunSpec /\ args = Chosen => TermFirst
<1>1. CASE Chosen \in Arguments
  <2>1. Sandbox!RunnerAssumption /\ Sandbox!UdpAssumption
    BY <1>1, NamesFit
  <2>2. Sandbox!Spec => Sandbox!RunnerSpec /\ []Sandbox!RunnerInv
    BY <2>1, Sandbox!ImplementsRunner, Sandbox!RunnerInvariant, PTL
  <2>3. /\ Sandbox!RunnerInv
        /\ [\A p \in Sandbox!Programs :
              signal'[p] = "KILL" => signal[p] # "none"]_Sandbox!runnerVars
        => [\A p \in DOMAIN signal :
              signal'[p] = "KILL" => signal[p] # "none"]_runVars
    <3>1. CASE UNCHANGED Sandbox!runnerVars
      <4>1. Sandbox!RunnerInv => DOMAIN signal = Sandbox!Programs
        BY DEF Sandbox!RunnerInv, Sandbox!RunnerType
      <4>2. UNCHANGED signal
        BY <3>1 DEF Sandbox!runnerVars
      <4> QED
        BY <4>1, <4>2
    <3>2. CASE ~ UNCHANGED Sandbox!runnerVars
      BY <3>2 DEF Sandbox!RunnerInv, Sandbox!RunnerType
    <3> QED
      BY <3>1, <3>2
  <2>4. Sandbox!RunnerSpec => Sandbox!TermFirst
    BY <2>1, Sandbox!TermFirstAlways
  <2> QED
    BY <2>2, <2>3, <2>4, ManyRuns, PTL DEF Sandbox!TermFirst, TermFirst
<1>2. CASE Chosen \notin Arguments
  <2>1. RunSpec => []~ (args = Chosen)
    BY <1>2, NotTried
  <2> QED
    BY <2>1, PTL
<1> QED
  BY <1>1, <1>2
=============================================================================
