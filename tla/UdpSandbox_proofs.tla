-------------------------- MODULE UdpSandbox_proofs --------------------------
(***************************************************************************)
(* What is proved of a runner holds of the runner of any programs that       *)
(* exchange datagrams; programs whose scripts are like those of udp-ping     *)
(* and udp-many do not stand in each other's way, and wait in vain only for  *)
(* a datagram that was dropped or sent too early.  A run that ends with 0 is *)
(* complete; in udp-ping the answer follows the greeting, and in udp-many    *)
(* every client gets the greeting for its port.                             *)
(***************************************************************************)
EXTENDS UdpPing, UdpManyScripts, Runner_proofs, SequenceTheorems, FiniteSetTheorems

LEMMA NextOfRunner == Next => [RunnerNext]_runnerVars
<1> SUFFICES ASSUME Next PROVE [RunnerNext]_runnerVars
  OBVIOUS
<1>1. CASE RunnerMain \/ Interrupt
  BY <1>1 DEF RunnerNext
<1>2. ASSUME NEW p \in Programs, NEW code \in ExitCodes, Finish(p, code)
      PROVE  RunnerNext
  BY <1>2 DEF Finish, RunnerNext
<1>3. ASSUME NEW p \in Programs, Step(p) \/ Killed(p) \/ FaultSeen(p) \/ FaultUnseen(p)
      PROVE  [RunnerNext]_runnerVars
  <2>1. CASE BindFails(p)
    BY <1>2, <2>1 DEF BindFails, ExitCodes
  <2>2. CASE ExitZero(p)
    BY <1>2, <2>2 DEF ExitZero, ExitCodes
  <2>3. CASE Killed(p)
    BY <1>2, <2>3 DEF Killed, ExitCodes
  <2>4. CASE FaultSeen(p)
    BY <1>2, <2>4 DEF FaultSeen, ExitCodes
  <2>5. CASE UNCHANGED runnerVars
    BY <2>5
  <2> QED
    BY <1>3, <2>1, <2>2, <2>3, <2>4, <2>5 DEF Step, OpenSocket, BindPort, JoinGroup,
       SendDatagram, ReceiveDatagram, FaultUnseen
<1> QED
  BY <1>1, <1>3 DEF Next

\* Whatever is said of RunnerSpec holds of udp-ping and udp-many: their programs do to
\* the runner only what any program may do, which is to end.
THEOREM ImplementsRunner == Spec => RunnerSpec
<1>1. Init => RunnerInit
  BY DEF Init
<1>2. [Next]_vars => [RunnerNext]_runnerVars
  BY NextOfRunner DEF vars, runnerVars
<1> QED
  BY <1>1, <1>2, PTL DEF Spec, RunnerSpec

\* The runners of udp-ping and udp-many leave no program behind when they end by
\* themselves, for any number of clients.
THEOREM NoDatagramProgramLeftBehind == Spec => []LeftBehind
  BY ImplementsRunner, NobodyLeftBehind

----------------------------------------------------------------------------
(***************************************************************************)
(* What is asked of scripts.  A script ends with its only `exit'; programs   *)
(* name the ports of the sandbox; a program binds at most one port and        *)
(* receives at most once, after it has bound; and it answers only after it   *)
(* has received.                                                            *)
(*                                                                          *)
(* Not all scripts of udp-many SharesPorts and JoinsGroups: two programs bind *)
(* one port only if both share it; a program that waits at the port of a     *)
(* group has joined.                                                        *)
(***************************************************************************)
Is(p, i, op) == i \in DOMAIN Script[p] /\ Script[p][i].op = op

ScriptsEnd ==
  \A p \in Programs : \E n \in Nat :
    /\ n > 0 /\ DOMAIN Script[p] = 1 .. n /\ Is(p, n, "exit")
    /\ \A i \in 1 .. n : Is(p, i, "exit") => i = n

NamesPorts ==
  \A p \in Programs : \A i \in DOMAIN Script[p] :
    Is(p, i, "bind") \/ Is(p, i, "send") => Script[p][i].to \in Ports

SharesPorts ==
  \A p, q \in Programs : \A i \in DOMAIN Script[p], j \in DOMAIN Script[q] :
    Is(p, i, "bind") /\ Is(q, j, "bind") /\ p # q /\ Script[p][i].to = Script[q][j].to =>
      Script[p][i].share /\ Script[q][j].share

BindsThenReceives ==
  \A p \in Programs : \A i, k \in DOMAIN Script[p] :
    /\ Is(p, i, "bind") /\ Is(p, k, "bind") => i = k
    /\ Is(p, i, "receive") /\ Is(p, k, "receive") => i = k
    /\ Is(p, i, "bind") /\ Is(p, k, "receive") => i < k

JoinsGroups ==
  \A p \in Programs : \A i, k \in DOMAIN Script[p] :
    Is(p, i, "bind") /\ Is(p, k, "receive") /\ Script[p][i].to \in Groups =>
      \E j \in 1 .. k - 1 : Is(p, j, "join")

ReceivesThenReplies ==
  \A p \in Programs : \A i \in DOMAIN Script[p] :
    Is(p, i, "reply") => \E j \in 1 .. i - 1 : Is(p, j, "receive")

ScriptsOK ==
  ScriptsEnd /\ NamesPorts /\ BindsThenReceives /\ ReceivesThenReplies

(***************************************************************************)
(* Where programs are, and the names of their sockets.                      *)
(***************************************************************************)
Messages == UNION {{Script[p][i].msg : i \in DOMAIN Script[p]} : p \in Programs}
Datagrams == [from : AllPorts, msg : Messages]

SandboxType ==
  /\ at \in [Programs -> Nat] /\ \A p \in Programs : at[p] \in DOMAIN Script[p]
  /\ port \in [Programs -> AllPorts \cup {NoPort}]
  /\ shared \subseteq Programs /\ joined \subseteq Programs
  /\ queue \in [Programs -> Seq(Datagrams)]
  /\ got = [p \in Programs |-> got[p]]
  /\ faults \in Nat

\* A program that has not been started is at its first instruction.
NotStarted == \A p \in Programs : child[p] = "none" => at[p] = 1

\* A port that the kernel has not chosen is that of a bind in the script.
Named ==
  \A q \in Programs :
    \/ port[q] \in {NoPort, q}
    \/ \E j \in DOMAIN Script[q] :
         /\ Is(q, j, "bind") /\ port[q] = Script[q][j].to
         /\ Script[q][j].share => q \in shared

\* A program that runs has the port and the group that it has asked for.
Bound ==
  \A p \in Programs : Running(p) =>
    \A i \in 1 .. at[p] - 1 :
      /\ Is(p, i, "bind") => port[p] = Script[p][i].to
      /\ Is(p, i, "join") => p \in joined

\* Every datagram that was sent to a program is in its queue, or missed, or it has
\* received one.
HasReceived(p) == \E j \in 1 .. at[p] - 1 : Is(p, j, "receive")
Settled(p) == p \in missed \/ queue[p] # <<>> \/ HasReceived(p) \/ Ended(p)

Accounted ==
  \A p, q \in Programs : \A i \in 1 .. at[q] - 1 :
    Is(q, i, "send") /\ p \in MeantFor[Script[q][i].to] => Settled(p)

SandboxInv ==
  /\ SandboxType /\ NotStarted /\ Named /\ Bound
  /\ JoinsGroups => Accounted
  /\ SharesPorts => PortsDoNotClash

----------------------------------------------------------------------------
LEMMA PortFacts ==
  /\ Ports \cap Programs = {} /\ NoPort \notin Ports /\ NoPort \notin Programs
  /\ Groups \subseteq Ports
BY UdpAssumption DEF AllPorts

LEMMA AppendIsNotEmpty ==
  ASSUME NEW S, NEW s \in Seq(S), NEW e \in S
  PROVE  Append(s, e) # <<>>
<1>1. Len(Append(s, e)) = Len(s) + 1 /\ Len(s) \in Nat
  OBVIOUS
<1> QED
  BY <1>1

LEMMA SandboxInitOK ==
  ASSUME ScriptsEnd, Init
  PROVE  SandboxInv
<1> USE DEF Init, RunnerInit
<1>1. \A p \in Programs : 1 \in DOMAIN Script[p]
  BY DEF ScriptsEnd
<1>2. SandboxType
  BY <1>1 DEF SandboxType
<1>3. NotStarted /\ Named /\ Bound /\ PortsDoNotClash
  BY DEF NotStarted, Named, Bound, PortsDoNotClash, Running
<1>4. Accounted
  BY DEF Accounted
<1> QED
  BY <1>2, <1>3, <1>4 DEF SandboxInv

\* An instruction that is not the last has a next one.
LEMMA NextInstruction ==
  ASSUME ScriptsEnd, NEW p \in Programs, NEW i \in DOMAIN Script[p],
         Script[p][i].op # "exit"
  PROVE  i \in Nat /\ i + 1 \in DOMAIN Script[p]
BY DEF ScriptsEnd, Is

LEMMA AdvanceOK ==
  ASSUME ScriptsEnd, SandboxType, NEW p \in Programs, Instr(p).op # "exit", Advance(p)
  PROVE  /\ at' \in [Programs -> Nat]
         /\ \A q \in Programs : at'[q] \in DOMAIN Script[q]
         /\ at'[p] = at[p] + 1
         /\ \A q \in Programs : q # p => at'[q] = at[q]
<1>1. at[p] \in Nat /\ at[p] + 1 \in DOMAIN Script[p]
  BY NextInstruction DEF SandboxType, Instr
<1>2. at' = [at EXCEPT ![p] = at[p] + 1]
  BY DEF Advance
<1> QED
  BY <1>1, <1>2 DEF SandboxType

\* What was behind a program, or is its instruction, is behind it after a step.
LEMMA Behind ==
  ASSUME SandboxType, NEW p \in Programs, NEW q \in Programs, NEW i \in 1 .. at'[q] - 1,
         at'[p] = at[p] + 1, \A r \in Programs : r # p => at'[r] = at[r]
  PROVE  i \in 1 .. at[q] - 1 \/ (q = p /\ i = at[p])
BY DEF SandboxType

----------------------------------------------------------------------------
(***************************************************************************)
(* The steps of the runner: it starts programs, and ends none.              *)
(***************************************************************************)
LEMMA RunnerStarts ==
  ASSUME RunnerInv, RunnerMain \/ Interrupt, NEW p \in Programs
  PROVE  child'[p] = child[p] \/ (child[p] = "none" /\ child'[p] = "running")
<1>1. CASE Launch
  <2>1. /\ launched + 1 \in DOMAIN Order /\ launched + 1 > launched
        /\ child' = [child EXCEPT ![Order[launched + 1]] = "running"]
    BY <1>1, OrderFacts DEF Launch, RunnerInv, RunnerType
  <2>2. child[Order[launched + 1]] = "none"
    BY <2>1 DEF RunnerInv, Started
  <2> QED
    BY <2>1, <2>2 DEF RunnerInv, RunnerType
<1>2. CASE UNCHANGED child
  BY <1>2
<1> QED
  BY <1>1, <1>2 DEF RunnerMain, Check, Append1, LaunchFails, AllLaunched, SeeAllEnded,
     DeadlinePasses, Collect, StopNext, StopDone, EndSeen, GraceOver, KillNext, KillDone,
     Interrupt

LEMMA RunnerKeeps ==
  ASSUME SandboxInv, RunnerInv, RunnerMain \/ Interrupt, UNCHANGED udpVars
  PROVE  SandboxInv'
<1> USE RunnerStarts DEF udpVars, sockets, counters
<1>1. SandboxType' /\ Named'
  BY DEF SandboxInv, SandboxType, Named
<1>2. NotStarted'
  BY DEF SandboxInv, NotStarted
<1>3. Bound'
  <2> SUFFICES ASSUME NEW p \in Programs, Running(p)', NEW i \in 1 .. at[p] - 1
               PROVE  /\ Is(p, i, "bind") => port[p] = Script[p][i].to
                      /\ Is(p, i, "join") => p \in joined
    BY DEF Bound
  <2>1. CASE Running(p)
    BY <2>1 DEF SandboxInv, Bound
  <2>2. CASE child[p] = "none"
    BY <2>2 DEF SandboxInv, NotStarted
  <2> QED
    BY <2>1, <2>2 DEF Running
<1>4. (JoinsGroups => Accounted)'
  <2>1. ASSUME NEW p \in Programs, Settled(p) PROVE Settled(p)'
    BY <2>1 DEF Settled, HasReceived, Ended, ExitCodes
  <2> QED
    BY <2>1 DEF SandboxInv, Accounted
<1>5. (SharesPorts => PortsDoNotClash)'
  BY DEF SandboxInv, PortsDoNotClash
<1> QED
  BY <1>1, <1>2, <1>3, <1>4, <1>5 DEF SandboxInv

(***************************************************************************)
(* The end of a program.                                                    *)
(***************************************************************************)
LEMMA FinishKeeps ==
  ASSUME SandboxInv, RunnerInv, NEW p \in Programs, NEW code \in ExitCodes,
         Finish(p, code), missed \subseteq missed', taken' = taken,
         faults' \in Nat, faults' >= faults,
         SharesPorts /\ code = "failure" => faults' > 0 \/ taken # {}
  PROVE  SandboxInv'
<1>1. /\ child' = [child EXCEPT ![p] = code] /\ child = [q \in Programs |-> child[q]]
      /\ at' = at /\ got' = got
      /\ port' = [port EXCEPT ![p] = NoPort]
      /\ shared' = shared \ {p} /\ joined' = joined \ {p}
      /\ queue' = [queue EXCEPT ![p] = <<>>]
  BY DEF Finish, End, RunnerInv, RunnerType, ExitCodes
<1>2. SandboxType'
  BY <1>1 DEF SandboxInv, SandboxType
<1>3. NotStarted'
  BY <1>1 DEF SandboxInv, NotStarted, ExitCodes
<1>4. Named'
  BY <1>1 DEF SandboxInv, SandboxType, Named
<1>5. Bound'
  BY <1>1 DEF SandboxInv, SandboxType, Bound, Running, ExitCodes
<1>6. (JoinsGroups => Accounted)'
  <2>1. ASSUME NEW q \in Programs, Settled(q) PROVE Settled(q)'
    BY <1>1, <2>1 DEF SandboxInv, SandboxType, Settled, HasReceived, Ended
  <2> QED
    BY <1>1, <2>1 DEF SandboxInv, Accounted
<1>7. (SharesPorts => PortsDoNotClash)'
  BY <1>1 DEF SandboxInv, SandboxType, PortsDoNotClash
<1> QED
  BY <1>2, <1>3, <1>4, <1>5, <1>6, <1>7 DEF SandboxInv

----------------------------------------------------------------------------
(***************************************************************************)
(* Steps that go on to the next instruction.                                *)
(***************************************************************************)
LEMMA AdvanceKeeps ==
  ASSUME ScriptsOK, SandboxInv, RunnerInv, NEW p \in Programs, Running(p),
         Instr(p).op # "exit", Advance(p), UNCHANGED <<child, taken>>,
         missed \subseteq missed', faults' >= faults,
         SandboxType',
         \A q \in Programs : q # p => port'[q] = port[q],
         shared \subseteq shared', joined \subseteq joined',
         port'[p] = port[p] \/ (port[p] = NoPort /\ port'[p] = p)
           \/ (/\ Instr(p).op = "bind" /\ port'[p] = Instr(p).to
               /\ Instr(p).share => p \in shared'),
         Instr(p).op = "bind" => port'[p] = Instr(p).to,
         Instr(p).op = "join" => p \in joined',
         \A q \in Programs : \/ queue'[q] # <<>> \/ queue'[q] = queue[q]
                             \/ q = p /\ Instr(p).op = "receive",
         JoinsGroups /\ Instr(p).op = "send" => \A q \in MeantFor[Instr(p).to] : Settled(q)'
  PROVE  SandboxInv'
<1>1. /\ at'[p] = at[p] + 1
      /\ \A q \in Programs : q # p => at'[q] = at[q]
      /\ at[p] \in DOMAIN Script[p] /\ Instr(p) = Script[p][at[p]]
      /\ \A q \in Programs : at[q] \in Nat /\ at'[q] \in Nat
      /\ at[p] \in 1 .. at'[p] - 1
  BY AdvanceOK DEF ScriptsOK, ScriptsEnd, SandboxInv, SandboxType, Instr
<1>2. NotStarted'
  BY <1>1 DEF SandboxInv, NotStarted, Running
<1>3. Named'
  <2> SUFFICES ASSUME NEW q \in Programs
               PROVE  \/ port'[q] \in {NoPort, q}
                      \/ \E j \in DOMAIN Script[q] :
                           /\ Is(q, j, "bind") /\ port'[q] = Script[q][j].to
                           /\ Script[q][j].share => q \in shared'
    BY DEF Named
  <2>1. CASE port'[q] = port[q]
    BY <2>1 DEF SandboxInv, Named
  <2>2. CASE q = p /\ Instr(p).op = "bind" /\ port'[p] = Instr(p).to
             /\ (Instr(p).share => p \in shared')
    BY <1>1, <2>2 DEF Is
  <2> QED
    BY <2>1, <2>2
<1>4. Bound'
  <2> SUFFICES ASSUME NEW q \in Programs, Running(q), NEW i \in 1 .. at'[q] - 1
               PROVE  /\ Is(q, i, "bind") => port'[q] = Script[q][i].to
                      /\ Is(q, i, "join") => q \in joined'
    BY DEF Bound, Running
  <2>1. i \in 1 .. at[q] - 1 \/ (q = p /\ i = at[p])
    BY <1>1
  <2>2. CASE q = p /\ i = at[p]
    BY <1>1, <2>2 DEF Is
  <2>3. CASE i \in 1 .. at[q] - 1 /\ Is(q, i, "join")
    BY <2>3 DEF SandboxInv, Bound, Is
  <2>4. CASE i \in 1 .. at[q] - 1 /\ Is(q, i, "bind")
    <3>1. port[q] = Script[q][i].to /\ port[q] # NoPort
      BY <2>4, PortFacts DEF SandboxInv, Bound, ScriptsOK, NamesPorts, Is
    <3>2. q = p => Instr(p).op # "bind"
      BY <1>1, <2>4 DEF ScriptsOK, BindsThenReceives, Is
    <3> QED
      BY <2>4, <3>1, <3>2 DEF Is
  <2> QED
    BY <2>1, <2>2, <2>3, <2>4
<1>5. (JoinsGroups => Accounted)'
  <2>1. ASSUME NEW q \in Programs, Settled(q) PROVE Settled(q)'
    <3>0. HasReceived(q) => HasReceived(q)'
      BY <1>1 DEF HasReceived, Is
    <3>1. CASE q \in missed \/ Ended(q) \/ HasReceived(q)
      BY <3>0, <3>1 DEF Settled, Ended
    <3>2. CASE queue[q] # <<>> /\ queue'[q] # <<>>
      BY <3>2 DEF Settled
    <3>3. CASE q = p /\ Instr(p).op = "receive"
      BY <1>1, <3>3 DEF Settled, HasReceived, Is
    <3> QED
      BY <2>1, <3>1, <3>2, <3>3 DEF Settled
  <2>2. ASSUME NEW q \in Programs, NEW i \in 1 .. at'[q] - 1, Is(q, i, "send")
        PROVE  i \in 1 .. at[q] - 1 \/ (Instr(p).op = "send" /\ Instr(p) = Script[q][i])
    BY <1>1, <2>2 DEF Is
  <2> QED
    BY <2>1, <2>2 DEF SandboxInv, Accounted
<1>6. (SharesPorts => PortsDoNotClash)'
  BY DEF SandboxInv, SandboxType, PortsDoNotClash
<1> QED
  BY <1>2, <1>3, <1>4, <1>5, <1>6 DEF SandboxInv

\* A program that waits at a port is bound to it, and has joined its group.
LEMMA WaitsAndListens ==
  ASSUME ScriptsOK, JoinsGroups, SandboxInv, NEW to \in Ports, NEW q \in MeantFor[to],
         At(q, "receive")
  PROVE  Listens(q, to)
<1>1. /\ q \in Programs /\ q # to
      /\ \E i \in DOMAIN Script[q] : Script[q][i].op = "bind" /\ Script[q][i].to = to
  BY PortFacts DEF MeantFor, AllPorts
<1>2. PICK i \in DOMAIN Script[q] : Is(q, i, "bind") /\ Script[q][i].to = to
  BY <1>1 DEF Is
<1>3. at[q] \in DOMAIN Script[q] /\ Is(q, at[q], "receive") /\ Running(q)
  BY <1>1 DEF At, Instr, Is, SandboxInv, SandboxType
<1>4. /\ i < at[q]
      /\ to \in Groups => \E j \in 1 .. at[q] - 1 : Is(q, j, "join")
  BY <1>1, <1>2, <1>3 DEF ScriptsOK, BindsThenReceives, JoinsGroups
<1>5. i \in 1 .. at[q] - 1
  BY <1>1, <1>2, <1>4 DEF ScriptsOK, ScriptsEnd, SandboxInv, SandboxType
<1>6. port[q] = to /\ (to \in Groups => q \in joined)
  BY <1>1, <1>2, <1>3, <1>4, <1>5 DEF SandboxInv, Bound
<1> QED
  BY <1>6 DEF Listens

\* A datagram reaches those it is for, or is missed.
LEMMA DeliverSettles ==
  ASSUME SandboxInv, NEW p \in Programs, NEW to \in AllPorts, NEW msg,
         Deliver(p, to, msg), NEW q \in MeantFor[to], At(q, "receive") => Listens(q, to)
  PROVE  q \in missed' \/ queue'[q] # <<>>
<1>0. PICK receivers \in Receivers(to) : \E dropped \in SUBSET receivers :
        /\ queue' = [r \in Programs |->
             IF r \in receivers \ dropped
             THEN Append(queue[r], [from |-> port'[p], msg |-> msg]) ELSE queue[r]]
        /\ missed' = missed \cup dropped \cup {r \in MeantFor[to] \ receivers :
                                               Listens(r, to) \/ ~ At(r, "receive")}
  BY DEF Deliver
<1>1. PICK dropped \in SUBSET receivers :
        /\ queue' = [r \in Programs |->
             IF r \in receivers \ dropped
             THEN Append(queue[r], [from |-> port'[p], msg |-> msg]) ELSE queue[r]]
        /\ missed' = missed \cup dropped \cup {r \in MeantFor[to] \ receivers :
                                               Listens(r, to) \/ ~ At(r, "receive")}
  BY <1>0
<1>2. q \in Programs
  BY DEF MeantFor, AllPorts
<1>3. CASE q \in receivers \ dropped
  <2>1. queue'[q] = Append(queue[q], [from |-> port'[p], msg |-> msg])
    BY <1>1, <1>2, <1>3
  <2>2. queue[q] \in Seq(Datagrams)
    BY <1>2 DEF SandboxInv, SandboxType
  <2> QED
    BY <2>1, <2>2, AppendIsNotEmpty
<1>4. CASE q \in dropped
  BY <1>1, <1>4
<1>5. CASE q \notin receivers
  BY <1>1, <1>5
<1> QED
  BY <1>3, <1>4, <1>5

LEMMA SendKeeps ==
  ASSUME ScriptsOK, SandboxInv, RunnerInv, NEW p \in Programs, SendDatagram(p),
         taken' = taken
  PROVE  SandboxInv'
<1> DEFINE d == [from |-> port'[p], msg |-> Instr(p).msg]
<1>1. /\ Running(p) /\ Instr(p).op \in {"send", "reply"} /\ Advance(p)
      /\ port' = [port EXCEPT ![p] = IF port[p] = NoPort THEN p ELSE port[p]]
      /\ UNCHANGED <<child, faults, shared, joined, got>>
      /\ missed \subseteq missed'
  BY DEF SendDatagram, At, AutoBind, runnerVars, Deliver
<1>2. at[p] \in DOMAIN Script[p] /\ Instr(p) = Script[p][at[p]]
  BY DEF SandboxInv, SandboxType, Instr
<1>3. port' \in [Programs -> AllPorts \cup {NoPort}] /\ port'[p] \in AllPorts
  BY <1>1 DEF SandboxInv, SandboxType, AllPorts
<1>4. d \in Datagrams
  BY <1>2, <1>3 DEF Datagrams, Messages
<1>5. PICK S \in SUBSET Programs :
        queue' = [q \in Programs |-> IF q \in S THEN Append(queue[q], d) ELSE queue[q]]
  <2>0. PICK receivers \in Receivers(Target(p)) : \E dropped \in SUBSET receivers :
          queue' = [q \in Programs |->
             IF q \in receivers \ dropped THEN Append(queue[q], d) ELSE queue[q]]
    BY DEF SendDatagram, Deliver
  <2>1. PICK dropped \in SUBSET receivers :
          queue' = [q \in Programs |->
             IF q \in receivers \ dropped THEN Append(queue[q], d) ELSE queue[q]]
    BY <2>0
  <2>2. queue' = [q \in Programs |->
           IF q \in Programs \cap (receivers \ dropped) THEN Append(queue[q], d) ELSE queue[q]]
    BY <2>1
  <2> QED
    BY <2>2
<1>6. \A q \in Programs :
        queue[q] \in Seq(Datagrams) /\ Append(queue[q], d) \in Seq(Datagrams)
        /\ Append(queue[q], d) # <<>>
  BY <1>4, AppendIsNotEmpty DEF SandboxInv, SandboxType
<1>7. queue' \in [Programs -> Seq(Datagrams)]
  BY <1>5, <1>6
<1>8. SandboxType'
  BY <1>1, <1>3, <1>7, AdvanceOK DEF ScriptsOK, SandboxInv, SandboxType
<1>9. \A q \in Programs : queue'[q] # <<>> \/ queue'[q] = queue[q]
  BY <1>5, <1>6
<1>10. ASSUME JoinsGroups, Instr(p).op = "send", NEW q \in MeantFor[Instr(p).to]
       PROVE  Settled(q)'
  <2>1. Instr(p).to \in Ports /\ Target(p) = Instr(p).to
    BY <1>2, <1>10 DEF Target, At, ScriptsOK, NamesPorts, Is
  <2>2. Deliver(p, Instr(p).to, Instr(p).msg)
    BY <2>1 DEF SendDatagram
  <2>3. Instr(p).to \in AllPorts /\ (At(q, "receive") => Listens(q, Instr(p).to))
    BY <1>10, <2>1, WaitsAndListens DEF AllPorts
  <2> QED
    BY <1>10, <2>2, <2>3, DeliverSettles DEF Settled
<1>11. \A q \in Programs : q # p => port'[q] = port[q]
  BY <1>1 DEF SandboxInv, SandboxType
<1>12. /\ port'[p] = port[p] \/ (port[p] = NoPort /\ port'[p] = p)
       /\ faults' >= faults
  BY <1>1 DEF SandboxInv, SandboxType
<1> QED
  BY <1>1, <1>8, <1>9, <1>10, <1>11, <1>12, AdvanceKeeps

----------------------------------------------------------------------------
(***************************************************************************)
(* The other steps of programs.                                             *)
(***************************************************************************)
LEMMA BindKeeps ==
  ASSUME ScriptsOK, SandboxInv, RunnerInv, NEW p \in Programs, BindPort(p), taken' = taken
  PROVE  SandboxInv'
<1>1. /\ Running(p) /\ Instr(p).op = "bind" /\ Advance(p)
      /\ port' = [port EXCEPT ![p] = Instr(p).to]
      /\ shared' = IF Instr(p).share THEN shared \cup {p} ELSE shared
      /\ UNCHANGED <<child, joined, queue, got, missed, faults>>
  BY DEF BindPort, At, runnerVars, counters
<1>2. Instr(p).to \in Ports
  BY <1>1 DEF ScriptsOK, NamesPorts, Is, SandboxInv, SandboxType, Instr
<1>3. SandboxType'
  BY <1>1, <1>2, AdvanceOK DEF ScriptsOK, SandboxInv, SandboxType, AllPorts
<1>4. faults' >= faults /\ port'[p] = Instr(p).to /\ \A q \in Programs : q # p => port'[q] = port[q]
  BY <1>1 DEF SandboxInv, SandboxType
<1> QED
  BY <1>1, <1>3, <1>4, AdvanceKeeps

LEMMA SocketKeeps ==
  ASSUME ScriptsOK, SandboxInv, RunnerInv, NEW p \in Programs,
         OpenSocket(p) \/ JoinGroup(p), taken' = taken
  PROVE  SandboxInv'
<1>1. /\ Running(p) /\ Instr(p).op \in {"open", "join"} /\ Advance(p)
      /\ joined \subseteq joined' /\ joined' \subseteq joined \cup {p}
      /\ Instr(p).op = "join" => p \in joined'
      /\ UNCHANGED <<child, port, shared, queue, got, missed, faults>>
  BY DEF OpenSocket, JoinGroup, At, runnerVars, counters, sockets
<1>2. SandboxType'
  BY <1>1, AdvanceOK DEF ScriptsOK, SandboxInv, SandboxType
<1>3. faults' >= faults
  BY <1>1 DEF SandboxInv, SandboxType
<1> QED
  BY <1>1, <1>2, <1>3, AdvanceKeeps

LEMMA ReceiveKeeps ==
  ASSUME ScriptsOK, SandboxInv, RunnerInv, NEW p \in Programs, ReceiveDatagram(p),
         taken' = taken
  PROVE  SandboxInv'
<1>1. /\ Running(p) /\ Instr(p).op = "receive" /\ Advance(p) /\ queue[p] # <<>>
      /\ queue' = [queue EXCEPT ![p] = Tail(queue[p])]
      /\ got' = [got EXCEPT ![p] = Append(got[p], Head(queue[p]))]
      /\ UNCHANGED <<child, port, shared, joined, missed, faults>>
  BY DEF ReceiveDatagram, At, runnerVars, counters
<1>2. queue[p] \in Seq(Datagrams) /\ Tail(queue[p]) \in Seq(Datagrams)
  BY <1>1 DEF SandboxInv, SandboxType
<1>3. SandboxType'
  BY <1>1, <1>2, AdvanceOK DEF ScriptsOK, SandboxInv, SandboxType
<1>4. faults' >= faults /\ \A q \in Programs : q # p => queue'[q] = queue[q]
  BY <1>1 DEF SandboxInv, SandboxType
<1> QED
  BY <1>1, <1>3, <1>4, AdvanceKeeps

LEMMA UnseenKeeps ==
  ASSUME ScriptsOK, SandboxInv, RunnerInv, NEW p \in Programs, FaultUnseen(p),
         taken' = taken
  PROVE  SandboxInv'
<1>1. /\ Running(p) /\ Instr(p).op \in {"send", "reply"} /\ Advance(p)
      /\ faults < MaxFaults /\ faults' = faults + 1
      /\ missed' = missed \cup MeantFor[Target(p)]
      /\ UNCHANGED <<child, port, shared, joined, queue, got>>
  BY DEF FaultUnseen, At, runnerVars, sockets
<1>2. faults \in Nat /\ faults' \in Nat /\ faults' >= faults
  BY <1>1 DEF SandboxInv, SandboxType
<1>3. SandboxType'
  BY <1>1, <1>2, AdvanceOK DEF ScriptsOK, SandboxInv, SandboxType
<1>4. ASSUME Instr(p).op = "send" PROVE \A q \in MeantFor[Instr(p).to] : Settled(q)'
  <2>1. Target(p) = Instr(p).to
    BY <1>4 DEF Target, At
  <2> QED
    BY <1>1, <2>1 DEF Settled
<1> QED
  BY <1>1, <1>2, <1>3, <1>4, AdvanceKeeps

\* A bind that fails finds the port held by somebody else: no two programs clash.
LEMMA BindFailsKeeps ==
  ASSUME ScriptsOK, SandboxInv, RunnerInv, NEW p \in Programs, BindFails(p), taken' = taken
  PROVE  SandboxInv'
<1>1. /\ Running(p) /\ Is(p, at[p], "bind") /\ PortTaken(p) /\ Finish(p, "failure")
      /\ UNCHANGED <<missed, faults>>
  BY DEF BindFails, At, Is, Instr, SandboxInv, SandboxType, counters
<1>2. Instr(p).to \in Ports
  BY <1>1 DEF ScriptsOK, NamesPorts, Is, Instr
<1>3. ASSUME SharesPorts, NEW q \in Programs \ {p}, port[q] = Instr(p).to
      PROVE  q \in shared /\ Instr(p).share
  <2>1. PICK j \in DOMAIN Script[q] :
          /\ Is(q, j, "bind") /\ port[q] = Script[q][j].to
          /\ Script[q][j].share => q \in shared
    BY <1>2, <1>3, PortFacts DEF SandboxInv, Named
  <2> QED
    BY <1>1, <1>3, <2>1 DEF SharesPorts, Is, Instr
<1>4. SharesPorts => taken # {}
  BY <1>1, <1>2, <1>3, PortFacts DEF PortTaken
<1> QED
  BY <1>1, <1>4, FinishKeeps DEF SandboxInv, SandboxType, ExitCodes

LEMMA ExitKeeps ==
  ASSUME ScriptsOK, SandboxInv, RunnerInv, NEW p \in Programs, ExitZero(p), taken' = taken
  PROVE  SandboxInv'
BY FinishKeeps DEF ExitZero, counters, ExitCodes, SandboxInv, SandboxType

LEMMA KilledKeeps ==
  ASSUME ScriptsOK, SandboxInv, RunnerInv, NEW p \in Programs, Killed(p), taken' = taken
  PROVE  SandboxInv'
BY FinishKeeps DEF Killed, counters, ExitCodes, SandboxInv, SandboxType

LEMMA FaultKeeps ==
  ASSUME ScriptsOK, SandboxInv, RunnerInv, NEW p \in Programs, FaultSeen(p), taken' = taken
  PROVE  SandboxInv'
<1>1. faults \in Nat
  BY DEF SandboxInv, SandboxType
<1>2. Finish(p, "failure") /\ faults' = faults + 1 /\ missed' = missed
  BY DEF FaultSeen
<1> QED
  BY <1>1, <1>2, FinishKeeps DEF ExitCodes

LEMMA SandboxStep ==
  ASSUME ScriptsOK, SandboxInv, RunnerInv, [Next]_vars
  PROVE  SandboxInv'
<1>1. CASE (RunnerMain \/ Interrupt) /\ UNCHANGED udpVars
  BY <1>1, RunnerKeeps
<1>2. ASSUME NEW p \in Programs, taken' = taken,
             Step(p) \/ Killed(p) \/ FaultSeen(p) \/ FaultUnseen(p)
      PROVE  SandboxInv'
  <2>1. CASE OpenSocket(p) \/ JoinGroup(p)
    BY <1>2, <2>1, SocketKeeps
  <2>2. CASE BindPort(p)
    BY <1>2, <2>2, BindKeeps
  <2>3. CASE BindFails(p)
    BY <1>2, <2>3, BindFailsKeeps
  <2>4. CASE SendDatagram(p)
    BY <1>2, <2>4, SendKeeps
  <2>5. CASE ReceiveDatagram(p)
    BY <1>2, <2>5, ReceiveKeeps
  <2>6. CASE FaultUnseen(p)
    BY <1>2, <2>6, UnseenKeeps
  <2>7. CASE ExitZero(p)
    BY <1>2, <2>7, ExitKeeps
  <2>8. CASE Killed(p)
    BY <1>2, <2>8, KilledKeeps
  <2>9. CASE FaultSeen(p)
    BY <1>2, <2>9, FaultKeeps
  <2> QED
    BY <1>2, <2>1, <2>2, <2>3, <2>4, <2>5, <2>6, <2>7, <2>8, <2>9 DEF Step
<1>3. CASE UNCHANGED vars
  <2> USE <1>3 DEF vars, runnerVars, udpVars, sockets, counters
  <2>1. SandboxType' /\ NotStarted' /\ Named' /\ (SharesPorts => PortsDoNotClash)'
    BY DEF SandboxInv, SandboxType, NotStarted, Named, PortsDoNotClash
  <2>2. Bound'
    BY DEF SandboxInv, Bound, Running
  <2>3. (JoinsGroups => Accounted)'
    BY DEF SandboxInv, Accounted, Settled, HasReceived, Ended
  <2> QED
    BY <2>1, <2>2, <2>3 DEF SandboxInv
<1> QED
  BY <1>1, <1>2, <1>3 DEF Next

----------------------------------------------------------------------------
\* In every state the sockets have the ports that the scripts name, and each datagram sent
\* is accounted for.
THEOREM SandboxInvariant == ASSUME ScriptsOK PROVE Spec => []SandboxInv
<1>1. Init => SandboxInv
  BY SandboxInitOK DEF ScriptsOK
<1>2. SandboxInv /\ RunnerInv /\ [Next]_vars => SandboxInv'
  BY SandboxStep
<1> QED
  BY <1>1, <1>2, ImplementsRunner, RunnerInvariant, PTL DEF Spec

\* No two programs of a sandbox stand in each other's way: one fails only if a system
\* call failed or somebody else holds its port.
THEOREM PortsNeverClash == ASSUME ScriptsOK, SharesPorts PROVE Spec => []PortsDoNotClash
<1>1. SandboxInv => PortsDoNotClash
  BY DEF SandboxInv
<1> QED
  BY <1>1, SandboxInvariant, PTL

\* A program waits in vain only after a datagram for it was dropped, or sent before the
\* program waited: none is lost in another way, whatever the number of clients.
THEOREM SilenceAlwaysHasCause == ASSUME ScriptsOK, JoinsGroups PROVE Spec => []SilenceHasCause
<1>1. ASSUME ScriptsOK, JoinsGroups, SandboxInv PROVE SilenceHasCause
  <2> SUFFICES ASSUME NEW p \in Programs, At(p, "receive"), queue[p] = <<>>, p \notin missed,
                      NEW q \in Programs, NEW i \in 1 .. at[q] - 1,
                      Script[q][i].op = "send", p \in MeantFor[Script[q][i].to]
               PROVE  FALSE
    BY DEF SilenceHasCause
  <2>1. Is(q, i, "send")
    BY <1>1 DEF ScriptsOK, ScriptsEnd, SandboxInv, SandboxType, Is
  <2>2. HasReceived(p) \/ Ended(p)
    BY <1>1, <2>1 DEF SandboxInv, Accounted, Settled
  <2>3. ~ Ended(p) /\ Is(p, at[p], "receive") /\ at[p] \in Nat
    BY <1>1 DEF At, Running, Ended, ExitCodes, Is, Instr, SandboxInv, SandboxType
  <2>4. PICK j \in 1 .. at[p] - 1 : Is(p, j, "receive")
    BY <2>2, <2>3 DEF HasReceived
  <2>5. j = at[p]
    BY <1>1, <2>3, <2>4 DEF ScriptsOK, BindsThenReceives, Is
  <2> QED
    BY <2>3, <2>4, <2>5
<1> QED
  BY <1>1, SandboxInvariant, PTL

----------------------------------------------------------------------------
(***************************************************************************)
(* What programs receive.  A program has received one datagram for each      *)
(* receive behind it, an answer goes to a port that there is, and a program  *)
(* that ends with 0 has come to the end of its script.                      *)
(***************************************************************************)
Counted == \A p \in Programs : Len(got[p]) = IF HasReceived(p) THEN 1 ELSE 0

AtTheEnd == \A p \in Programs : child[p] = "zero" => Is(p, at[p], "exit")

DataInv ==
  /\ got \in [Programs -> Seq(Datagrams)]
  /\ missed \subseteq Programs
  /\ faults \in 0 .. MaxFaults /\ drops \in 0 .. MaxDrops
  /\ Counted /\ AtTheEnd

LEMMA ProgramsAreFinite == IsFiniteSet(Programs)
<1>1. Order \in [1 .. Len(Order) -> Programs] /\ Len(Order) \in Nat
  BY OrderFacts, RunnerAssumption
<1>2. Order \in Surjection(1 .. Len(Order), Programs)
  BY <1>1, OrderFacts DEF Surjection
<1>3. IsFiniteSet(1 .. Len(Order))
  BY <1>1, FS_Interval
<1> QED
  BY <1>2, <1>3, FS_Surjection

LEMMA DataInitOK ==
  ASSUME Init
  PROVE  DataInv
<1> USE UdpAssumption DEF Init, RunnerInit
<1>1. got \in [Programs -> Seq(Datagrams)] /\ \A p \in Programs : Len(got[p]) = 0
  OBVIOUS
<1>2. \A p \in Programs : ~ HasReceived(p)
  BY DEF HasReceived
<1>3. Counted /\ AtTheEnd
  BY <1>1, <1>2 DEF Counted, AtTheEnd
<1> QED
  BY <1>1, <1>3 DEF DataInv

\* An answer goes to the sender of what was received.
LEMMA AnswersSomebody ==
  ASSUME ScriptsOK, SandboxInv, DataInv, NEW p \in Programs, At(p, "reply")
  PROVE  /\ Len(got[p]) = 1 /\ got[p][1] \in Datagrams
         /\ Target(p) = got[p][1].from
<1>1. at[p] \in DOMAIN Script[p] /\ Is(p, at[p], "reply")
  BY DEF At, Is, Instr, SandboxInv, SandboxType
<1>2. HasReceived(p)
  BY <1>1 DEF ScriptsOK, ReceivesThenReplies, HasReceived
<1>3. Len(got[p]) = 1 /\ got[p] \in Seq(Datagrams)
  BY <1>2 DEF DataInv, Counted
<1> QED
  BY <1>3 DEF Target

LEMMA TargetIsAPort ==
  ASSUME ScriptsOK, SandboxInv, DataInv, NEW p \in Programs, At(p, "send") \/ At(p, "reply")
  PROVE  Target(p) \in AllPorts
<1>1. CASE At(p, "reply")
  BY <1>1, AnswersSomebody DEF Datagrams
<1>2. CASE At(p, "send") /\ ~ At(p, "reply")
  <2>1. Is(p, at[p], "send") /\ at[p] \in DOMAIN Script[p]
    BY <1>2 DEF At, Is, Instr, SandboxInv, SandboxType
  <2>2. Script[p][at[p]].to \in Ports
    BY <2>1 DEF ScriptsOK, NamesPorts
  <2> QED
    BY <1>2, <2>2 DEF Target, Instr, AllPorts
<1> QED
  BY <1>1, <1>2

LEMMA DeliverTypes ==
  ASSUME DataInv, NEW p \in Programs, NEW to \in AllPorts, NEW msg, Deliver(p, to, msg)
  PROVE  missed' \subseteq Programs /\ drops' \in 0 .. MaxDrops
<1>1. PICK receivers \in Receivers(to) : \E dropped \in SUBSET receivers :
        /\ drops' = drops + Cardinality(dropped) /\ drops' <= MaxDrops
        /\ missed' = missed \cup dropped \cup {q \in MeantFor[to] \ receivers :
                                               Listens(q, to) \/ ~ At(q, "receive")}
  BY DEF Deliver
<1>2. PICK dropped \in SUBSET receivers :
        /\ drops' = drops + Cardinality(dropped) /\ drops' <= MaxDrops
        /\ missed' = missed \cup dropped \cup {q \in MeantFor[to] \ receivers :
                                               Listens(q, to) \/ ~ At(q, "receive")}
  BY <1>1
<1>3. receivers \subseteq Programs
  BY DEF Receivers
<1>4. MeantFor[to] \subseteq Programs
  BY DEF MeantFor
<1>5. IsFiniteSet(dropped)
  BY <1>2, <1>3, ProgramsAreFinite, FS_Subset
<1>6. Cardinality(dropped) \in Nat
  BY <1>5, FS_CardinalityType
<1>7. drops' \in 0 .. MaxDrops
  BY <1>2, <1>6, UdpAssumption DEF DataInv
<1> QED
  BY <1>2, <1>3, <1>4, <1>7 DEF DataInv

\* Whoever comes to a receive has received nothing before.
LEMMA FirstReceive ==
  ASSUME ScriptsOK, SandboxInv, NEW p \in Programs, At(p, "receive")
  PROVE  ~ HasReceived(p)
<1>1. Is(p, at[p], "receive") /\ at[p] \in Nat
  BY DEF At, Is, Instr, SandboxInv, SandboxType
<1> SUFFICES ASSUME NEW j \in 1 .. at[p] - 1, Is(p, j, "receive") PROVE FALSE
  BY DEF HasReceived
<1>2. j = at[p]
  BY <1>1 DEF ScriptsOK, BindsThenReceives, Is
<1> QED
  BY <1>1, <1>2

LEMMA AdvanceCounts ==
  ASSUME ScriptsOK, SandboxInv, NEW p \in Programs, Instr(p).op # "exit", Advance(p)
  PROVE  \A q \in Programs :
           HasReceived(q)' <=> HasReceived(q) \/ (q = p /\ Instr(p).op = "receive")
<1>1. /\ at'[p] = at[p] + 1
      /\ \A q \in Programs : q # p => at'[q] = at[q]
      /\ at[p] \in DOMAIN Script[p] /\ Instr(p) = Script[p][at[p]]
      /\ \A q \in Programs : at[q] \in Nat /\ at'[q] \in Nat
      /\ at[p] \in 1 .. at'[p] - 1
  BY AdvanceOK DEF ScriptsOK, ScriptsEnd, SandboxInv, SandboxType, Instr
<1>2. ASSUME NEW q \in Programs, q # p PROVE HasReceived(q)' <=> HasReceived(q)
  BY <1>1, <1>2 DEF HasReceived, Is
<1>3. ASSUME HasReceived(p) PROVE HasReceived(p)'
  BY <1>1, <1>3 DEF HasReceived, Is
<1>4. ASSUME Instr(p).op = "receive" PROVE HasReceived(p)'
  BY <1>1, <1>4 DEF HasReceived, Is
<1>5. ASSUME HasReceived(p)' PROVE HasReceived(p) \/ Instr(p).op = "receive"
  <2>1. PICK j \in 1 .. at'[p] - 1 : Is(p, j, "receive")
    BY <1>5 DEF HasReceived, Is
  <2>2. j \in 1 .. at[p] - 1 \/ j = at[p]
    BY <1>1
  <2> QED
    BY <1>1, <2>1, <2>2 DEF HasReceived, Is
<1> QED
  BY <1>2, <1>3, <1>4, <1>5

\* Steps that receive nothing.
LEMMA QuietKeepsData ==
  ASSUME ScriptsOK, SandboxInv, DataInv, NEW p \in Programs, Running(p),
         Instr(p).op \notin {"exit", "receive"}, Advance(p), UNCHANGED <<child, got>>,
         missed' \subseteq Programs, faults' \in 0 .. MaxFaults, drops' \in 0 .. MaxDrops
  PROVE  DataInv'
<1>1. \A q \in Programs : HasReceived(q)' <=> HasReceived(q)
  BY AdvanceCounts
<1>2. Counted'
  BY <1>1 DEF DataInv, Counted
<1>3. AtTheEnd'
  BY AdvanceOK DEF DataInv, AtTheEnd, Running, Is, ScriptsOK, SandboxInv
<1> QED
  BY <1>2, <1>3 DEF DataInv

\* A program comes to its end.
LEMMA FinishKeepsData ==
  ASSUME SandboxInv, RunnerInv, DataInv, NEW p \in Programs, NEW code \in ExitCodes,
         Finish(p, code), missed' = missed, faults' \in 0 .. MaxFaults, drops' = drops,
         code = "zero" => At(p, "exit")
  PROVE  DataInv'
<1>1. /\ child' = [child EXCEPT ![p] = code] /\ child = [q \in Programs |-> child[q]]
      /\ at' = at /\ got' = got
  BY DEF Finish, End, RunnerInv, RunnerType
<1>2. Counted'
  BY <1>1 DEF DataInv, Counted, HasReceived, Is
<1>3. AtTheEnd'
  BY <1>1 DEF DataInv, AtTheEnd, At, Is, Instr, SandboxInv, SandboxType
<1> QED
  BY <1>1, <1>2, <1>3 DEF DataInv

LEMMA ReceiveKeepsData ==
  ASSUME ScriptsOK, SandboxInv, DataInv, NEW p \in Programs, ReceiveDatagram(p)
  PROVE  DataInv'
<1>1. /\ Running(p) /\ Instr(p).op = "receive" /\ Advance(p) /\ queue[p] # <<>>
      /\ got' = [got EXCEPT ![p] = Append(got[p], Head(queue[p]))]
      /\ UNCHANGED <<child, missed, faults, drops>>
  BY DEF ReceiveDatagram, At, runnerVars, counters
<1>2. queue[p] \in Seq(Datagrams) /\ got[p] \in Seq(Datagrams) /\ Head(queue[p]) \in Datagrams
  BY <1>1 DEF SandboxInv, SandboxType, DataInv
<1>3. ~ HasReceived(p)
  BY FirstReceive DEF ReceiveDatagram
<1>4. Len(got[p]) = 0
  BY <1>3 DEF DataInv, Counted
<1>5. /\ Append(got[p], Head(queue[p])) \in Seq(Datagrams)
      /\ Len(Append(got[p], Head(queue[p]))) = 1
  BY <1>2, <1>4
<1>6. /\ got' \in [Programs -> Seq(Datagrams)] /\ Len(got'[p]) = 1
      /\ \A q \in Programs : q # p => got'[q] = got[q]
  BY <1>1, <1>5 DEF DataInv
<1>7. Counted'
  BY <1>1, <1>6, AdvanceCounts DEF DataInv, Counted
<1>8. AtTheEnd'
  BY <1>1, AdvanceOK DEF DataInv, AtTheEnd, Running, Is, ScriptsOK, SandboxInv
<1> QED
  BY <1>1, <1>6, <1>7, <1>8 DEF DataInv

LEMMA SendKeepsData ==
  ASSUME ScriptsOK, SandboxInv, DataInv, NEW p \in Programs,
         SendDatagram(p) \/ FaultUnseen(p)
  PROVE  DataInv'
<1>1. /\ Running(p) /\ Instr(p).op \in {"send", "reply"} /\ Advance(p)
      /\ At(p, "send") \/ At(p, "reply")
      /\ UNCHANGED <<child, got>>
  BY DEF SendDatagram, FaultUnseen, At, runnerVars
<1>2. Target(p) \in AllPorts
  BY <1>1, TargetIsAPort
<1>3. CASE SendDatagram(p)
  <2>1. missed' \subseteq Programs /\ drops' \in 0 .. MaxDrops
    BY <1>2, <1>3, DeliverTypes DEF SendDatagram
  <2> QED
    BY <1>1, <1>3, <2>1, QuietKeepsData DEF SendDatagram, DataInv
<1>4. CASE FaultUnseen(p)
  <2>1. MeantFor[Target(p)] \subseteq Programs
    BY <1>2 DEF MeantFor
  <2>2. missed' \subseteq Programs
    BY <1>4, <2>1 DEF FaultUnseen, DataInv
  <2>3. faults' \in 0 .. MaxFaults
    BY <1>4, UdpAssumption DEF FaultUnseen, DataInv
  <2> QED
    BY <1>1, <1>4, <2>2, <2>3, QuietKeepsData DEF FaultUnseen, DataInv
<1> QED
  BY <1>3, <1>4

LEMMA RunnerKeepsData ==
  ASSUME SandboxInv, RunnerInv, DataInv, RunnerMain \/ Interrupt, UNCHANGED udpVars
  PROVE  DataInv'
<1>1. UNCHANGED <<at, got, missed, faults, drops>>
  BY DEF udpVars, counters
<1>2. Counted'
  BY <1>1 DEF DataInv, Counted, HasReceived, Is
<1>3. AtTheEnd'
  BY <1>1, RunnerStarts DEF DataInv, AtTheEnd, Is
<1> QED
  BY <1>1, <1>2, <1>3 DEF DataInv

LEMMA DataStep ==
  ASSUME ScriptsOK, SandboxInv, RunnerInv, DataInv, [Next]_vars
  PROVE  DataInv'
<1>1. CASE (RunnerMain \/ Interrupt) /\ UNCHANGED udpVars
  BY <1>1, RunnerKeepsData
<1>2. ASSUME NEW p \in Programs, Step(p) \/ Killed(p) \/ FaultSeen(p) \/ FaultUnseen(p)
      PROVE  DataInv'
  <2>1. CASE OpenSocket(p) \/ JoinGroup(p) \/ BindPort(p)
    BY <2>1, QuietKeepsData DEF OpenSocket, JoinGroup, BindPort, At, runnerVars, counters,
       DataInv
  <2>2. CASE SendDatagram(p) \/ FaultUnseen(p)
    BY <2>2, SendKeepsData
  <2>3. CASE ReceiveDatagram(p)
    BY <2>3, ReceiveKeepsData
  <2>4. CASE BindFails(p) \/ Killed(p) \/ ExitZero(p)
    BY <2>4, FinishKeepsData DEF BindFails, Killed, ExitZero, ExitCodes, counters, DataInv
  <2>5. CASE FaultSeen(p)
    <3>1. faults' \in 0 .. MaxFaults
      BY <2>5, UdpAssumption DEF FaultSeen, DataInv
    <3> QED
      BY <2>5, <3>1, FinishKeepsData DEF FaultSeen, ExitCodes
  <2> QED
    BY <1>2, <2>1, <2>2, <2>3, <2>4, <2>5 DEF Step
<1>3. CASE UNCHANGED vars
  <2> USE <1>3 DEF vars, runnerVars, udpVars, counters
  <2>1. Counted' /\ AtTheEnd'
    BY DEF DataInv, Counted, AtTheEnd, HasReceived, Is
  <2> QED
    BY <2>1 DEF DataInv
<1> QED
  BY <1>1, <1>2, <1>3 DEF Next

\* What a program has received, and what has gone wrong, is as the scripts say.
THEOREM DataInvariant == ASSUME ScriptsOK PROVE Spec => []DataInv
<1>1. SandboxInv /\ RunnerInv /\ DataInv /\ [Next]_vars => DataInv'
  BY DataStep
<1> QED
  BY <1>1, DataInitOK, SandboxInvariant, ImplementsRunner, RunnerInvariant, PTL DEF Spec

\* Every variable has its type: an answer always has somebody to go to, and what is in a
\* queue names a port that there is.
THEOREM UdpTypes == ASSUME ScriptsOK PROVE Spec => []UdpType
<1>1. RunnerInv /\ SandboxInv /\ DataInv => UdpType
  <2> SUFFICES ASSUME RunnerInv, SandboxInv, DataInv PROVE UdpType
    OBVIOUS
  <2>1. ASSUME NEW p \in Programs, NEW d \in Range(queue[p]) \cup Range(got[p])
        PROVE  d.from \in AllPorts
    <3>1. queue[p] \in Seq(Datagrams) /\ got[p] \in Seq(Datagrams)
      BY DEF SandboxInv, SandboxType, DataInv
    <3>2. d \in Datagrams
      BY <3>1 DEF Range
    <3> QED
      BY <3>2 DEF Datagrams
  <2> QED
    BY <2>1 DEF UdpType, RunnerInv, SandboxInv, SandboxType, DataInv
<1> QED
  BY <1>1, DataInvariant, SandboxInvariant, ImplementsRunner, RunnerInvariant, PTL

\* A runner that answers 0 has programs that have received all that they wait for: none
\* leaves with success while a datagram is still to come.
THEOREM SuccessIsAlwaysComplete == ASSUME ScriptsOK PROVE Spec => []SuccessIsComplete
<1>1. ASSUME ScriptsOK, RunnerInv, SandboxInv, DataInv PROVE SuccessIsComplete
  <2> SUFFICES ASSUME pc = "returned", answer = "zero", NEW p \in Programs
               PROVE  Len(got[p]) =
                        Cardinality({i \in DOMAIN Script[p] : Script[p][i].op = "receive"})
    BY DEF SuccessIsComplete
  <2> DEFINE receives == {i \in DOMAIN Script[p] : Script[p][i].op = "receive"}
  <2>1. Is(p, at[p], "exit")
    BY <1>1 DEF RunnerInv, AnswerIsTheirs, ExitCodes, DataInv, AtTheEnd
  <2>2. PICK n \in Nat : /\ n > 0 /\ DOMAIN Script[p] = 1 .. n
                         /\ \A i \in 1 .. n : Is(p, i, "exit") => i = n
    BY <1>1 DEF ScriptsOK, ScriptsEnd
  <2>3. at[p] = n /\ Script[p][n].op = "exit"
    BY <2>1, <2>2 DEF Is
  <2>4. CASE HasReceived(p)
    <3>1. PICK j \in 1 .. at[p] - 1 : Is(p, j, "receive")
      BY <2>4 DEF HasReceived
    <3>2. receives = {j}
      BY <1>1, <3>1 DEF ScriptsOK, BindsThenReceives, Is
    <3>3. Cardinality(receives) = 1
      BY <3>2, FS_Singleton
    <3> QED
      BY <1>1, <2>4, <3>3 DEF DataInv, Counted
  <2>5. CASE ~ HasReceived(p)
    <3>1. \A j \in 1 .. n - 1 : Script[p][j].op # "receive"
      BY <2>2, <2>3, <2>5 DEF HasReceived, Is
    <3>2. receives = {}
      BY <2>2, <2>3, <3>1
    <3>3. Cardinality(receives) = 0
      BY <3>2, FS_EmptySet
    <3> QED
      BY <1>1, <2>5, <3>3 DEF DataInv, Counted
  <2> QED
    BY <2>4, <2>5
<1> QED
  BY <1>1, DataInvariant, SandboxInvariant, ImplementsRunner, RunnerInvariant, PTL

----------------------------------------------------------------------------
(***************************************************************************)
(* Who is bound to the port of another program, has it shared.              *)
(***************************************************************************)
BindsShared(p) == \A i \in DOMAIN Script[p] : Is(p, i, "bind") => Script[p][i].share

Sharing ==
  /\ \A p \in shared : BindsShared(p)
  /\ \A p, q \in Programs :
       p # q /\ port[p] = port[q] /\ port[p] # NoPort => p \in shared /\ q \in shared

LEMMA BindShares ==
  ASSUME ScriptsOK, SandboxInv, Sharing, NEW p \in Programs, BindPort(p)
  PROVE  Sharing'
<1> DEFINE to == Instr(p).to
<1>1. /\ at[p] \in DOMAIN Script[p] /\ Instr(p) = Script[p][at[p]] /\ Is(p, at[p], "bind")
      /\ port' = [port EXCEPT ![p] = to] /\ port \in [Programs -> AllPorts \cup {NoPort}]
      /\ shared' = IF Instr(p).share THEN shared \cup {p} ELSE shared
      /\ \A q \in Programs \ {p} : port[q] = to => q \in shared /\ Instr(p).share
  BY DEF BindPort, PortTaken, At, Instr, Is, SandboxInv, SandboxType
<1>2. \A q \in shared' : BindsShared(q)
  <2>1. Instr(p).share => BindsShared(p)
    BY <1>1 DEF ScriptsOK, BindsThenReceives, BindsShared, Is
  <2> QED
    BY <1>1, <2>1 DEF Sharing
<1> HIDE DEF to
<1>3. ASSUME NEW q \in Programs, NEW r \in Programs, q # r, port'[q] = port'[r],
             port'[q] # NoPort
      PROVE  q \in shared' /\ r \in shared'
  <2>1. port'[p] = to /\ \A s \in Programs : s # p => port'[s] = port[s]
    BY <1>1
  <2>2. CASE q # p /\ r # p
    BY <1>1, <1>3, <2>1, <2>2 DEF Sharing
  <2>3. CASE q = p \/ r = p
    BY <1>1, <1>3, <2>1, <2>3
  <2> QED
    BY <2>2, <2>3
<1> QED
  BY <1>2, <1>3 DEF Sharing, BindsShared

\* The port that the kernel chooses for a sender is nobody else's.
LEMMA SendShares ==
  ASSUME ScriptsOK, SandboxInv, Sharing, NEW p \in Programs, SendDatagram(p)
  PROVE  Sharing'
<1>1. /\ shared' = shared /\ port \in [Programs -> AllPorts \cup {NoPort}]
      /\ port' = [port EXCEPT ![p] = IF port[p] = NoPort THEN p ELSE port[p]]
  BY DEF SendDatagram, AutoBind, SandboxInv, SandboxType
<1>2. ASSUME NEW q \in Programs, q # p PROVE port[q] # p
  <2>1. port[q] \in {NoPort, q} \cup Ports
    BY DEF SandboxInv, Named, ScriptsOK, NamesPorts
  <2> QED
    BY <1>2, <2>1, PortFacts
<1>3. ASSUME NEW q \in Programs, NEW r \in Programs, q # r, port'[q] = port'[r],
             port'[q] # NoPort
      PROVE  q \in shared /\ r \in shared
  <2>1. /\ port'[p] = port[p] \/ (port[p] = NoPort /\ port'[p] = p)
        /\ \A s \in Programs : s # p => port'[s] = port[s]
    BY <1>1
  <2>2. port'[q] = port[q] /\ port'[r] = port[r]
    BY <1>2, <1>3, <2>1
  <2> QED
    BY <1>3, <2>2 DEF Sharing
<1> QED
  BY <1>1, <1>3 DEF Sharing, BindsShared

LEMMA SharingStep ==
  ASSUME ScriptsOK, SandboxInv, Sharing, [Next]_vars
  PROVE  Sharing'
<1>1. ASSUME UNCHANGED <<port, shared>> PROVE Sharing'
  BY <1>1 DEF Sharing, BindsShared
<1>2. CASE (RunnerMain \/ Interrupt) /\ UNCHANGED udpVars
  BY <1>1, <1>2 DEF udpVars, sockets
<1>3. ASSUME NEW p \in Programs, NEW code, Finish(p, code) PROVE Sharing'
  <2>1. port' = [port EXCEPT ![p] = NoPort] /\ shared' = shared \ {p}
    BY <1>3 DEF Finish
  <2>2. port \in [Programs -> AllPorts \cup {NoPort}]
    BY DEF SandboxInv, SandboxType
  <2> QED
    BY <2>1, <2>2 DEF Sharing, BindsShared
<1>4. ASSUME NEW p \in Programs, Step(p) \/ Killed(p) \/ FaultSeen(p) \/ FaultUnseen(p)
      PROVE  Sharing'
  <2>1. CASE OpenSocket(p) \/ JoinGroup(p) \/ ReceiveDatagram(p) \/ FaultUnseen(p)
    BY <1>1, <2>1 DEF OpenSocket, JoinGroup, ReceiveDatagram, FaultUnseen, sockets
  <2>2. CASE BindPort(p)
    BY <2>2, BindShares
  <2>3. CASE SendDatagram(p)
    BY <2>3, SendShares
  <2>4. CASE BindFails(p) \/ Killed(p) \/ ExitZero(p) \/ FaultSeen(p)
    BY <1>3, <2>4 DEF BindFails, Killed, ExitZero, FaultSeen
  <2> QED
    BY <1>4, <2>1, <2>2, <2>3, <2>4 DEF Step
<1>5. CASE UNCHANGED vars
  BY <1>1, <1>5 DEF vars, udpVars, sockets
<1> QED
  BY <1>2, <1>4, <1>5 DEF Next

\* The kernel gives a port that somebody has only to programs that share it.
THEOREM SharingInvariant ==
  ASSUME ScriptsOK
  PROVE  Spec => []Sharing
<1>1. Init => Sharing
  BY DEF Init, Sharing
<1>2. SandboxInv /\ Sharing /\ [Next]_vars => Sharing'
  BY SharingStep
<1> QED
  BY <1>1, <1>2, SandboxInvariant, PTL DEF Spec

----------------------------------------------------------------------------
(***************************************************************************)
(* Where datagrams come from, if nobody answers and nobody sends twice to    *)
(* the same port, as in udp-many.                                           *)
(***************************************************************************)
NoReplies == \A p \in Programs : \A i \in DOMAIN Script[p] : ~ Is(p, i, "reply")

SendsOnce ==
  \A p, q \in Programs : \A i \in DOMAIN Script[p], j \in DOMAIN Script[q] :
    Is(p, i, "send") /\ Is(q, j, "send") /\ Script[p][i].to = Script[q][j].to =>
      p = q /\ i = j

\* The addresses that the datagrams of q have.
Address(q) == {q} \cup {Script[q][j].to : j \in {k \in DOMAIN Script[q] : Is(q, k, "bind")}}

\* The datagram d is the one that q sends with instruction i, and p is bound, or will be,
\* to the port that it goes to.
SentBy(d, p, q, i) ==
  /\ Is(q, i, "send") /\ p \in MeantFor[Script[q][i].to]
  /\ d.msg = Script[q][i].msg /\ d.from \in Address(q)

Origin ==
  \A p \in Programs : \A d \in Range(queue[p]) \cup Range(got[p]) :
    \E q \in Programs : \E i \in 1 .. at[q] - 1 : SentBy(d, p, q, i)

HasOne(p) == queue[p] # <<>> \/ got[p] # <<>>

\* Of those that share a port, one gets what is sent to it; or it is that of a group, and
\* all who get it share the port in their scripts.
Sole ==
  \A to \in Ports : \A p, q \in MeantFor[to] \cap Programs :
    HasOne(p) /\ HasOne(q) => p = q \/ (to \in Groups /\ BindsShared(p) /\ BindsShared(q))

OriginInv == Origin /\ Sole

LEMMA OriginInitOK ==
  ASSUME Init
  PROVE  OriginInv
<1>1. \A p \in Programs : queue[p] = <<>> /\ got[p] = <<>>
  BY DEF Init
<1>2. \A p \in Programs : Range(queue[p]) = {} /\ Range(got[p]) = {}
  BY <1>1 DEF Range
<1> QED
  BY <1>1, <1>2 DEF OriginInv, Origin, Sole, HasOne

LEMMA RangeOfTail ==
  ASSUME NEW S, NEW s \in Seq(S), s # <<>>
  PROVE  Range(Tail(s)) \subseteq Range(s) /\ Head(s) \in Range(s)
<1>1. /\ Len(s) \in Nat /\ Len(s) > 0 /\ Head(s) = s[1] /\ DOMAIN s = 1 .. Len(s)
      /\ Tail(s) \in Seq(S) /\ Len(Tail(s)) = Len(s) - 1
      /\ \A i \in 1 .. Len(s) - 1 : Tail(s)[i] = s[i + 1]
  OBVIOUS
<1>2. DOMAIN Tail(s) = 1 .. Len(s) - 1
  BY <1>1
<1>3. \A i \in 1 .. Len(s) - 1 : i + 1 \in 1 .. Len(s)
  BY <1>1
<1>4. 1 \in 1 .. Len(s)
  BY <1>1
<1> QED
  BY <1>1, <1>2, <1>3, <1>4 DEF Range

LEMMA RangeOfAppend ==
  ASSUME NEW S, NEW s \in Seq(S), NEW e \in S
  PROVE  Range(Append(s, e)) = Range(s) \cup {e}
<1>1. /\ Len(s) \in Nat /\ DOMAIN s = 1 .. Len(s)
      /\ DOMAIN Append(s, e) = 1 .. Len(s) + 1
      /\ \A i \in 1 .. Len(s) : Append(s, e)[i] = s[i]
      /\ Append(s, e)[Len(s) + 1] = e
  OBVIOUS
<1>2. 1 .. Len(s) + 1 = (1 .. Len(s)) \cup {Len(s) + 1}
  BY <1>1
<1> QED
  BY <1>1, <1>2 DEF Range

\* Nothing new arrives, and nobody goes back.
LEMMA OriginStays ==
  ASSUME OriginInv, \A q \in Programs : at'[q] \in Nat /\ at[q] \in Nat /\ at'[q] >= at[q],
         \A p \in Programs :
           /\ Range(queue'[p]) \cup Range(got'[p]) \subseteq Range(queue[p]) \cup Range(got[p])
           /\ HasOne(p)' => HasOne(p)
  PROVE  OriginInv'
<1>1. Origin'
  <2> SUFFICES ASSUME NEW p \in Programs, NEW d \in Range(queue'[p]) \cup Range(got'[p])
               PROVE  \E q \in Programs : \E i \in 1 .. at'[q] - 1 : SentBy(d, p, q, i)
    BY DEF Origin, SentBy, Is, Address, MeantFor, AllPorts
  <2>1. PICK q \in Programs : \E i \in 1 .. at[q] - 1 : SentBy(d, p, q, i)
    BY DEF OriginInv, Origin
  <2>2. PICK i \in 1 .. at[q] - 1 : SentBy(d, p, q, i)
    BY <2>1
  <2>3. i \in 1 .. at'[q] - 1
    OBVIOUS
  <2> QED
    BY <2>2, <2>3
<1>2. Sole'
  <2> SUFFICES ASSUME NEW to \in Ports, NEW p \in MeantFor[to] \cap Programs,
                      NEW q \in MeantFor[to] \cap Programs, HasOne(p)', HasOne(q)', p # q,
                      ~ (to \in Groups /\ BindsShared(p) /\ BindsShared(q))
               PROVE  FALSE
    BY DEF Sole, MeantFor, BindsShared, Is
  <2> QED
    BY DEF OriginInv, Sole
<1> QED
  BY <1>1, <1>2 DEF OriginInv

LEMMA ReceiveOrigin ==
  ASSUME ScriptsOK, SandboxInv, DataInv, OriginInv, NEW p \in Programs, ReceiveDatagram(p)
  PROVE  OriginInv'
<1>1. /\ Instr(p).op = "receive" /\ Advance(p) /\ queue[p] # <<>>
      /\ got' = [got EXCEPT ![p] = Append(got[p], Head(queue[p]))]
      /\ queue' = [queue EXCEPT ![p] = Tail(queue[p])]
  BY DEF ReceiveDatagram, At
<1>2. /\ queue \in [Programs -> Seq(Datagrams)] /\ got \in [Programs -> Seq(Datagrams)]
      /\ \A q \in Programs : at[q] \in Nat
  BY DEF SandboxInv, SandboxType, DataInv
<1>3. \A q \in Programs : at'[q] \in Nat /\ at'[q] >= at[q]
  <2>1. /\ at' \in [Programs -> Nat] /\ at'[p] = at[p] + 1
        /\ \A q \in Programs : q # p => at'[q] = at[q]
    BY <1>1, AdvanceOK DEF ScriptsOK, SandboxInv
  <2>2. at[p] \in Nat /\ at'[p] >= at[p]
    BY <1>2, <2>1
  <2>3. \A q \in Programs : at[q] >= at[q]
    BY <1>2
  <2> QED
    BY <2>1, <2>2, <2>3
<1>4. /\ queue'[p] = Tail(queue[p]) /\ got'[p] = Append(got[p], Head(queue[p]))
      /\ \A q \in Programs : q # p => queue'[q] = queue[q] /\ got'[q] = got[q]
  BY <1>1, <1>2
<1>5. /\ Range(Tail(queue[p])) \subseteq Range(queue[p]) /\ Head(queue[p]) \in Range(queue[p])
  BY <1>1, <1>2, RangeOfTail
<1>6. Range(got'[p]) = Range(got[p]) \cup {Head(queue[p])}
  <2>1. Head(queue[p]) \in Datagrams
    BY <1>1, <1>2
  <2> QED
    BY <1>2, <1>4, <2>1, RangeOfAppend
<1>7. ASSUME NEW q \in Programs
      PROVE  /\ Range(queue'[q]) \cup Range(got'[q]) \subseteq Range(queue[q]) \cup Range(got[q])
             /\ HasOne(q)' => HasOne(q)
  <2>1. CASE q = p
    BY <1>1, <1>4, <1>5, <1>6, <2>1 DEF HasOne
  <2>2. CASE q # p
    BY <1>4, <2>2 DEF HasOne
  <2> QED
    BY <2>1, <2>2
<1> QED
  BY <1>2, <1>3, <1>7, OriginStays

\* What a datagram does to the queues.
LEMMA DeliverChooses ==
  ASSUME NEW p \in Programs, NEW to, NEW msg, Deliver(p, to, msg),
         NEW d, d = [from |-> port'[p], msg |-> msg]
  PROVE  \E R \in SUBSET Programs :
           /\ \A q \in R : port[q] = to
           /\ to \notin Groups => \A q, r \in R : q = r
           /\ \A q \in Programs :
                queue'[q] = IF q \in R THEN Append(queue[q], d) ELSE queue[q]
<1>1. PICK receivers \in Receivers(to) : \E dropped \in SUBSET receivers :
        queue' = [r \in Programs |->
          IF r \in receivers \ dropped
          THEN Append(queue[r], [from |-> port'[p], msg |-> msg]) ELSE queue[r]]
  BY DEF Deliver
<1>2. PICK dropped \in SUBSET receivers :
        queue' = [r \in Programs |->
          IF r \in receivers \ dropped
          THEN Append(queue[r], [from |-> port'[p], msg |-> msg]) ELSE queue[r]]
  BY <1>1
<1>3. /\ receivers \in SUBSET Programs /\ \A r \in receivers : port[r] = to
      /\ to \notin Groups => \A q, r \in receivers : q = r
  BY DEF Receivers, Listens
<1>4. \A q \in Programs :
        queue'[q] = IF q \in receivers \ dropped THEN Append(queue[q], d) ELSE queue[q]
  BY <1>2
<1>5. receivers \ dropped \in SUBSET Programs
  BY <1>3
<1> QED
  BY <1>3, <1>4, <1>5

\* A program that has a datagram, has the one that was sent to its port.
LEMMA WasSent ==
  ASSUME ScriptsOK, SandboxInv, DataInv, OriginInv, NEW p \in Programs, HasOne(p)
  PROVE  \E q \in Programs : \E i \in 1 .. at[q] - 1 :
           Is(q, i, "send") /\ p \in MeantFor[Script[q][i].to]
<1>1. queue[p] \in Seq(Datagrams) /\ got[p] \in Seq(Datagrams)
  BY DEF SandboxInv, SandboxType, DataInv
<1>2. PICK s \in {queue[p], got[p]} : s # <<>> /\ s \in Seq(Datagrams)
  BY <1>1 DEF HasOne
<1>3. Head(s) \in Range(queue[p]) \cup Range(got[p])
  BY <1>2, RangeOfTail
<1> QED
  BY <1>3 DEF OriginInv, Origin, SentBy

\* No two sends mean the same program.
LEMMA OneSend ==
  ASSUME ScriptsOK, SendsOnce, NEW p \in Programs,
         NEW q \in Programs, NEW i, Is(q, i, "send"), p \in MeantFor[Script[q][i].to],
         NEW r \in Programs, NEW j, Is(r, j, "send"), p \in MeantFor[Script[r][j].to]
  PROVE  q = r /\ i = j
<1>1. Script[q][i].to \in Ports /\ Script[r][j].to \in Ports
  BY DEF ScriptsOK, NamesPorts, Is
<1>2. ASSUME NEW to \in Ports, p \in MeantFor[to]
      PROVE  \E k \in DOMAIN Script[p] : Is(p, k, "bind") /\ Script[p][k].to = to
  BY <1>2, PortFacts DEF MeantFor, AllPorts, Is
<1>3. Script[q][i].to = Script[r][j].to
  <2>1. PICK k \in DOMAIN Script[p] : Is(p, k, "bind") /\ Script[p][k].to = Script[q][i].to
    BY <1>1, <1>2
  <2>2. PICK l \in DOMAIN Script[p] : Is(p, l, "bind") /\ Script[p][l].to = Script[r][j].to
    BY <1>1, <1>2
  <2>3. k = l
    BY <2>1, <2>2 DEF ScriptsOK, BindsThenReceives
  <2> QED
    BY <2>1, <2>2, <2>3
<1> QED
  BY <1>3 DEF SendsOnce, Is

LEMMA SendOrigin ==
  ASSUME ScriptsOK, NoReplies, SendsOnce, SandboxInv, DataInv, OriginInv, SandboxInv',
         Sharing, NEW p \in Programs, SendDatagram(p)
  PROVE  OriginInv'
<1> DEFINE to == Instr(p).to
           d == [from |-> port'[p], msg |-> Instr(p).msg]
<1>1. /\ Instr(p).op = "send" /\ Is(p, at[p], "send") /\ Instr(p) = Script[p][at[p]]
      /\ to \in Ports /\ Target(p) = to /\ Advance(p) /\ got' = got
      /\ port'[p] \in AllPorts /\ port'[p] # NoPort
  <2>1. at[p] \in DOMAIN Script[p] /\ Instr(p) = Script[p][at[p]]
    BY DEF SandboxInv, SandboxType, Instr
  <2>2. Instr(p).op = "send"
    BY <2>1 DEF SendDatagram, At, NoReplies, Is
  <2>3. to \in Ports /\ Target(p) = to
    BY <2>1, <2>2 DEF ScriptsOK, NamesPorts, Is, Target, At
  <2>4. port'[p] \in AllPorts /\ port'[p] # NoPort
    BY PortFacts DEF SendDatagram, AutoBind, SandboxInv, SandboxType, AllPorts
  <2> QED
    BY <2>1, <2>2, <2>3, <2>4 DEF SendDatagram, Is
<1>2. /\ queue \in [Programs -> Seq(Datagrams)] /\ got \in [Programs -> Seq(Datagrams)]
      /\ \A q \in Programs : at[q] \in Nat
  BY DEF SandboxInv, SandboxType, DataInv
<1>3. /\ at'[p] = at[p] + 1 /\ \A q \in Programs : q # p => at'[q] = at[q]
      /\ \A q \in Programs : at'[q] \in Nat /\ at'[q] >= at[q]
      /\ at[p] \in 1 .. at'[p] - 1
  <2>1. /\ at' \in [Programs -> Nat] /\ at'[p] = at[p] + 1
        /\ \A q \in Programs : q # p => at'[q] = at[q]
    BY <1>1, AdvanceOK DEF ScriptsOK, SandboxInv
  <2>2. at[p] \in Nat /\ at[p] >= 1
    BY <1>1, <1>2 DEF ScriptsOK, ScriptsEnd, Is
  <2>3. at'[p] >= at[p] /\ at[p] \in 1 .. at'[p] - 1
    BY <2>1, <2>2
  <2>4. \A q \in Programs : at[q] >= at[q]
    BY <1>2
  <2> QED
    BY <2>1, <2>3, <2>4
<1>4. d \in Datagrams /\ d.msg = Script[p][at[p]].msg /\ d.from = port'[p]
  BY <1>1 DEF Datagrams, Messages, Is
<1>5. port'[p] \in Address(p)
  <2>1. port'[p] = p \/ \E j \in DOMAIN Script[p] : Is(p, j, "bind") /\ port'[p] = Script[p][j].to
    BY <1>1 DEF SandboxInv, Named, Is
  <2> QED
    BY <2>1 DEF Address
<1>6. PICK R \in SUBSET Programs :
        /\ \A q \in R : port[q] = to
        /\ to \notin Groups => \A q, r \in R : q = r
        /\ \A q \in Programs :
             queue'[q] = IF q \in R THEN Append(queue[q], d) ELSE queue[q]
  <2>1. Deliver(p, to, Instr(p).msg)
    BY <1>1 DEF SendDatagram
  <2>2. d = [from |-> port'[p], msg |-> Instr(p).msg]
    OBVIOUS
  <2> HIDE DEF d, to
  <2> QED
    BY <2>1, <2>2, DeliverChooses
<1> HIDE DEF d, to
<1>7. \A q \in R : q \in MeantFor[to]
  <2> SUFFICES ASSUME NEW q \in R PROVE q \in MeantFor[to]
    OBVIOUS
  <2>1. port[q] = to /\ to # NoPort /\ to # q
    BY <1>1, <1>6, PortFacts
  <2>2. PICK j \in DOMAIN Script[q] : Is(q, j, "bind") /\ port[q] = Script[q][j].to
    BY <2>1 DEF SandboxInv, Named
  <2> QED
    BY <1>1, <2>1, <2>2 DEF MeantFor, AllPorts, Is
<1>8. to = Script[p][at[p]].to
  BY <1>1 DEF to
<1>9. Origin'
  <2> SUFFICES ASSUME NEW q \in Programs, NEW e \in Range(queue'[q]) \cup Range(got'[q])
               PROVE  \E r \in Programs : \E i \in 1 .. at'[r] - 1 : SentBy(e, q, r, i)
    BY DEF Origin, SentBy, Is, Address, MeantFor, AllPorts
  <2>1. e \in Range(queue[q]) \cup Range(got[q]) \/ (e = d /\ q \in R)
    <3>1. CASE q \in R
      <4>1. Range(queue'[q]) = Range(queue[q]) \cup {d}
        BY <1>2, <1>4, <1>6, <3>1, RangeOfAppend
      <4> QED
        BY <1>1, <3>1, <4>1
    <3>2. CASE q \notin R
      BY <1>1, <1>6, <3>2
    <3> QED
      BY <3>1, <3>2
  <2>2. CASE e \in Range(queue[q]) \cup Range(got[q])
    <3>1. PICK r \in Programs : \E i \in 1 .. at[r] - 1 : SentBy(e, q, r, i)
      BY <2>2 DEF OriginInv, Origin
    <3>2. PICK i \in 1 .. at[r] - 1 : SentBy(e, q, r, i)
      BY <3>1
    <3>3. i \in 1 .. at'[r] - 1
      BY <1>2, <1>3
    <3> QED
      BY <3>2, <3>3
  <2>3. CASE e = d /\ q \in R
    <3>1. SentBy(d, q, p, at[p])
      BY <1>1, <1>4, <1>5, <1>7, <1>8, <2>3 DEF SentBy
    <3> QED
      BY <1>3, <2>3, <3>1
  <2> QED
    BY <2>1, <2>2, <2>3
<1>10. ASSUME NEW q \in MeantFor[to] \cap Programs PROVE ~ HasOne(q)
  <2> SUFFICES ASSUME HasOne(q) PROVE FALSE
    OBVIOUS
  <2>1. PICK r \in Programs : \E i \in 1 .. at[r] - 1 :
          Is(r, i, "send") /\ q \in MeantFor[Script[r][i].to]
    BY WasSent
  <2>2. PICK i \in 1 .. at[r] - 1 : Is(r, i, "send") /\ q \in MeantFor[Script[r][i].to]
    BY <2>1
  <2>3. r = p /\ i = at[p]
    BY <1>1, <1>8, <2>2, OneSend
  <2> QED
    BY <1>2, <2>2, <2>3
<1>11. \A q \in Programs : q \notin R => (HasOne(q)' <=> HasOne(q))
  BY <1>1, <1>6 DEF HasOne
<1>12. Sole'
  <2> SUFFICES ASSUME NEW port1 \in Ports, NEW q \in MeantFor[port1] \cap Programs,
                      NEW r \in MeantFor[port1] \cap Programs, HasOne(q)', HasOne(r)', q # r,
                      ~ (port1 \in Groups /\ BindsShared(q) /\ BindsShared(r))
               PROVE  FALSE
    BY DEF Sole, MeantFor, BindsShared, Is
  <2>1. q \in R \/ r \in R
    BY <1>11 DEF OriginInv, Sole
  <2>2. PICK s \in {q, r} : s \in R
    BY <2>1
  <2>3. port1 = to
    <3>1. ASSUME NEW to1 \in Ports, s \in MeantFor[to1]
          PROVE  \E k \in DOMAIN Script[s] : Is(s, k, "bind") /\ Script[s][k].to = to1
      BY <2>2, <3>1, PortFacts DEF MeantFor, AllPorts, Is
    <3>2. s \in MeantFor[to] /\ s \in MeantFor[port1] /\ s \in Programs
      BY <1>7, <2>2
    <3>3. PICK k \in DOMAIN Script[s] : Is(s, k, "bind") /\ Script[s][k].to = to
      BY <1>1, <3>1, <3>2
    <3>4. PICK l \in DOMAIN Script[s] : Is(s, l, "bind") /\ Script[s][l].to = port1
      BY <3>1, <3>2
    <3>5. k = l
      BY <3>2, <3>3, <3>4 DEF ScriptsOK, BindsThenReceives
    <3> QED
      BY <3>3, <3>4, <3>5
  <2>4. q \in R /\ r \in R
    BY <1>10, <1>11, <2>3
  <2>5. q \in shared /\ r \in shared
    BY <1>1, <1>6, <2>4, PortFacts DEF Sharing
  <2>6. BindsShared(q) /\ BindsShared(r)
    BY <2>5 DEF Sharing
  <2> QED
    BY <1>6, <2>3, <2>4, <2>6
<1> QED
  BY <1>9, <1>12 DEF OriginInv

\* A step that brings no datagram to anybody.
LEMMA AdvanceOrigin ==
  ASSUME ScriptsOK, SandboxInv, OriginInv, NEW p \in Programs, Instr(p).op # "exit",
         Advance(p), UNCHANGED <<queue, got>>
  PROVE  OriginInv'
<1>1. \A q \in Programs : at'[q] \in Nat /\ at[q] \in Nat /\ at'[q] >= at[q]
  <2>1. /\ at' \in [Programs -> Nat] /\ at'[p] = at[p] + 1
        /\ \A q \in Programs : q # p => at'[q] = at[q]
    BY AdvanceOK DEF ScriptsOK, SandboxInv
  <2>2. \A q \in Programs : at[q] \in Nat
    BY DEF SandboxInv, SandboxType
  <2>3. at[p] \in Nat /\ at'[p] >= at[p]
    BY <2>1, <2>2
  <2>4. \A q \in Programs : at[q] >= at[q]
    BY <2>2
  <2> QED
    BY <2>1, <2>2, <2>3, <2>4
<1>2. \A q \in Programs :
        /\ Range(queue'[q]) \cup Range(got'[q]) \subseteq Range(queue[q]) \cup Range(got[q])
        /\ HasOne(q)' => HasOne(q)
  BY DEF HasOne
<1> QED
  BY <1>1, <1>2, OriginStays

\* The end of a program empties its queue.
LEMMA FinishOrigin ==
  ASSUME SandboxInv, OriginInv, NEW p \in Programs, NEW code, Finish(p, code)
  PROVE  OriginInv'
<1>1. /\ at' = at /\ got' = got /\ queue' = [queue EXCEPT ![p] = <<>>]
      /\ queue \in [Programs -> Seq(Datagrams)] /\ \A q \in Programs : at[q] \in Nat
  BY DEF Finish, SandboxInv, SandboxType
<1>2. \A q \in Programs : at'[q] \in Nat /\ at[q] \in Nat /\ at'[q] >= at[q]
  BY <1>1
<1>3. queue'[p] = <<>> /\ \A q \in Programs : q # p => queue'[q] = queue[q]
  BY <1>1
<1>4. Range(queue'[p]) = {}
  BY <1>3 DEF Range
<1>5. \A q \in Programs :
        /\ Range(queue'[q]) \cup Range(got'[q]) \subseteq Range(queue[q]) \cup Range(got[q])
        /\ HasOne(q)' => HasOne(q)
  BY <1>1, <1>3, <1>4 DEF HasOne
<1> QED
  BY <1>2, <1>5, OriginStays

LEMMA OriginStep ==
  ASSUME ScriptsOK, NoReplies, SendsOnce, SandboxInv, SandboxInv', DataInv, OriginInv,
         Sharing, [Next]_vars
  PROVE  OriginInv'
<1>1. ASSUME UNCHANGED <<at, queue, got>> PROVE OriginInv'
  <2>1. \A q \in Programs : at'[q] \in Nat /\ at[q] \in Nat /\ at'[q] >= at[q]
    BY <1>1 DEF SandboxInv, SandboxType
  <2>2. \A q \in Programs :
          /\ Range(queue'[q]) \cup Range(got'[q]) \subseteq Range(queue[q]) \cup Range(got[q])
          /\ HasOne(q)' => HasOne(q)
    BY <1>1 DEF HasOne
  <2> QED
    BY <2>1, <2>2, OriginStays
<1>2. CASE (RunnerMain \/ Interrupt) /\ UNCHANGED udpVars
  BY <1>1, <1>2 DEF udpVars, sockets
<1>3. ASSUME NEW p \in Programs, Step(p) \/ Killed(p) \/ FaultSeen(p) \/ FaultUnseen(p)
      PROVE  OriginInv'
  <2>1. CASE OpenSocket(p) \/ JoinGroup(p) \/ BindPort(p) \/ FaultUnseen(p)
    BY <2>1, AdvanceOrigin DEF OpenSocket, JoinGroup, BindPort, FaultUnseen, At, sockets
  <2>2. CASE SendDatagram(p)
    BY <2>2, SendOrigin
  <2>3. CASE ReceiveDatagram(p)
    BY <2>3, ReceiveOrigin
  <2>4. CASE BindFails(p) \/ Killed(p) \/ ExitZero(p) \/ FaultSeen(p)
    BY <2>4, FinishOrigin DEF BindFails, Killed, ExitZero, FaultSeen
  <2> QED
    BY <1>3, <2>1, <2>2, <2>3, <2>4 DEF Step
<1>4. CASE UNCHANGED vars
  BY <1>1, <1>4 DEF vars, udpVars, sockets
<1> QED
  BY <1>2, <1>3, <1>4 DEF Next

\* Whatever is in a queue or has been received was sent to the port of its receiver, with the
\* sender's address; and what is sent to a port has one receiver, unless it is a group's and
\* its receivers share it.
THEOREM OriginInvariant ==
  ASSUME ScriptsOK, NoReplies, SendsOnce
  PROVE  Spec => []OriginInv
<1>1. SandboxInv /\ SandboxInv' /\ DataInv /\ OriginInv /\ Sharing /\ [Next]_vars
        => OriginInv'
  BY OriginStep
<1> QED
  BY <1>1, OriginInitOK, SandboxInvariant, DataInvariant, SharingInvariant, PTL DEF Spec

\* The ports that somebody else holds stay the same.
THEOREM TakenStays == Spec => [](taken \subseteq MayBeTaken)
<1>1. Init => taken \subseteq MayBeTaken
  BY DEF Init
<1>2. taken \subseteq MayBeTaken /\ [Next]_vars => (taken \subseteq MayBeTaken)'
  BY DEF Next, vars, udpVars
<1> QED
  BY <1>1, <1>2, PTL DEF Spec

----------------------------------------------------------------------------
(***************************************************************************)
(* The scripts of udp-ping and of udp-many are such scripts.                *)
(***************************************************************************)
\* The parameters of udp-ping.
PingConfig == Order = PingOrder /\ Script = PingScript /\ "8090" \in Ports /\ Groups = {}

\* The instructions of its two programs.
LEMMA PingIs ==
  ASSUME PingConfig
  PROVE  /\ Programs = {"server", "client"}
         /\ /\ DOMAIN Script["server"] = 1 .. 4
            /\ Script["server"][1].op = "bind" /\ Script["server"][1].to = "8090"
            /\ Script["server"][2].op = "receive"
            /\ Script["server"][3].op = "reply"
            /\ Script["server"][3].msg = Answer
            /\ Script["server"][4].op = "exit"
         /\ /\ DOMAIN Script["client"] = 1 .. 4
            /\ Script["client"][1].op = "open"
            /\ Script["client"][2].op = "send" /\ Script["client"][2].to = "8090"
            /\ Script["client"][2].msg = Greeting
            /\ Script["client"][3].op = "receive"
            /\ Script["client"][4].op = "exit"
         /\ \A i \in 1 .. 4 : i = 1 \/ i = 2 \/ i = 3 \/ i = 4
<1>1. Programs = {"server", "client"}
  <2>1. DOMAIN PingOrder = {1, 2} /\ PingOrder[1] = "server" /\ PingOrder[2] = "client"
    BY DEF PingOrder
  <2> QED
    BY <2>1 DEF Programs, PingConfig
<1>2. Script["server"] = ServerScript /\ Script["client"] = ClientScript
  BY DEF PingScript, PingConfig
<1>3. /\ DOMAIN ServerScript = 1 .. 4
      /\ ServerScript[1] = BindOp("8090", FALSE) /\ ServerScript[2] = Op("receive")
      /\ ServerScript[3] = ReplyOp(Answer, Checked)
      /\ ServerScript[4] = Op("exit")
  BY DEF ServerScript
<1>4. /\ DOMAIN ClientScript = 1 .. 4
      /\ ClientScript[1] = Op("open")
      /\ ClientScript[2] = SendOp("8090", Greeting, Checked)
      /\ ClientScript[3] = Op("receive") /\ ClientScript[4] = Op("exit")
  BY DEF ClientScript
<1>5. BindOp("8090", FALSE).op = "bind" /\ BindOp("8090", FALSE).to = "8090"
  BY DEF BindOp
<1>6. /\ ReplyOp(Answer, Checked).op = "reply"
      /\ ReplyOp(Answer, Checked).msg = Answer
  BY DEF ReplyOp
<1>7. /\ SendOp("8090", Greeting, Checked).op = "send"
      /\ SendOp("8090", Greeting, Checked).to = "8090"
      /\ SendOp("8090", Greeting, Checked).msg = Greeting
  BY DEF SendOp
<1>8. Op("open").op = "open" /\ Op("receive").op = "receive" /\ Op("exit").op = "exit"
  BY DEF Op
<1>9. \A i \in 1 .. 4 : i = 1 \/ i = 2 \/ i = 3 \/ i = 4
  OBVIOUS
<1> QED
  BY <1>1, <1>2, <1>3, <1>4, <1>5, <1>6, <1>7, <1>8, <1>9

\* The two programs of udp-ping.
THEOREM PingScriptsOK == ASSUME PingConfig PROVE ScriptsOK /\ SharesPorts /\ JoinsGroups
<1>1. \A p \in Programs : p = "server" \/ p = "client"
  BY PingIs
<1>3. /\ DOMAIN Script["server"] = 1 .. 4
      /\ Script["server"][1].op = "bind" /\ Script["server"][1].to = "8090"
      /\ Script["server"][2].op = "receive" /\ Script["server"][3].op = "reply"
      /\ Script["server"][4].op = "exit"
  BY PingIs
<1>4. /\ DOMAIN Script["client"] = 1 .. 4
      /\ Script["client"][1].op = "open"
      /\ Script["client"][2].op = "send" /\ Script["client"][2].to = "8090"
      /\ Script["client"][3].op = "receive" /\ Script["client"][4].op = "exit"
  BY PingIs
<1>5. \A i \in 1 .. 4 : i = 1 \/ i = 2 \/ i = 3 \/ i = 4
  OBVIOUS
<1>6. \A i \in DOMAIN Script["server"] :
        /\ Script["server"][i].op = "bind" => i = 1
        /\ Script["server"][i].op = "receive" => i = 2
        /\ Script["server"][i].op # "send"
  BY <1>3, <1>5
<1>7. \A i \in DOMAIN Script["client"] :
        /\ Script["client"][i].op # "bind"
        /\ Script["client"][i].op = "receive" => i = 3
        /\ Script["client"][i].op = "send" => i = 2
  BY <1>4, <1>5
<1>8. ScriptsEnd
  <2>1. ASSUME NEW p \in Programs
        PROVE  /\ DOMAIN Script[p] = 1 .. 4 /\ Is(p, 4, "exit")
               /\ \A i \in 1 .. 4 : Is(p, i, "exit") => i = 4
    BY <1>1, <1>3, <1>4, <1>5 DEF Is
  <2>2. 4 \in Nat /\ 4 > 0
    OBVIOUS
  <2> QED
    BY <2>1, <2>2 DEF ScriptsEnd
<1>9. NamesPorts
  BY <1>1, <1>3, <1>4, <1>6, <1>7 DEF NamesPorts, Is, PingConfig
<1>10. SharesPorts
  BY <1>1, <1>6, <1>7 DEF SharesPorts, Is
<1>11. BindsThenReceives
  BY <1>1, <1>6, <1>7 DEF BindsThenReceives, Is
<1>12. ReceivesThenReplies
  <2>1. 2 \in 1 .. 3 - 1 /\ Is("server", 2, "receive")
    BY <1>3 DEF Is
  <2>2. ASSUME NEW p \in Programs, NEW i \in DOMAIN Script[p], Is(p, i, "reply")
        PROVE  p = "server" /\ i = 3
    BY <1>1, <1>3, <1>4, <1>5, <2>2 DEF Is
  <2> QED
    BY <2>1, <2>2 DEF ReceivesThenReplies
<1>13. JoinsGroups
  BY DEF JoinsGroups, PingConfig
<1> QED
  BY <1>8, <1>9, <1>10, <1>11, <1>12, <1>13 DEF ScriptsOK

----------------------------------------------------------------------------
(***************************************************************************)
(* The conversation of udp-ping.  At any time a datagram has not been sent, *)
(* is in the queue, or has been received; the answer goes where the greeting *)
(* came from, which is the client's own port as long as the client runs.    *)
(***************************************************************************)
Ping == [from |-> "client", msg |-> Greeting]
Pong == [from |-> "8090", msg |-> Answer]

\* d is the only datagram for p, and it is there only once its sender has gone beyond k.
OnlyAfter(d, p, sender, k) ==
  /\ queue[p] \in {<<>>, <<d>>} /\ got[p] \in {<<>>, <<d>>}
  /\ got[p] # <<>> => queue[p] = <<>>
  /\ queue[p] # <<>> \/ got[p] # <<>> => at[sender] > k

Answerable ==
  (queue["server"] # <<>> \/ got["server"] # <<>>) /\ Running("client") =>
    port["client"] = "client"

Replied ==
  at["server"] > 3 =>
    \/ "client" \in missed \/ Ended("client")
    \/ queue["client"] # <<>> \/ got["client"] # <<>>

PingInv ==
  /\ OnlyAfter(Ping, "server", "client", 2)
  /\ OnlyAfter(Pong, "client", "server", 3)
  /\ Answerable /\ Replied

LEMMA PingInitOK ==
  ASSUME PingConfig, Init
  PROVE  PingInv
<1>1. /\ queue["server"] = <<>> /\ got["server"] = <<>> /\ at["server"] = 1
      /\ queue["client"] = <<>> /\ got["client"] = <<>> /\ at["client"] = 1
  BY PingIs DEF Init
<1> QED
  BY <1>1 DEF PingInv, OnlyAfter, Answerable, Replied

\* Where the programs are at each of their operations.
LEMMA PingAt ==
  ASSUME PingConfig, SandboxInv
  PROVE  /\ at["server"] \in 1 .. 4 /\ at["client"] \in 1 .. 4
         /\ Instr("server") = Script["server"][at["server"]]
         /\ Instr("client") = Script["client"][at["client"]]
         /\ At("server", "receive") => at["server"] = 2
         /\ At("server", "reply") => at["server"] = 3
         /\ ~ At("server", "send")
         /\ At("client", "send") => at["client"] = 2
         /\ At("client", "receive") => at["client"] = 3
         /\ At("client", "open") => at["client"] = 1
         /\ ~ At("client", "reply") /\ ~ At("client", "bind") /\ ~ At("client", "join")
<1>1. at["server"] \in 1 .. 4 /\ at["client"] \in 1 .. 4
  BY PingIs DEF SandboxInv, SandboxType
<1> QED
  BY <1>1, PingIs DEF At, Instr

\* The ports that the two programs may have.
LEMMA PingPorts ==
  ASSUME PingConfig, SandboxInv
  PROVE  /\ "8090" # "client" /\ NoPort # "client" /\ NoPort # "8090"
         /\ port["client"] \in {NoPort, "client"}
         /\ port["server"] \in {NoPort, "server", "8090"}
         /\ Running("server") /\ at["server"] > 1 => port["server"] = "8090"
<1>1. "8090" # "client" /\ NoPort # "client" /\ NoPort # "8090"
  BY PingIs, PortFacts DEF PingConfig
<1>2. \A j \in DOMAIN Script["client"] : ~ Is("client", j, "bind")
  BY PingIs DEF Is
<1>3. \A j \in DOMAIN Script["server"] : Is("server", j, "bind") => Script["server"][j].to = "8090"
  BY PingIs DEF Is
<1>4. Is("server", 1, "bind")
  <2>1. 1 \in 1 .. 4
    OBVIOUS
  <2> QED
    BY <2>1, PingIs DEF Is
<1>5. Running("server") /\ at["server"] > 1 => port["server"] = "8090"
  <2>1. at["server"] > 1 => 1 \in 1 .. at["server"] - 1
    BY PingAt
  <2>2. "server" \in Programs
    BY PingIs
  <2> QED
    BY <1>4, <2>1, <2>2, PingIs DEF SandboxInv, Bound
<1>6. port["client"] \in {NoPort, "client"}
  BY <1>2, PingIs DEF SandboxInv, Named
<1>7. port["server"] \in {NoPort, "server", "8090"}
  BY <1>3, PingIs DEF SandboxInv, Named
<1> QED
  BY <1>1, <1>5, <1>6, <1>7

\* A datagram reaches no socket at another port.
LEMMA DeliverReaches ==
  ASSUME PingConfig, NEW p \in Programs, NEW to, NEW msg, Deliver(p, to, msg),
         NEW q \in Programs
  PROVE  \/ queue'[q] = queue[q]
         \/ /\ port[q] = to
            /\ queue'[q] = Append(queue[q], [from |-> port'[p], msg |-> msg])
<1>1. PICK receivers \in Receivers(to) : \E dropped \in SUBSET receivers :
        queue' = [r \in Programs |->
          IF r \in receivers \ dropped
          THEN Append(queue[r], [from |-> port'[p], msg |-> msg]) ELSE queue[r]]
  BY DEF Deliver
<1>2. PICK dropped \in SUBSET receivers :
        queue' = [r \in Programs |->
          IF r \in receivers \ dropped
          THEN Append(queue[r], [from |-> port'[p], msg |-> msg]) ELSE queue[r]]
  BY <1>1
<1>3. \A r \in receivers : port[r] = to
  BY DEF Receivers, Listens
<1> QED
  BY <1>2, <1>3

\* Steps that send and receive nothing.
LEMMA QuietKeepsPing ==
  ASSUME PingConfig, SandboxInv, PingInv, got' = got,
         at'["server"] \in Nat, at'["server"] >= at["server"],
         at'["client"] \in Nat, at'["client"] >= at["client"],
         \A p \in Programs : queue'[p] = queue[p] \/ (queue'[p] = <<>> /\ Ended(p)'),
         missed \subseteq missed', Ended("client") => Ended("client")',
         Running("client")' /\ at["client"] > 2 =>
           Running("client") /\ port'["client"] = port["client"],
         at'["server"] > 3 => at["server"] > 3 \/ "client" \in missed'
  PROVE  PingInv'
<1>1. /\ at["server"] \in Nat /\ at["client"] \in Nat
      /\ queue'["server"] \in {queue["server"], <<>>}
      /\ queue'["client"] = queue["client"] \/ (queue'["client"] = <<>> /\ Ended("client")')
  BY PingAt, PingIs
<1>2. OnlyAfter(Ping, "server", "client", 2) /\ OnlyAfter(Pong, "client", "server", 3)
  BY DEF PingInv
<1>3. OnlyAfter(Ping, "server", "client", 2)'
  BY <1>1, <1>2 DEF OnlyAfter, Ping
<1>4. OnlyAfter(Pong, "client", "server", 3)'
  BY <1>1, <1>2 DEF OnlyAfter, Pong
<1>5. Answerable'
  <2> SUFFICES ASSUME (queue["server"] # <<>> \/ got["server"] # <<>>)', Running("client")'
               PROVE  port'["client"] = "client"
    BY DEF Answerable
  <2>1. queue["server"] # <<>> \/ got["server"] # <<>>
    BY <1>1
  <2>2. at["client"] > 2
    BY <1>2, <2>1 DEF OnlyAfter
  <2> QED
    BY <2>1, <2>2 DEF PingInv, Answerable
<1>6. Replied'
  BY <1>1 DEF PingInv, Replied
<1> QED
  BY <1>3, <1>4, <1>5, <1>6 DEF PingInv

\* The client greets the server...
LEMMA GreetKeepsPing ==
  ASSUME PingConfig, SandboxInv, PingInv, SendDatagram("client")
  PROVE  PingInv'
<1>0. /\ "client" \in Programs /\ "server" \in Programs
      /\ "8090" # "client" /\ NoPort # "client" /\ NoPort # "8090"
      /\ port["client"] \in {NoPort, "client"}
      /\ ~ At("client", "reply") /\ (At("client", "send") => at["client"] = 2)
      /\ Instr("client") = Script["client"][at["client"]]
      /\ Script["client"][2].to = "8090" /\ Script["client"][2].msg = Greeting
  BY PingIs, PingAt, PingPorts
<1>1. /\ at["client"] = 2 /\ UNCHANGED <<got, child>>
      /\ Target("client") = "8090" /\ Instr("client").msg = Greeting
  BY <1>0 DEF SendDatagram, Target, runnerVars
<1>2. /\ at' = [at EXCEPT !["client"] = at["client"] + 1]
      /\ port' = [port EXCEPT !["client"] = IF port["client"] = NoPort THEN "client"
                                            ELSE port["client"]]
      /\ Deliver("client", "8090", Greeting)
  BY <1>1 DEF SendDatagram, AutoBind, Advance
<1>3. at'["client"] = 3 /\ at'["server"] = at["server"] /\ port'["client"] = "client"
  BY <1>0, <1>1, <1>2 DEF SandboxInv, SandboxType
<1>4. OnlyAfter(Ping, "server", "client", 2) /\ OnlyAfter(Pong, "client", "server", 3)
  BY DEF PingInv
<1>5. queue["server"] = <<>> /\ got["server"] = <<>>
  BY <1>1, <1>4 DEF OnlyAfter
<1>6. [from |-> port'["client"], msg |-> Greeting] = Ping
  BY <1>3 DEF Ping
<1>7. queue'["client"] = queue["client"]
  BY <1>0, <1>2, DeliverReaches
<1>8. queue'["server"] = <<>> \/ queue'["server"] = <<Ping>>
  <2>1. queue'["server"] = queue["server"] \/ queue'["server"] = Append(queue["server"], Ping)
    BY <1>0, <1>2, <1>6, DeliverReaches
  <2> QED
    BY <1>5, <2>1
<1>9. OnlyAfter(Ping, "server", "client", 2)'
  <2>1. queue'["server"] \in {<<>>, <<Ping>>}
    BY <1>8
  <2>2. got'["server"] = <<>> /\ at'["client"] > 2
    BY <1>1, <1>3, <1>5
  <2> QED
    BY <2>1, <2>2 DEF OnlyAfter
<1>10. OnlyAfter(Pong, "client", "server", 3)'
  BY <1>1, <1>3, <1>4, <1>7 DEF OnlyAfter, Pong
<1>11. Answerable'
  BY <1>3 DEF Answerable
<1>12. Replied'
  <2>1. missed \subseteq missed'
    BY <1>2 DEF Deliver
  <2> QED
    BY <1>1, <1>3, <1>7, <2>1 DEF PingInv, Replied, Ended
<1> QED
  BY <1>9, <1>10, <1>11, <1>12 DEF PingInv

\* ...and the server answers the client: nobody else has greeted it.
LEMMA AnswerKeepsPing ==
  ASSUME PingConfig, SandboxInv, DataInv, PingInv, SendDatagram("server")
  PROVE  PingInv'
<1>0. /\ "client" \in Programs /\ "server" \in Programs
      /\ "8090" # "client" /\ NoPort # "client" /\ NoPort # "8090"
      /\ port["server"] # "client"
      /\ Running("server") /\ at["server"] > 1 => port["server"] = "8090"
      /\ ~ At("server", "send") /\ (At("server", "reply") => at["server"] = 3)
      /\ Instr("server") = Script["server"][at["server"]]
      /\ Script["server"][3].msg = Answer
  <2>1. "client" # "server"
    OBVIOUS
  <2> QED
    BY <2>1, PingIs, PingAt, PingPorts
<1>1. /\ At("server", "reply") /\ at["server"] = 3 /\ UNCHANGED <<got, child>>
      /\ Instr("server").msg = Answer
      /\ port["server"] = "8090"
  BY <1>0 DEF SendDatagram, At, runnerVars
<1>2. /\ at' = [at EXCEPT !["server"] = at["server"] + 1]
      /\ port' = [port EXCEPT !["server"] = IF port["server"] = NoPort THEN "server"
                                            ELSE port["server"]]
      /\ Deliver("server", Target("server"), Answer)
  BY <1>1 DEF SendDatagram, AutoBind, Advance
<1>3. /\ at'["server"] = 4 /\ at'["client"] = at["client"]
      /\ port'["client"] = port["client"] /\ port'["server"] = "8090"
  BY <1>0, <1>1, <1>2 DEF SandboxInv, SandboxType
<1>4. OnlyAfter(Ping, "server", "client", 2) /\ OnlyAfter(Pong, "client", "server", 3)
  BY DEF PingInv
<1>5. queue["client"] = <<>> /\ got["client"] = <<>>
  BY <1>1, <1>4 DEF OnlyAfter
<1>6. got["server"] = <<Ping>> /\ Target("server") = "client"
  <2>1. Len(got["server"]) = 1 /\ Target("server") = got["server"][1].from
    BY <1>0, <1>1, PingScriptsOK, AnswersSomebody
  <2>2. got["server"] = <<Ping>>
    BY <1>4, <2>1 DEF OnlyAfter
  <2>3. <<Ping>>[1] = Ping
    OBVIOUS
  <2>4. Ping.from = "client"
    BY DEF Ping
  <2> QED
    BY <2>1, <2>2, <2>3, <2>4
<1>7. [from |-> port'["server"], msg |-> Answer] = Pong
  BY <1>3 DEF Pong
<1>8. Deliver("server", "client", Answer)
  BY <1>2, <1>6
<1>9. queue'["server"] = queue["server"]
  BY <1>0, <1>8, DeliverReaches, ZenonT(40)
<1>10. queue'["client"] = <<>> \/ queue'["client"] = <<Pong>>
  <2>1. queue'["client"] = queue["client"] \/ queue'["client"] = Append(queue["client"], Pong)
    BY <1>0, <1>7, <1>8, DeliverReaches
  <2> QED
    BY <1>5, <2>1
<1>11. OnlyAfter(Ping, "server", "client", 2)'
  BY <1>1, <1>3, <1>4, <1>9 DEF OnlyAfter, Ping
<1>12. OnlyAfter(Pong, "client", "server", 3)'
  <2>1. queue'["client"] \in {<<>>, <<Pong>>}
    BY <1>10
  <2>2. got'["client"] = <<>> /\ at'["server"] > 3
    BY <1>1, <1>3, <1>5
  <2> QED
    BY <2>1, <2>2 DEF OnlyAfter
<1>13. Answerable'
  BY <1>1, <1>3, <1>9 DEF PingInv, Answerable, Running
<1>14. "client" \in missed' \/ queue'["client"] # <<>>
  <2>1. "client" \in AllPorts /\ "client" \in MeantFor["client"]
    BY <1>0 DEF AllPorts, MeantFor
  <2>2. At("client", "receive") => Listens("client", "client")
    <3>1. "client" \notin Groups
      BY DEF PingConfig
    <3>2. got["server"] # <<>>
      BY <1>6
    <3>3. At("client", "receive") => port["client"] = "client"
      BY <3>2 DEF PingInv, Answerable, At
    <3> QED
      BY <3>1, <3>3 DEF Listens
  <2> QED
    BY <1>0, <1>8, <2>1, <2>2, DeliverSettles
<1>15. Replied'
  BY <1>14 DEF Replied
<1> QED
  BY <1>11, <1>12, <1>13, <1>15 DEF PingInv

\* A datagram is taken from the queue, and there is no other.
LEMMA ReceiveKeepsPing ==
  ASSUME PingConfig, SandboxInv, DataInv, PingInv, NEW p \in Programs, ReceiveDatagram(p)
  PROVE  PingInv'
<1>1. /\ At(p, "receive") /\ queue[p] # <<>>
      /\ at' = [at EXCEPT ![p] = at[p] + 1]
      /\ got' = [got EXCEPT ![p] = Append(got[p], Head(queue[p]))]
      /\ queue' = [queue EXCEPT ![p] = Tail(queue[p])]
      /\ UNCHANGED <<child, missed, port>>
  BY DEF ReceiveDatagram, Advance, runnerVars, counters
<1>2. /\ Programs = {"server", "client"} /\ "client" # "server"
      /\ at["server"] \in 1 .. 4 /\ at["client"] \in 1 .. 4
      /\ At("server", "receive") => at["server"] = 2
      /\ At("client", "receive") => at["client"] = 3
  BY PingIs, PingAt
<1>3. OnlyAfter(Ping, "server", "client", 2) /\ OnlyAfter(Pong, "client", "server", 3)
  BY DEF PingInv
<1>4. ASSUME NEW d, queue[p] = <<d>>, got[p] = <<>>
      PROVE  queue'[p] = <<>> /\ got'[p] = <<d>>
  <2>1. Tail(<<d>>) = <<>> /\ Head(<<d>>) = d /\ Append(<<>>, d) = <<d>>
    OBVIOUS
  <2>2. queue'[p] = Tail(queue[p])
    BY <1>1 DEF SandboxInv, SandboxType
  <2>3. got'[p] = Append(got[p], Head(queue[p]))
    BY <1>1 DEF DataInv
  <2> QED
    BY <1>4, <2>1, <2>2, <2>3
<1>5. CASE p = "server"
  <2>1. /\ at["server"] = 2 /\ at'["server"] = 3 /\ at'["client"] = at["client"]
        /\ queue'["client"] = queue["client"] /\ got'["client"] = got["client"]
    BY <1>1, <1>2, <1>5 DEF SandboxInv, SandboxType, DataInv
  <2>2. queue["server"] = <<Ping>> /\ got["server"] = <<>> /\ at["client"] > 2
    BY <1>1, <1>3, <1>5 DEF OnlyAfter
  <2>3. queue'["server"] = <<>> /\ got'["server"] = <<Ping>>
    BY <1>4, <1>5, <2>2
  <2>4. queue["client"] = <<>> /\ got["client"] = <<>>
    BY <1>3, <2>1 DEF OnlyAfter
  <2>5. OnlyAfter(Ping, "server", "client", 2)'
    BY <2>1, <2>2, <2>3 DEF OnlyAfter
  <2>6. OnlyAfter(Pong, "client", "server", 3)'
    BY <2>1, <2>4 DEF OnlyAfter
  <2>7. Answerable'
    BY <1>1, <2>2 DEF PingInv, Answerable, Running
  <2>8. Replied'
    BY <2>1 DEF Replied
  <2> QED
    BY <2>5, <2>6, <2>7, <2>8 DEF PingInv
<1>6. CASE p = "client"
  <2>1. /\ at["client"] = 3 /\ at'["client"] = 4 /\ at'["server"] = at["server"]
        /\ queue'["server"] = queue["server"] /\ got'["server"] = got["server"]
    BY <1>1, <1>2, <1>6 DEF SandboxInv, SandboxType, DataInv
  <2>2. queue["client"] = <<Pong>> /\ got["client"] = <<>> /\ at["server"] > 3
    BY <1>1, <1>3, <1>6 DEF OnlyAfter
  <2>3. queue'["client"] = <<>> /\ got'["client"] = <<Pong>>
    BY <1>4, <1>6, <2>2
  <2>4. OnlyAfter(Ping, "server", "client", 2)'
    BY <1>3, <2>1 DEF OnlyAfter
  <2>5. OnlyAfter(Pong, "client", "server", 3)'
    BY <2>1, <2>2, <2>3 DEF OnlyAfter
  <2>6. Answerable'
    BY <1>1, <2>1 DEF PingInv, Answerable, Running
  <2>7. Replied'
    BY <2>3 DEF Replied
  <2> QED
    BY <2>4, <2>5, <2>6, <2>7 DEF PingInv
<1> QED
  BY <1>2, <1>5, <1>6

LEMMA PingStep ==
  ASSUME PingConfig, SandboxInv, RunnerInv, DataInv, PingInv, [Next]_vars
  PROVE  PingInv'
<1>1. Programs = {"server", "client"} /\ at["server"] \in Nat /\ at["client"] \in Nat
  BY PingIs, PingAt
<1>2. ScriptsOK
  BY PingScriptsOK
<1>3. CASE (RunnerMain \/ Interrupt) /\ UNCHANGED udpVars
  <2>1. UNCHANGED <<at, queue, got, missed, port>>
    BY <1>3 DEF udpVars, sockets, counters
  <2>2. child'["client"] = child["client"]
        \/ (child["client"] = "none" /\ child'["client"] = "running")
    BY <1>1, <1>3, RunnerStarts
  <2>3. child["client"] = "none" => at["client"] = 1
    BY <1>1 DEF SandboxInv, NotStarted
  <2>4. Ended("client") => Ended("client")'
    BY <2>2 DEF Ended, ExitCodes
  <2>5. Running("client")' /\ at["client"] > 2 => Running("client")
    BY <1>1, <2>2, <2>3 DEF Running
  <2> QED
    BY <1>1, <2>1, <2>4, <2>5, QuietKeepsPing
<1>4. ASSUME NEW p \in Programs, NEW code \in ExitCodes, Finish(p, code), missed' = missed
      PROVE  PingInv'
  <2>1. /\ child' = [child EXCEPT ![p] = code] /\ child = [q \in Programs |-> child[q]]
        /\ at' = at /\ got' = got
        /\ port' = [port EXCEPT ![p] = NoPort]
        /\ queue' = [queue EXCEPT ![p] = <<>>]
    BY <1>4 DEF Finish, End, RunnerInv, RunnerType
  <2>2. \A q \in Programs : queue'[q] = queue[q] \/ (queue'[q] = <<>> /\ Ended(q)')
    BY <2>1 DEF SandboxInv, SandboxType, Ended
  <2>3. Ended("client") => Ended("client")'
    BY <1>1, <2>1 DEF Ended
  <2>4. Running("client")' => Running("client") /\ port'["client"] = port["client"]
    BY <1>1, <2>1 DEF Running, ExitCodes, SandboxInv, SandboxType
  <2> QED
    BY <1>1, <1>4, <2>1, <2>2, <2>3, <2>4, QuietKeepsPing
<1>5. ASSUME NEW p \in Programs, Step(p) \/ Killed(p) \/ FaultSeen(p) \/ FaultUnseen(p)
      PROVE  PingInv'
  <2>1. CASE BindFails(p) \/ Killed(p) \/ ExitZero(p) \/ FaultSeen(p)
    BY <1>4, <2>1 DEF BindFails, Killed, ExitZero, FaultSeen, ExitCodes, counters
  <2>2. CASE OpenSocket(p) \/ BindPort(p) \/ JoinGroup(p) \/ FaultUnseen(p)
    <3>1. /\ UNCHANGED <<queue, got, child>> /\ missed \subseteq missed'
          /\ at' = [at EXCEPT ![p] = at[p] + 1]
      BY <2>2 DEF OpenSocket, BindPort, JoinGroup, FaultUnseen, Advance, runnerVars, sockets,
         counters
    <3>2. /\ at'["server"] \in Nat /\ at'["server"] >= at["server"]
          /\ at'["client"] \in Nat /\ at'["client"] >= at["client"]
      BY <1>1, <3>1 DEF SandboxInv, SandboxType
    <3>3. port'["client"] = port["client"]
      <4>1. CASE BindPort(p)
        <5>1. p # "client"
          BY <4>1, PingAt DEF BindPort
        <5> QED
          BY <1>1, <4>1, <5>1 DEF BindPort, SandboxInv, SandboxType
      <4> QED
        BY <2>2, <4>1 DEF OpenSocket, JoinGroup, FaultUnseen, sockets
    <3>4. at'["server"] > 3 => at["server"] > 3 \/ "client" \in missed'
      <4>1. CASE FaultUnseen(p) /\ p = "server"
        <5>1. /\ At("server", "reply") /\ missed' = missed \cup MeantFor[Target("server")]
          BY <4>1, PingAt DEF FaultUnseen
        <5>2. Target("server") = "client"
          <6>1. Len(got["server"]) = 1 /\ Target("server") = got["server"][1].from
            BY <1>1, <1>2, <5>1, AnswersSomebody
          <6>2. got["server"] = <<Ping>>
            BY <6>1 DEF PingInv, OnlyAfter
          <6>3. <<Ping>>[1] = Ping /\ Ping.from = "client"
            BY DEF Ping
          <6> QED
            BY <6>1, <6>2, <6>3
        <5>3. "client" \in MeantFor["client"]
          BY <1>1 DEF AllPorts, MeantFor
        <5> QED
          BY <5>1, <5>2, <5>3
      <4>2. CASE p = "client"
        BY <1>1, <3>1, <4>2 DEF SandboxInv, SandboxType
      <4>3. CASE p = "server" /\ ~ FaultUnseen(p)
        <5>1. at["server"] # 3
          BY <2>2, <4>3, PingIs, PingAt DEF OpenSocket, BindPort, JoinGroup, At
        <5> QED
          BY <1>1, <3>1, <4>3, <5>1 DEF SandboxInv, SandboxType
      <4> QED
        BY <1>1, <4>1, <4>2, <4>3
    <3> QED
      BY <3>1, <3>2, <3>3, <3>4, QuietKeepsPing DEF Ended, Running
  <2>3. CASE SendDatagram(p)
    <3>1. CASE p = "client"
      BY <2>3, <3>1, GreetKeepsPing
    <3>2. CASE p = "server"
      BY <2>3, <3>2, AnswerKeepsPing
    <3> QED
      BY <1>1, <3>1, <3>2
  <2>4. CASE ReceiveDatagram(p)
    BY <2>4, ReceiveKeepsPing
  <2> QED
    BY <1>5, <2>1, <2>2, <2>3, <2>4 DEF Step
<1>6. CASE UNCHANGED vars
  <2>1. UNCHANGED <<at, queue, got, missed, port, child>>
    BY <1>6 DEF vars, runnerVars, udpVars, sockets, counters
  <2> QED
    BY <1>1, <2>1, QuietKeepsPing DEF Ended, Running
<1> QED
  BY <1>3, <1>5, <1>6 DEF Next

\* Greeting and answer follow each other, whatever is dropped, fails or is interrupted.
THEOREM PingInvariant == ASSUME PingConfig PROVE Spec => []PingInv
<1>1. Init => PingInv
  BY PingInitOK
<1>2. SandboxInv /\ RunnerInv /\ DataInv /\ PingInv /\ [Next]_vars => PingInv'
  BY PingStep
<1>3. Spec => []SandboxInv /\ []DataInv
  BY PingScriptsOK, SandboxInvariant, DataInvariant
<1> QED
  BY <1>1, <1>2, <1>3, ImplementsRunner, RunnerInvariant, PTL DEF Spec

\* The client prints an answer only if the server has its greeting.
THEOREM NoPongBeforePing == ASSUME PingConfig PROVE Spec => []PongAfterPing
<1>1. ASSUME PingConfig, SandboxInv, DataInv, PingInv PROVE PongAfterPing
  <2> SUFFICES ASSUME got["client"] # <<>>
               PROVE  got["client"] = <<Pong>> /\ got["server"] = <<Ping>>
    BY DEF PongAfterPing, Ping, Pong
  <2>1. got["client"] = <<Pong>> /\ at["server"] > 3
    BY <1>1 DEF PingInv, OnlyAfter
  <2>2. Is("server", 2, "receive") /\ 2 \in 1 .. at["server"] - 1
    <3>1. at["server"] = 4 /\ 2 \in 1 .. 4
      BY <1>1, <2>1, PingAt
    <3> QED
      BY <1>1, <3>1, PingIs DEF Is
  <2>3. Len(got["server"]) = 1
    <3>1. "server" \in Programs
      BY <1>1, PingIs
    <3> QED
      BY <1>1, <2>2, <3>1 DEF DataInv, Counted, HasReceived
  <2>4. OnlyAfter(Ping, "server", "client", 2)
    BY <1>1 DEF PingInv
  <2>5. got["server"] = <<Ping>>
    BY <2>3, <2>4 DEF OnlyAfter
  <2> QED
    BY <2>1, <2>5
<1>2. Spec => []SandboxInv /\ []DataInv
  BY PingScriptsOK, SandboxInvariant, DataInvariant
<1> QED
  BY <1>1, <1>2, PingInvariant, PTL

\* The two programs wait for each other only after a datagram was missed, or after one of
\* them did not end well: the exchange cannot come to a standstill by itself.
THEOREM StandstillAlwaysHasCause == ASSUME PingConfig PROVE Spec => []StandstillHasCause
<1>1. ASSUME PingConfig, RunnerInv, SandboxInv, DataInv, PingInv PROVE StandstillHasCause
  <2> SUFFICES ASSUME launched = Len(Order), \E p \in Programs : Running(p),
                      \A p \in Programs : Running(p) => At(p, "receive") /\ queue[p] = <<>>,
                      missed = {}, \A p \in Programs : child[p] \notin {"failure", "killed"}
               PROVE  FALSE
    BY DEF StandstillHasCause
  <2>1. /\ Programs = {"server", "client"} /\ "client" # "server"
        /\ at["server"] \in 1 .. 4 /\ at["client"] \in 1 .. 4
        /\ At("server", "receive") => at["server"] = 2
        /\ At("client", "receive") => at["client"] = 3
    BY <1>1, PingIs, PingAt
  <2>2. \A p \in Programs : child[p] # "none"
    <3> SUFFICES ASSUME NEW p \in Programs PROVE child[p] # "none"
      OBVIOUS
    <3>1. PICK i \in 1 .. Len(Order) : p = Order[i]
      BY OrderFacts
    <3>2. i \in DOMAIN Order /\ ~ (i > launched)
      BY OrderFacts, <3>1
    <3> QED
      BY <1>1, <3>1, <3>2 DEF RunnerInv, Started
  <2>3. \A p \in Programs : Running(p) \/ child[p] = "zero"
    BY <1>1, <2>2 DEF Running, RunnerInv, RunnerType, ExitCodes
  <2>4. \A p \in Programs : child[p] = "zero" => at[p] = 4
    BY <1>1, <2>1, PingIs DEF DataInv, AtTheEnd, Is
  <2>5. ~ Running("server")
    <3> SUFFICES ASSUME Running("server") PROVE FALSE
      OBVIOUS
    <3>1. at["server"] = 2 /\ queue["server"] = <<>> /\ ~ HasReceived("server")
      BY <1>1, <2>1, PingScriptsOK, FirstReceive
    <3>2. at["client"] > 2
      BY <2>1, <2>3, <2>4
    <3>3. Is("client", 2, "send") /\ Script["client"][2].to = "8090" /\ 2 \in 1 .. at["client"] - 1
      <4>1. 2 \in 1 .. 4
        OBVIOUS
      <4> QED
        BY <1>1, <2>1, <3>2, <4>1, PingIs DEF Is
    <3>4. "server" \in MeantFor["8090"]
      <4>1. 1 \in DOMAIN Script["server"] /\ "8090" \in AllPorts
        BY <1>1, PingIs DEF AllPorts, PingConfig
      <4> QED
        BY <1>1, <2>1, <4>1, PingIs DEF MeantFor
    <3>5. Settled("server")
      BY <1>1, <2>1, <3>3, <3>4, PingScriptsOK DEF SandboxInv, Accounted
    <3> QED
      BY <3>1, <3>5 DEF Settled, Running, Ended, ExitCodes
  <2>6. at["server"] = 4 /\ Running("client")
    BY <2>1, <2>3, <2>4, <2>5
  <2>7. queue["client"] = <<>> /\ at["client"] = 3 /\ ~ HasReceived("client")
    BY <1>1, <2>1, <2>6, PingScriptsOK, FirstReceive
  <2>8. got["client"] = <<>>
    <3>1. Len(got["client"]) = 0
      BY <1>1, <2>1, <2>7 DEF DataInv, Counted
    <3>2. got["client"] = <<>> \/ got["client"] = <<Pong>>
      BY <1>1 DEF PingInv, OnlyAfter
    <3> QED
      BY <3>1, <3>2
  <2> QED
    BY <1>1, <2>6, <2>7, <2>8 DEF PingInv, Replied, Running, Ended, ExitCodes
<1>2. Spec => []SandboxInv /\ []DataInv
  BY PingScriptsOK, SandboxInvariant, DataInvariant
<1> QED
  BY <1>1, <1>2, PingInvariant, ImplementsRunner, RunnerInvariant, PTL

----------------------------------------------------------------------------
\* The host opens its socket, writes to each of its ports, and ends.
LEMMA HostScriptIs ==
  ASSUME UnicastPorts \in Seq(Ports)
  PROVE  /\ DOMAIN HostScript = 1 .. Len(UnicastPorts) + 3
         /\ HostScript[1] = Op("open")
         /\ \A i \in 1 .. Len(UnicastPorts) :
              HostScript[i + 1] = SendOp(UnicastPorts[i], UnicastPorts[i], TRUE)
         /\ HostScript[Len(UnicastPorts) + 2] = SendOp(MulticastPort, GroupGreeting, TRUE)
         /\ HostScript[Len(UnicastPorts) + 3] = Op("exit")
<1> DEFINE n == Len(UnicastPorts)
           body == [i \in DOMAIN UnicastPorts |->
                      SendOp(UnicastPorts[i], UnicastPorts[i], TRUE)]
           last == SendOp(MulticastPort, GroupGreeting, TRUE)
           S == {Op("open"), Op("exit"), last} \cup {body[i] : i \in DOMAIN UnicastPorts}
<1>1. n \in Nat /\ DOMAIN UnicastPorts = 1 .. n
  OBVIOUS
<1>2. \A i \in 1 .. n : body[i] = SendOp(UnicastPorts[i], UnicastPorts[i], TRUE)
  BY <1>1
<1>3. /\ body \in Seq(S) /\ Len(body) = n
      /\ <<Op("open")>> \in Seq(S) /\ <<last, Op("exit")>> \in Seq(S)
      /\ Len(<<last, Op("exit")>>) = 2 /\ Len(<<Op("open")>>) = 1
      /\ <<Op("open")>>[1] = Op("open")
      /\ <<last, Op("exit")>>[1] = last /\ <<last, Op("exit")>>[2] = Op("exit")
  <2> HIDE DEF last
  <2>1. \A i \in 1 .. n : body[i] \in S
    BY <1>1
  <2>2. body = [i \in 1 .. n |-> body[i]]
    BY <1>1
  <2> HIDE DEF body, S, n
  <2>3. body \in Seq(S) /\ Len(body) = n
    BY <1>1, <2>1, <2>2
  <2>4. {Op("open"), Op("exit"), last} \subseteq S
    BY DEF S
  <2> QED
    BY <2>3, <2>4
<1> HIDE DEF body, last, S, n
<1>4. HostScript = (<<Op("open")>> \o body) \o <<last, Op("exit")>>
  BY DEF HostScript, body, last
<1>5. /\ <<Op("open")>> \o body \in Seq(S) /\ Len(<<Op("open")>> \o body) = n + 1
      /\ (<<Op("open")>> \o body)[1] = Op("open")
      /\ \A i \in 1 .. n : (<<Op("open")>> \o body)[i + 1] = body[i]
  BY <1>1, <1>3, ConcatProperties
<1>6. HostScript \in Seq(S) /\ Len(HostScript) = n + 3
  BY <1>1, <1>3, <1>4, <1>5, ConcatProperties
<1>7. \A i \in 1 .. n + 1 : HostScript[i] = (<<Op("open")>> \o body)[i]
  BY <1>1, <1>3, <1>4, <1>5, ConcatProperties
<1>8. HostScript[n + 2] = last /\ HostScript[n + 3] = Op("exit")
  BY <1>1, <1>3, <1>4, <1>5, ConcatProperties
<1>9. HostScript[1] = Op("open") /\ \A i \in 1 .. n : HostScript[i + 1] = body[i]
  BY <1>1, <1>5, <1>7
<1>10. DOMAIN HostScript = 1 .. n + 3
  BY <1>1, <1>6
<1> QED
  BY <1>2, <1>8, <1>9, <1>10 DEF n, last

\* What the host does at each place of its script.
LEMMA HostOps ==
  ASSUME UnicastPorts \in Seq(Ports)
  PROVE  /\ Len(UnicastPorts) + 3 \in Nat
         /\ DOMAIN HostScript = 1 .. Len(UnicastPorts) + 3
         /\ HostScript[Len(UnicastPorts) + 3].op = "exit"
         /\ \A i \in DOMAIN HostScript :
              \/ HostScript[i].op = "open"
              \/ HostScript[i].op = "exit" /\ i = Len(UnicastPorts) + 3
              \/ /\ HostScript[i].op = "send"
                 /\ \/ /\ HostScript[i].to \in Range(UnicastPorts)
                       /\ HostScript[i].msg = HostScript[i].to
                    \/ /\ HostScript[i].to = MulticastPort
                       /\ HostScript[i].msg = GroupGreeting
<1> DEFINE n == Len(UnicastPorts)
           greeting(i) == SendOp(UnicastPorts[i], UnicastPorts[i], TRUE)
           last == SendOp(MulticastPort, GroupGreeting, TRUE)
<1>0. /\ DOMAIN HostScript = 1 .. n + 3
      /\ HostScript[1] = Op("open") /\ HostScript[n + 3] = Op("exit")
      /\ \A i \in 1 .. n : HostScript[i + 1] = greeting(i)
      /\ HostScript[n + 2] = last
  BY HostScriptIs
<1>1. n \in Nat /\ \A i \in 1 .. n : UnicastPorts[i] \in Range(UnicastPorts)
  BY DEF Range
<1>2. \A i \in 1 .. n : /\ greeting(i).op = "send" /\ greeting(i).to = UnicastPorts[i]
                        /\ greeting(i).msg = UnicastPorts[i]
  BY DEF SendOp
<1>3. /\ last.op = "send" /\ last.to = MulticastPort /\ last.msg = GroupGreeting
      /\ Op("open").op = "open" /\ Op("exit").op = "exit"
  BY DEF SendOp, Op
<1> HIDE DEF n, greeting, last
<1>4. /\ HostScript[1].op = "open" /\ HostScript[n + 3].op = "exit"
      /\ HostScript[n + 2].op = "send" /\ HostScript[n + 2].to = MulticastPort
      /\ HostScript[n + 2].msg = GroupGreeting
  BY <1>0, <1>3
<1>5. \A i \in 1 .. n : /\ HostScript[i + 1].op = "send"
                        /\ HostScript[i + 1].to = UnicastPorts[i]
                        /\ HostScript[i + 1].msg = UnicastPorts[i]
  BY <1>0, <1>2
<1>6. \A i \in 1 .. n + 3 : i = 1 \/ i = n + 2 \/ i = n + 3 \/ i - 1 \in 1 .. n
  BY <1>1
<1>7. \A i \in 2 .. n + 1 : /\ HostScript[i].op = "send"
                            /\ HostScript[i].to \in Range(UnicastPorts)
                            /\ HostScript[i].msg = HostScript[i].to
  <2> SUFFICES ASSUME NEW i \in 2 .. n + 1
               PROVE  /\ HostScript[i].op = "send"
                      /\ HostScript[i].to \in Range(UnicastPorts)
                      /\ HostScript[i].msg = HostScript[i].to
    OBVIOUS
  <2>1. i - 1 \in 1 .. n /\ (i - 1) + 1 = i
    BY <1>1
  <2>2. /\ HostScript[(i - 1) + 1].op = "send"
        /\ HostScript[(i - 1) + 1].to = UnicastPorts[i - 1]
        /\ HostScript[(i - 1) + 1].msg = UnicastPorts[i - 1]
    BY <1>5, <2>1
  <2> QED
    BY <1>1, <2>1, <2>2
<1>8. ASSUME NEW i \in 1 .. n + 3
      PROVE  \/ HostScript[i].op = "open"
             \/ HostScript[i].op = "exit" /\ i = n + 3
             \/ /\ HostScript[i].op = "send"
                /\ \/ /\ HostScript[i].to \in Range(UnicastPorts)
                      /\ HostScript[i].msg = HostScript[i].to
                   \/ /\ HostScript[i].to = MulticastPort
                      /\ HostScript[i].msg = GroupGreeting
  <2>1. CASE i - 1 \in 1 .. n
    <3>1. i \in 2 .. n + 1
      BY <1>1, <2>1
    <3> QED
      BY <1>7, <3>1
  <2> QED
    BY <1>4, <1>6, <2>1
<1>9. n + 3 \in Nat
  BY <1>1
<1> QED
  BY <1>0, <1>4, <1>8, <1>9 DEF n

\* The host writes to each of its ports once.
LEMMA HostSendsOnce ==
  ASSUME UnicastPorts \in Seq(Ports), IsInjective(UnicastPorts),
         MulticastPort \notin Range(UnicastPorts),
         NEW i \in DOMAIN HostScript, NEW j \in DOMAIN HostScript,
         HostScript[i].op = "send", HostScript[j].op = "send",
         HostScript[i].to = HostScript[j].to
  PROVE  i = j
<1> DEFINE n == Len(UnicastPorts)
           greeting(k) == SendOp(UnicastPorts[k], UnicastPorts[k], TRUE)
           last == SendOp(MulticastPort, GroupGreeting, TRUE)
<1>0. /\ DOMAIN HostScript = 1 .. n + 3
      /\ HostScript[1] = Op("open") /\ HostScript[n + 3] = Op("exit")
      /\ \A k \in 1 .. n : HostScript[k + 1] = greeting(k)
      /\ HostScript[n + 2] = last
  BY HostScriptIs
<1>1. n \in Nat /\ DOMAIN UnicastPorts = 1 .. n
  OBVIOUS
<1>2. /\ Op("open").op = "open" /\ Op("exit").op = "exit"
      /\ last.to = MulticastPort /\ \A k \in 1 .. n : greeting(k).to = UnicastPorts[k]
  BY DEF Op, SendOp
<1> HIDE DEF n, greeting, last
<1>3. ASSUME NEW k \in DOMAIN HostScript, HostScript[k].op = "send"
      PROVE  \/ k - 1 \in 1 .. n /\ HostScript[k].to = UnicastPorts[k - 1]
             \/ k = n + 2 /\ HostScript[k].to = MulticastPort
  <2>1. k # 1 /\ k # n + 3
    BY <1>0, <1>2, <1>3
  <2>2. CASE k - 1 \in 1 .. n
    <3>1. HostScript[(k - 1) + 1] = greeting(k - 1)
      BY <1>0, <2>2
    <3>2. (k - 1) + 1 = k
      BY <1>0, <1>1
    <3>3. HostScript[k].to = UnicastPorts[k - 1]
      BY <1>2, <2>2, <3>1, <3>2
    <3> QED
      BY <2>2, <3>3
  <2>3. CASE k = n + 2
    BY <1>0, <1>2, <2>3
  <2> QED
    BY <1>0, <1>1, <2>1, <2>2, <2>3
<1>4. \A k \in 1 .. n : UnicastPorts[k] # MulticastPort
  BY <1>1 DEF Range
<1>5. \A k, l \in 1 .. n : UnicastPorts[k] = UnicastPorts[l] => k = l
  BY <1>1 DEF IsInjective
<1>6. \/ i - 1 \in 1 .. n /\ HostScript[i].to = UnicastPorts[i - 1]
      \/ i = n + 2 /\ HostScript[i].to = MulticastPort
  BY <1>3
<1>7. \/ j - 1 \in 1 .. n /\ HostScript[j].to = UnicastPorts[j - 1]
      \/ j = n + 2 /\ HostScript[j].to = MulticastPort
  BY <1>3
<1>8. CASE i - 1 \in 1 .. n /\ j - 1 \in 1 .. n
  <2>1. i - 1 = j - 1
    BY <1>1, <1>4, <1>5, <1>6, <1>7, <1>8
  <2> QED
    BY <1>1, <2>1
<1> QED
  BY <1>1, <1>4, <1>6, <1>7, <1>8

\* The parameters of udp-many, for any number of clients and any ports.
ManyConfig(unicast, ports, multicast, shared_port) ==
  /\ Script = ManyScript(unicast, ports, multicast, shared_port)
  /\ Programs = {Host} \cup Range(unicast) \cup Range(multicast)
  /\ Host \notin Range(unicast) \cup Range(multicast)
  /\ Range(unicast) \cap Range(multicast) = {}
  /\ \A i, j \in DOMAIN unicast : unicast[i] = unicast[j] => i = j
  /\ \A i \in DOMAIN unicast : ports[i] \in Ports
  /\ shared_port \in Ports
  /\ UnicastPorts \in Seq(Ports) /\ IsInjective(UnicastPorts)
  /\ MulticastPort \in Ports \ Range(UnicastPorts)
  /\ Groups = ManyGroups

\* What the programs do at each place of their scripts.
LEMMA UnicastIs ==
  ASSUME NEW unicast, NEW ports, NEW multicast, NEW shared_port,
         ManyConfig(unicast, ports, multicast, shared_port), NEW c \in DOMAIN unicast,
         NEW p, p = unicast[c]
  PROVE  /\ p \in Programs /\ p \in Range(unicast)
         /\ DOMAIN Script[p] = 1 .. 3 /\ Is(p, 3, "exit")
         /\ Is(p, 1, "bind") /\ Script[p][1].to = ports[c] /\ ~ Script[p][1].share
         /\ Is(p, 2, "receive")
         /\ \A i \in 1 .. 3 : /\ Is(p, i, "bind") => i = 1
                              /\ Is(p, i, "receive") => i = 2
                              /\ Is(p, i, "exit") => i = 3
                              /\ ~ Is(p, i, "send") /\ ~ Is(p, i, "reply")
<1>1. p \in Range(unicast) /\ p \in Programs /\ p # Host
  BY DEF ManyConfig, Range
<1>2. (CHOOSE i \in DOMAIN unicast : unicast[i] = p) = c
  BY DEF ManyConfig
<1>3. Script[p] = UnicastClientScript(ports[c])
  BY <1>1, <1>2 DEF ManyConfig, ManyScript
<1>4. DOMAIN Script[p] = 1 .. 3
  BY <1>3 DEF UnicastClientScript
<1>5. Script[p][1] = BindOp(ports[c], FALSE) /\ Script[p][2] = Op("receive")
      /\ Script[p][3] = Op("exit")
  BY <1>3 DEF UnicastClientScript
<1>6. /\ BindOp(ports[c], FALSE).op = "bind" /\ BindOp(ports[c], FALSE).to = ports[c]
      /\ BindOp(ports[c], FALSE).share = FALSE
  BY DEF BindOp
<1>7. Op("receive").op = "receive" /\ Op("exit").op = "exit"
  BY DEF Op
<1>8. /\ Script[p][1].op = "bind" /\ Script[p][1].to = ports[c] /\ ~ Script[p][1].share
      /\ Script[p][2].op = "receive" /\ Script[p][3].op = "exit"
  BY <1>5, <1>6, <1>7
<1>9. \A i \in 1 .. 3 : i = 1 \/ i = 2 \/ i = 3
  OBVIOUS
<1> QED
  BY <1>1, <1>4, <1>8, <1>9 DEF Is

LEMMA MulticastIs ==
  ASSUME NEW unicast, NEW ports, NEW multicast, NEW shared_port,
         ManyConfig(unicast, ports, multicast, shared_port), NEW p \in Range(multicast)
  PROVE  /\ p \in Programs
         /\ DOMAIN Script[p] = 1 .. 4 /\ Is(p, 4, "exit") /\ Is(p, 2, "join")
         /\ Is(p, 1, "bind") /\ Script[p][1].to = shared_port /\ Script[p][1].share
         /\ Is(p, 3, "receive")
         /\ \A i \in 1 .. 4 : /\ Is(p, i, "bind") => i = 1
                              /\ Is(p, i, "receive") => i = 3
                              /\ Is(p, i, "exit") => i = 4
                              /\ ~ Is(p, i, "send") /\ ~ Is(p, i, "reply")
<1>1. p \in Programs /\ p # Host /\ p \notin Range(unicast)
  BY DEF ManyConfig
<1>2. Script[p] = MulticastClientScript(shared_port)
  BY <1>1 DEF ManyConfig, ManyScript
<1>3. DOMAIN Script[p] = 1 .. 4
  BY <1>2 DEF MulticastClientScript
<1>4. /\ Script[p][1] = BindOp(shared_port, TRUE) /\ Script[p][2] = Op("join")
      /\ Script[p][3] = Op("receive") /\ Script[p][4] = Op("exit")
  BY <1>2 DEF MulticastClientScript
<1>5. /\ BindOp(shared_port, TRUE).op = "bind" /\ BindOp(shared_port, TRUE).to = shared_port
      /\ BindOp(shared_port, TRUE).share
  BY DEF BindOp
<1>6. Op("join").op = "join" /\ Op("receive").op = "receive" /\ Op("exit").op = "exit"
  BY DEF Op
<1>7. /\ Script[p][1].op = "bind" /\ Script[p][1].to = shared_port /\ Script[p][1].share
      /\ Script[p][2].op = "join" /\ Script[p][3].op = "receive" /\ Script[p][4].op = "exit"
  BY <1>4, <1>5, <1>6
<1>8. \A i \in 1 .. 4 : i = 1 \/ i = 2 \/ i = 3 \/ i = 4
  OBVIOUS
<1> QED
  BY <1>1, <1>3, <1>7, <1>8 DEF Is

LEMMA HostIs ==
  ASSUME NEW unicast, NEW ports, NEW multicast, NEW shared_port,
         ManyConfig(unicast, ports, multicast, shared_port)
  PROVE  /\ Host \in Programs
         /\ \E n \in Nat : /\ n > 0 /\ DOMAIN Script[Host] = 1 .. n /\ Is(Host, n, "exit")
                           /\ \A i \in 1 .. n : Is(Host, i, "exit") => i = n
         /\ \A i : ~ Is(Host, i, "bind") /\ ~ Is(Host, i, "receive") /\ ~ Is(Host, i, "reply")
         /\ \A i : Is(Host, i, "send") =>
              /\ Script[Host][i].to \in Range(UnicastPorts) \cup {MulticastPort}
              /\ Script[Host][i].to \in Ports
              /\ Script[Host][i].msg = IF Script[Host][i].to = MulticastPort
                                       THEN GroupGreeting ELSE Script[Host][i].to
         /\ \A i, j : Is(Host, i, "send") /\ Is(Host, j, "send") /\
                      Script[Host][i].to = Script[Host][j].to => i = j
<1> DEFINE n == Len(UnicastPorts) + 3
<1>1. UnicastPorts \in Seq(Ports) /\ MulticastPort \in Ports \ Range(UnicastPorts)
      /\ IsInjective(UnicastPorts)
  BY DEF ManyConfig
<1>2. Range(UnicastPorts) \subseteq Ports
  BY <1>1 DEF Range
<1>3. Len(UnicastPorts) \in Nat
  BY <1>1
<1>4. n \in Nat /\ n > 0
  BY <1>3
<1>5. DOMAIN HostScript = 1 .. n /\ HostScript[n].op = "exit"
  BY <1>1, HostOps
<1>6. ASSUME NEW i \in DOMAIN HostScript
      PROVE  \/ HostScript[i].op = "open"
             \/ HostScript[i].op = "exit" /\ i = n
             \/ /\ HostScript[i].op = "send"
                /\ \/ /\ HostScript[i].to \in Range(UnicastPorts)
                      /\ HostScript[i].msg = HostScript[i].to
                   \/ /\ HostScript[i].to = MulticastPort
                      /\ HostScript[i].msg = GroupGreeting
  BY <1>1, <1>6, HostOps
<1> HIDE DEF n
<1>7. n \in 1 .. n
  BY <1>4
<1>8. Host \in Programs /\ Script[Host] = HostScript
  BY DEF ManyConfig, ManyScript
<1>9. Is(Host, n, "exit") /\ \A i \in 1 .. n : Is(Host, i, "exit") => i = n
  BY <1>5, <1>6, <1>7, <1>8 DEF Is
<1>10. \A i : ~ Is(Host, i, "bind") /\ ~ Is(Host, i, "receive") /\ ~ Is(Host, i, "reply")
  BY <1>6, <1>8 DEF Is
<1>11. ASSUME NEW i, Is(Host, i, "send")
       PROVE  /\ Script[Host][i].to \in Range(UnicastPorts) \cup {MulticastPort}
              /\ Script[Host][i].to \in Ports
              /\ Script[Host][i].msg = IF Script[Host][i].to = MulticastPort
                                       THEN GroupGreeting ELSE Script[Host][i].to
  <2>1. /\ i \in DOMAIN HostScript
        /\ \/ /\ HostScript[i].to \in Range(UnicastPorts)
              /\ HostScript[i].msg = HostScript[i].to
           \/ HostScript[i].to = MulticastPort /\ HostScript[i].msg = GroupGreeting
    BY <1>6, <1>8, <1>11 DEF Is
  <2> QED
    BY <1>1, <1>2, <1>8, <2>1
<1>12. ASSUME NEW i, NEW j, Is(Host, i, "send"), Is(Host, j, "send"),
              Script[Host][i].to = Script[Host][j].to
       PROVE  i = j
  <2>1. i \in DOMAIN HostScript /\ j \in DOMAIN HostScript
        /\ HostScript[i].op = "send" /\ HostScript[j].op = "send"
        /\ HostScript[i].to = HostScript[j].to
    BY <1>8, <1>12 DEF Is
  <2> QED
    BY <1>1, <2>1, HostSendsOnce
<1> QED
  BY <1>4, <1>5, <1>8, <1>9, <1>10, <1>11, <1>12

\* Every program is the host, a unicast client or a multicast client.
LEMMA ManyPrograms ==
  ASSUME NEW unicast, NEW ports, NEW multicast, NEW shared_port,
         ManyConfig(unicast, ports, multicast, shared_port), NEW p \in Programs
  PROVE  p = Host \/ p \in Range(multicast) \/ \E c \in DOMAIN unicast : p = unicast[c]
  BY DEF ManyConfig, Range

OwnPorts(unicast, ports, shared_port) ==
  /\ \A i \in DOMAIN unicast : ports[i] # shared_port
  /\ \A i, j \in DOMAIN unicast : ports[i] = ports[j] => i = j

\* The programs of udp-many, for any number of clients and any ports.  Clients share a port
\* only if they are multicast clients, as long as unicast clients have different ports, none
\* of them that of the multicast clients; and who waits for the group has joined it, as long
\* as no unicast client has its port.
THEOREM ManyScriptsOK ==
  ASSUME NEW unicast, NEW ports, NEW multicast, NEW shared_port,
         ManyConfig(unicast, ports, multicast, shared_port)
  PROVE  /\ ScriptsOK /\ NoReplies /\ SendsOnce
         /\ OwnPorts(unicast, ports, shared_port) => SharesPorts
         /\ (\A i \in DOMAIN unicast : ports[i] # MulticastPort) => JoinsGroups
<1>1. ScriptsEnd
  <2> SUFFICES ASSUME NEW p \in Programs
               PROVE  \E n \in Nat :
                        /\ n > 0 /\ DOMAIN Script[p] = 1 .. n /\ Is(p, n, "exit")
                        /\ \A i \in 1 .. n : Is(p, i, "exit") => i = n
    BY DEF ScriptsEnd
  <2>1. CASE \E c \in DOMAIN unicast : p = unicast[c]
    <3>1. /\ 3 \in Nat /\ 3 > 0 /\ DOMAIN Script[p] = 1 .. 3 /\ Is(p, 3, "exit")
          /\ \A i \in 1 .. 3 : Is(p, i, "exit") => i = 3
      BY <2>1, UnicastIs
    <3> QED
      BY <3>1
  <2>2. CASE p \in Range(multicast)
    <3>1. /\ 4 \in Nat /\ 4 > 0 /\ DOMAIN Script[p] = 1 .. 4 /\ Is(p, 4, "exit")
          /\ \A i \in 1 .. 4 : Is(p, i, "exit") => i = 4
      BY <2>2, MulticastIs
    <3> QED
      BY <3>1
  <2>3. CASE p = Host
    BY <2>3, HostIs
  <2> QED
    BY <2>1, <2>2, <2>3, ManyPrograms
<1>2. ASSUME NEW p \in Programs, NEW i \in DOMAIN Script[p]
      PROVE  ~ Is(p, i, "reply") /\ (Is(p, i, "send") => p = Host)
  BY <1>2, ManyPrograms, UnicastIs, MulticastIs, HostIs
<1>3. ASSUME NEW p \in Programs, NEW i \in DOMAIN Script[p], Is(p, i, "bind")
      PROVE  i = 1 /\ \/ p \in Range(multicast) /\ Script[p][1].to = shared_port
                                                /\ Script[p][1].share
                      \/ \E c \in DOMAIN unicast : p = unicast[c] /\ Script[p][1].to = ports[c]
  BY <1>3, ManyPrograms, UnicastIs, MulticastIs, HostIs
<1>4. NamesPorts
  <2>1. ASSUME NEW p \in Programs, NEW i \in DOMAIN Script[p], Is(p, i, "bind")
        PROVE  Script[p][i].to \in Ports
    BY <1>3, <2>1 DEF ManyConfig
  <2>2. ASSUME NEW p \in Programs, NEW i \in DOMAIN Script[p], Is(p, i, "send")
        PROVE  Script[p][i].to \in Ports
    BY <1>2, <2>2, HostIs
  <2> QED
    BY <2>1, <2>2 DEF NamesPorts
<1>5. BindsThenReceives
  <2>1. ASSUME NEW p \in Programs, NEW i \in DOMAIN Script[p], NEW k \in DOMAIN Script[p]
        PROVE  /\ Is(p, i, "bind") /\ Is(p, k, "bind") => i = k
               /\ Is(p, i, "receive") /\ Is(p, k, "receive") => i = k
               /\ Is(p, i, "bind") /\ Is(p, k, "receive") => i < k
    <3>1. CASE p = Host
      BY <3>1, HostIs
    <3>2. CASE p \in Range(multicast)
      BY <3>2, MulticastIs
    <3>3. CASE \E c \in DOMAIN unicast : p = unicast[c]
      BY <3>3, UnicastIs
    <3> QED
      BY <3>1, <3>2, <3>3, ManyPrograms
  <2> QED
    BY <2>1 DEF BindsThenReceives
<1>6. ScriptsOK /\ NoReplies
  BY <1>1, <1>2, <1>4, <1>5 DEF ScriptsOK, ReceivesThenReplies, NoReplies
<1>7. SendsOnce
  BY <1>2, HostIs DEF SendsOnce
<1>8. ASSUME OwnPorts(unicast, ports, shared_port) PROVE SharesPorts
  <2> SUFFICES ASSUME NEW p \in Programs, NEW q \in Programs,
                      NEW i \in DOMAIN Script[p], NEW j \in DOMAIN Script[q],
                      Is(p, i, "bind"), Is(q, j, "bind"), p # q,
                      Script[p][i].to = Script[q][j].to
               PROVE  Script[p][i].share /\ Script[q][j].share
    BY DEF SharesPorts
  <2>1. i = 1 /\ j = 1
    BY <1>3
  <2>2. CASE p \in Range(multicast) /\ q \in Range(multicast)
    BY <2>1, <2>2, MulticastIs
  <2>3. CASE \E c \in DOMAIN unicast : p = unicast[c]
    BY <1>3, <1>8, <2>1, <2>3, UnicastIs DEF OwnPorts
  <2>4. CASE \E c \in DOMAIN unicast : q = unicast[c]
    BY <1>3, <1>8, <2>1, <2>4, UnicastIs DEF OwnPorts
  <2> QED
    BY <1>3, <2>2, <2>3, <2>4
<1>9. ASSUME \A i \in DOMAIN unicast : ports[i] # MulticastPort PROVE JoinsGroups
  <2> SUFFICES ASSUME NEW p \in Programs,
                      NEW i \in DOMAIN Script[p], NEW k \in DOMAIN Script[p],
                      Is(p, i, "bind"), Is(p, k, "receive"), Script[p][i].to \in Groups
               PROVE  \E j \in 1 .. k - 1 : Is(p, j, "join")
    BY DEF JoinsGroups
  <2>1. Script[p][1].to = MulticastPort /\ i = 1
    BY <1>3 DEF ManyConfig, ManyGroups
  <2>2. p \in Range(multicast)
    BY <1>3, <1>9, <2>1
  <2>3. k = 3 /\ Is(p, 2, "join") /\ 2 \in 1 .. 3 - 1
    BY <2>2, MulticastIs
  <2> QED
    BY <2>3
<1> QED
  BY <1>6, <1>7, <1>8, <1>9

----------------------------------------------------------------------------
(***************************************************************************)
(* What the clients of udp-many receive.                                    *)
(***************************************************************************)
\* A client is bound, or will be, to the port of its first instruction.
PortOf(p) == Script[p][1].to

BoundTo(clients, ports) ==
  \A c \in DOMAIN clients :
    /\ clients[c] \in Programs
    /\ PortOf(clients[c]) = ports[c] /\ ~ Script[clients[c]][1].share

LEMMA UnicastPort ==
  ASSUME NEW unicast, NEW ports, NEW multicast, NEW shared_port,
         ManyConfig(unicast, ports, multicast, shared_port)
  PROVE  BoundTo(unicast, ports)
  BY UnicastIs DEF BoundTo, PortOf

\* Whatever comes to a client is the host's greeting for the client's port.
LEMMA ComesFromHost ==
  ASSUME NEW unicast, NEW ports, NEW multicast, NEW shared_port,
         ManyConfig(unicast, ports, multicast, shared_port), OriginInv,
         NEW p \in Programs, p # Host, NEW d \in Range(queue[p]) \cup Range(got[p])
  PROVE  /\ d.from = Host
         /\ d.msg = IF PortOf(p) = MulticastPort THEN GroupGreeting ELSE PortOf(p)
         /\ PortOf(p) \in Range(UnicastPorts) \cup {MulticastPort}
<1>1. PICK q \in Programs : \E i \in 1 .. at[q] - 1 : SentBy(d, p, q, i)
  BY DEF OriginInv, Origin
<1>2. PICK i \in 1 .. at[q] - 1 : SentBy(d, p, q, i)
  BY <1>1
<1>3. q = Host
  <2>1. Is(q, i, "send") /\ i \in DOMAIN Script[q]
    BY <1>2 DEF SentBy, Is
  <2> QED
    BY <2>1, ManyPrograms, UnicastIs, MulticastIs
<1>4. Is(Host, i, "send") /\ p \in MeantFor[Script[Host][i].to]
      /\ d.msg = Script[Host][i].msg /\ d.from \in Address(Host)
  BY <1>2, <1>3 DEF SentBy
<1>5. /\ Script[Host][i].to \in Range(UnicastPorts) \cup {MulticastPort}
      /\ Script[Host][i].to \in Ports
      /\ Script[Host][i].msg = IF Script[Host][i].to = MulticastPort
                               THEN GroupGreeting ELSE Script[Host][i].to
  BY <1>4, HostIs
<1>6. Address(Host) = {Host}
  BY HostIs DEF Address
<1>7. \E j \in DOMAIN Script[p] : Is(p, j, "bind") /\ Script[p][j].to = Script[Host][i].to
  BY <1>4, <1>5, PortFacts DEF MeantFor, AllPorts, Is
<1>8. \A j \in DOMAIN Script[p] : Is(p, j, "bind") => j = 1
  BY ManyPrograms, UnicastIs, MulticastIs
<1>9. PortOf(p) = Script[Host][i].to
  BY <1>7, <1>8 DEF PortOf
<1> QED
  BY <1>4, <1>5, <1>6, <1>9

Greeted(p) ==
  /\ Len(got[p]) <= 1
  /\ \A d \in Range(got[p]) :
       d.from = Host /\ d.msg = IF PortOf(p) = MulticastPort THEN GroupGreeting ELSE PortOf(p)

Greetings == \A p \in Programs \ {Host} : Greeted(p)

\* What a client receives is the greeting for the port that it is bound to, once, from the
\* host: whatever ports the clients have, and whatever the kernel drops.
THEOREM ManyGreets ==
  ASSUME NEW unicast, NEW ports, NEW multicast, NEW shared_port,
         ManyConfig(unicast, ports, multicast, shared_port)
  PROVE  Spec => []Greetings
<1>1. ASSUME DataInv, OriginInv, NEW p \in Programs \ {Host} PROVE Greeted(p)
  <2>1. Len(got[p]) <= 1
    <3>1. p \in Programs /\ Len(got[p]) = IF HasReceived(p) THEN 1 ELSE 0
      BY <1>1 DEF DataInv, Counted
    <3> HIDE DEF HasReceived
    <3> QED
      BY <3>1
  <2>2. \A d \in Range(got[p]) :
          /\ d.from = Host
          /\ d.msg = IF PortOf(p) = MulticastPort THEN GroupGreeting ELSE PortOf(p)
    BY <1>1, ComesFromHost
  <2> QED
    BY <2>1, <2>2 DEF Greeted
<1>2. DataInv /\ OriginInv => Greetings
  BY <1>1 DEF Greetings
<1>3. ScriptsOK /\ NoReplies /\ SendsOnce
  BY ManyScriptsOK
<1>4. Spec => []DataInv /\ []OriginInv
  BY <1>3, DataInvariant, OriginInvariant
<1> QED
  BY <1>2, <1>4, PTL

SuccessFits ==
  pc = "returned" /\ answer = "zero" =>
    /\ \A p \in Programs \ {Host} : PortOf(p) \in Range(UnicastPorts) \cup {MulticastPort}
    /\ \A p, q \in Programs \ {Host} :
         p # q /\ PortOf(p) = PortOf(q) => PortOf(p) = MulticastPort /\ Script[p][1].share

\* A runner that answers 0 has clients that are bound to ports of the host; and if two share
\* a port, it is that of the group, and both set SO_REUSEADDR.
THEOREM ManySucceeds ==
  ASSUME NEW unicast, NEW ports, NEW multicast, NEW shared_port,
         ManyConfig(unicast, ports, multicast, shared_port)
  PROVE  Spec => []SuccessFits
<1>1. ScriptsOK /\ NoReplies /\ SendsOnce
  BY ManyScriptsOK
<1>2. ASSUME DataInv, OriginInv, SuccessIsComplete
      PROVE  SuccessFits
  <2> SUFFICES ASSUME pc = "returned", answer = "zero"
               PROVE  /\ \A p \in Programs \ {Host} :
                           PortOf(p) \in Range(UnicastPorts) \cup {MulticastPort}
                      /\ \A p, q \in Programs \ {Host} :
                           p # q /\ PortOf(p) = PortOf(q) =>
                             PortOf(p) = MulticastPort /\ Script[p][1].share
    BY DEF SuccessFits
  <2>1. ASSUME NEW p \in Programs \ {Host}
        PROVE  Len(got[p]) = 1
    <3> DEFINE receives == {i \in DOMAIN Script[p] : Script[p][i].op = "receive"}
    <3>1. Len(got[p]) = Cardinality(receives)
      BY <1>2 DEF SuccessIsComplete
    <3>2. \E i : receives = {i}
      <4>1. CASE p \in Range(multicast)
        <5>1. receives = {3}
          BY <4>1, MulticastIs DEF Is
        <5> QED
          BY <5>1
      <4>2. CASE \E c \in DOMAIN unicast : p = unicast[c]
        <5>1. receives = {2}
          BY <4>2, UnicastIs DEF Is
        <5> QED
          BY <5>1
      <4> QED
        BY <4>1, <4>2, ManyPrograms
    <3>3. Cardinality(receives) = 1
      BY <3>2, FS_Singleton
    <3> QED
      BY <3>1, <3>3
  <2>2. ASSUME NEW p \in Programs \ {Host}
        PROVE  HasOne(p) /\ \E d : d \in Range(got[p])
    <3>1. got[p] # <<>> /\ got[p] \in Seq(Datagrams)
      <4>1. Len(got[p]) = 1 /\ got[p] \in Seq(Datagrams)
        BY <1>2, <2>1 DEF DataInv
      <4>2. Len(<<>>) = 0 /\ 1 # 0
        OBVIOUS
      <4> QED
        BY <4>1, <4>2
    <3>2. Head(got[p]) \in Range(got[p])
      BY <3>1, RangeOfTail
    <3> QED
      BY <3>1, <3>2 DEF HasOne
  <2>3. ASSUME NEW p \in Programs \ {Host}
        PROVE  PortOf(p) \in Range(UnicastPorts) \cup {MulticastPort}
    BY <1>2, <2>2, ComesFromHost
  <2>4. ASSUME NEW p \in Programs \ {Host}, NEW q \in Programs \ {Host}, p # q,
               PortOf(p) = PortOf(q)
        PROVE  PortOf(p) = MulticastPort /\ Script[p][1].share
    <3>1. PortOf(p) \in Ports
      <4>1. Range(UnicastPorts) \subseteq Ports
        BY DEF ManyConfig, Range
      <4> QED
        BY <2>3, <4>1 DEF ManyConfig
    <3>2. Is(p, 1, "bind") /\ Is(q, 1, "bind")
      BY ManyPrograms, UnicastIs, MulticastIs
    <3>3. p \in MeantFor[PortOf(p)] /\ q \in MeantFor[PortOf(p)]
      BY <2>4, <3>1, <3>2 DEF MeantFor, AllPorts, Is, PortOf
    <3>4. HasOne(p) /\ HasOne(q)
      BY <2>2
    <3>5. PortOf(p) \in Groups /\ BindsShared(p)
      BY <1>2, <2>4, <3>1, <3>3, <3>4 DEF OriginInv, Sole
    <3> QED
      BY <3>2, <3>5 DEF ManyConfig, ManyGroups, BindsShared, Is
  <2> QED
    BY <2>3, <2>4
<1>3. DataInv /\ OriginInv /\ SuccessIsComplete => SuccessFits
  BY <1>2
<1>4. Spec => []DataInv /\ []OriginInv /\ []SuccessIsComplete
  BY <1>1, DataInvariant, OriginInvariant, SuccessIsAlwaysComplete
<1> QED
  BY <1>3, <1>4, PTL

----------------------------------------------------------------------------
(***************************************************************************)
(* A runner that refuses its arguments starts no program.                   *)
(***************************************************************************)
Refused ==
  /\ pc \in {"check", "returned"} /\ answer # "zero"
  /\ child = [p \in Programs |-> "none"]
  /\ got = [p \in Programs |-> <<>>]

LEMMA RefusedAtFirst == Init => Refused
  BY DEF Init, RunnerInit, Refused

LEMMA RefusedStays ==
  ASSUME Refused, [Next]_vars, ~ (pc = "check" /\ pc' = "launch")
  PROVE  Refused'
<1>1. CASE RunnerMain /\ UNCHANGED udpVars
  <2>1. Check
    BY <1>1 DEF Refused, RunnerMain, Launch, Append1, LaunchFails, AllLaunched, SeeAllEnded,
       DeadlinePasses, Collect, StopNext, StopDone, EndSeen, GraceOver, KillNext, KillDone
  <2> QED
    BY <1>1, <2>1 DEF Check, Return, Refused, udpVars
<1>2. CASE Interrupt /\ UNCHANGED udpVars
  BY <1>2 DEF Interrupt, Return, Refused, udpVars
<1>3. ASSUME NEW p \in Programs, Step(p) \/ Killed(p) \/ FaultSeen(p) \/ FaultUnseen(p)
      PROVE  FALSE
  <2>1. Running(p)
    BY <1>3 DEF Step, OpenSocket, BindPort, BindFails, JoinGroup, SendDatagram,
       ReceiveDatagram, ExitZero, Killed, FaultSeen, FaultUnseen, At, Dies, End
  <2> QED
    BY <2>1 DEF Refused, Running
<1>4. CASE UNCHANGED vars
  BY <1>4 DEF vars, runnerVars, udpVars, Refused
<1> QED
  BY <1>1, <1>2, <1>3, <1>4 DEF Next
=============================================================================
