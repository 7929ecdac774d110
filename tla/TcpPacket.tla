------------------------------ MODULE TcpPacket ------------------------------
(***************************************************************************)
(* sandbox/tcp-packet: the conversation of one client and one server over a *)
(* TCP connection (posix/client/main.cc, posix/server/main.cc).             *)
(*                                                                          *)
(* Each main() is a script: a sequence of instructions that a process runs  *)
(* through once.  The bytes go through the two streams of PacketStream.     *)
(* Any process may be killed at any moment: by the runner (run.py), by a    *)
(* user, or by SIGPIPE when it writes to a connection that was reset.       *)
(***************************************************************************)
EXTENDS PacketStream

CONSTANTS
  HelloClient, HelloWorld, LargeMsg, Msg100, Msg50, Msg150, QUIT, \* the messages
  MayBeKilled  \* the processes that may be killed

Client == "client"
Server == "server"
Processes == {Client, Server}

\* The stream a process writes into and the one it reads from.
Out == [p \in Processes |-> IF p = Client THEN "C2S" ELSE "S2C"]
In  == [p \in Processes |-> IF p = Client THEN "S2C" ELSE "C2S"]
Peer == [p \in Processes |-> IF p = Client THEN Server ELSE Client]

Greetings == { create_msg(m) : m \in {HelloClient, HelloWorld, LargeMsg,
                                      Msg100, Msg50, Msg150, QUIT} }

ASSUME TcpAssumption ==
  /\ Streams = {"C2S", "S2C"}
  /\ Packets = {create_ping, create_pong} \cup Greetings
  /\ MaxSent >= 8
  /\ MayBeKilled \subseteq Processes

----------------------------------------------------------------------------
(***************************************************************************)
(* The instructions.  Packets are encoded one by one, and written together  *)
(* by one write().  A read collects packets until it has at least `want';    *)
(* each must be one of `accepts', and there may be more than `want' only if  *)
(* not `exact'.  Where the result of the first of its get_packets calls is   *)
(* not looked at, `checked' is FALSE.                                       *)
(***************************************************************************)
Op(name) == [op |-> name]
EncodeOp(p) == [op |-> "encode", pkt |-> p]
ReadOp(want, exact, accepts, checked) ==
  [op |-> "read", want |-> want, exact |-> exact, accepts |-> accepts,
   checked |-> checked]

ServerScript ==
  <<Op("listen"), Op("accept"),
    ReadOp(1, TRUE, {create_ping}, TRUE),
    EncodeOp(create_pong), Op("write"),
    ReadOp(1, TRUE, Greetings, FALSE),
    EncodeOp(create_pong), Op("write"),
    EncodeOp(create_ping), Op("write"),
    EncodeOp(create_msg(HelloWorld)), Op("write"),
    ReadOp(1, TRUE, Greetings, FALSE),
    EncodeOp(create_msg(Msg100)), EncodeOp(create_msg(Msg50)),
    EncodeOp(create_msg(Msg150)), Op("write"),
    ReadOp(1, TRUE, {create_msg(QUIT)}, FALSE),
    Op("exit")>>

\* Mutant: the greeting is written without waiting for the pong.
ClientScriptEager ==
  <<Op("connect"),
    EncodeOp(create_ping), Op("write"),
    EncodeOp(create_msg(HelloClient)), Op("write"),
    ReadOp(1, FALSE, {create_pong}, TRUE),
    ReadOp(3, FALSE, Packets, TRUE),
    EncodeOp(create_msg(LargeMsg)), Op("write"),
    ReadOp(3, FALSE, Packets, TRUE),
    EncodeOp(create_msg(QUIT)), Op("write"),
    Op("exit")>>

\* The client writes a line for a wrong packet in its second read and goes on, and
\* does not look at the third.
ClientScript ==
  <<Op("connect"),
    EncodeOp(create_ping), Op("write"),
    ReadOp(1, FALSE, {create_pong}, TRUE),
    EncodeOp(create_msg(HelloClient)), Op("write"),
    ReadOp(3, FALSE, Packets, TRUE),
    EncodeOp(create_msg(LargeMsg)), Op("write"),
    ReadOp(3, FALSE, Packets, TRUE),
    EncodeOp(create_msg(QUIT)), Op("write"),
    Op("exit")>>

Script == [p \in Processes |-> IF p = Client THEN ClientScript ELSE ServerScript]

\* The conversation: every packet a process sends, in order.
Sends ==
  [p \in Processes |->
     IF p = Client
     THEN <<create_ping, create_msg(HelloClient), create_msg(LargeMsg), create_msg(QUIT)>>
     ELSE <<create_pong, create_pong, create_ping, create_msg(HelloWorld),
            create_msg(Msg100), create_msg(Msg50), create_msg(Msg150)>>]

VARIABLES
  pc,          \* pc[p]: the instruction p is at
  allPackets,  \* the packets that the read in progress has collected
  first,       \* the read in progress is at its first call of get_packets
  exitCode,    \* "running", "zero", "failure" (a value other than 0) or "killed"
  connected,   \* the kernel has made the connection
  refused      \* refused[d]: bytes of stream d came after its reader was gone

procVars == <<pc, allPackets, first, exitCode>>
vars == <<streamVars, procVars, connected, refused>>

Init ==
  /\ StreamInit
  /\ pc = [p \in Processes |-> 1]
  /\ allPackets = [p \in Processes |-> <<>>]
  /\ first = [p \in Processes |-> TRUE]
  /\ exitCode = [p \in Processes |-> "running"]
  /\ connected = FALSE
  /\ refused = [d \in Streams |-> FALSE]

Running(p, op) == exitCode[p] = "running" /\ Script[p][pc[p]].op = op

Advance(p) == pc' = [pc EXCEPT ![p] = @ + 1]

\* Mutant: main() returns 0 after an error too.
FailQuietly(p) == exitCode' = [exitCode EXCEPT ![p] = "zero"]

Fail(p) == exitCode' = [exitCode EXCEPT ![p] = "failure"]

----------------------------------------------------------------------------
(***************************************************************************)
(* Setting up the connection.  It is made by the kernel as soon as the      *)
(* server listens, before accept() returns.                                 *)
(***************************************************************************)
Listen ==
  /\ Running(Server, "listen")
  /\ Advance(Server)
  /\ UNCHANGED <<streamVars, allPackets, first, exitCode, connected, refused>>

Listening == exitCode[Server] = "running" /\ pc[Server] > 1

Connect ==
  /\ Running(Client, "connect")
  /\ Listening
  /\ connected' = TRUE
  /\ Advance(Client)
  /\ UNCHANGED <<streamVars, allPackets, first, exitCode, refused>>

ConnectRefused ==
  /\ Running(Client, "connect")
  /\ ~ Listening
  /\ Fail(Client)
  /\ UNCHANGED <<streamVars, pc, allPackets, first, connected, refused>>

Accept ==
  /\ Running(Server, "accept")
  /\ connected
  /\ Advance(Server)
  /\ UNCHANGED <<streamVars, allPackets, first, exitCode, connected, refused>>

\* socket, bind, listen, accept or connect report an error.
SetupFails(p) ==
  /\ \E op \in {"listen", "accept", "connect"} : Running(p, op)
  /\ Fail(p)
  /\ UNCHANGED <<streamVars, pc, allPackets, first, connected, refused>>

----------------------------------------------------------------------------
EncodePacket(p) ==
  /\ Running(p, "encode")
  /\ \E pkt \in Packets : pkt = Script[p][pc[p]].pkt /\ Encode(Out[p], pkt)
  /\ Advance(p)
  /\ UNCHANGED <<allPackets, first, exitCode, connected, refused>>

\* Mutant: the bytes for which the kernel has no room are dropped.
WriteOrDrop(p) ==
  /\ Running(p, "write")
  /\ \/ \E k \in 1 .. Len(encoded[Out[p]]) :
          /\ Transfer(Out[p], k)
          /\ IF k = Len(encoded[Out[p]]) THEN Advance(p) ELSE UNCHANGED pc
     \/ /\ Len(wire[Out[p]]) = Capacity
        /\ encoded' = [encoded EXCEPT ![Out[p]] = <<>>]
        /\ Advance(p)
        /\ UNCHANGED <<kernelVars, readerVars, historyVars>>
  /\ refused' = [refused EXCEPT ![Out[p]] = @ \/ reader[Out[p]] = "gone"]
  /\ UNCHANGED <<allPackets, first, exitCode, connected>>

\* A write() returns when the kernel has all its bytes.  One that fails, on a
\* connection that was reset, loses them; neither program ends for that.
Write(p) ==
  /\ Running(p, "write")
  /\ \E k \in 1 .. Len(encoded[Out[p]]) :
       /\ Transfer(Out[p], k)
       /\ IF k = Len(encoded[Out[p]]) THEN Advance(p) ELSE UNCHANGED pc
  /\ refused' = [refused EXCEPT ![Out[p]] = @ \/ reader[Out[p]] = "gone"]
  /\ UNCHANGED <<allPackets, first, exitCode, connected>>

\* Mutant: any packet at all ends the read.
GotAny(p, st, packets) ==
  \/ /\ st # "ok_packets"
     /\ Fail(p)
     /\ UNCHANGED <<pc, allPackets, first>>
  \/ /\ st = "ok_packets" /\ packets # <<>>
     /\ Advance(p)
     /\ UNCHANGED <<exitCode, allPackets, first>>
  \/ /\ st = "ok_packets" /\ packets = <<>>
     /\ UNCHANGED procVars

\* Mutant: a call that does not complete the read is an error.
GotImpatient(p, st, packets) ==
  LET i == Script[p][pc[p]]
  IN  \/ /\ st # "ok_packets" \/ Len(packets) < i.want
         /\ Fail(p)
         /\ UNCHANGED <<pc, allPackets, first>>
      \/ /\ st = "ok_packets" /\ Len(packets) >= i.want
         /\ Advance(p)
         /\ UNCHANGED <<exitCode, allPackets, first>>

\* Mutant: allPackets only has the packets of the last call.
GotForgetful(p, st, packets) ==
  LET i == Script[p][pc[p]]
  IN  \/ /\ st # "ok_packets"
         /\ Fail(p)
         /\ UNCHANGED <<pc, allPackets, first>>
      \/ /\ st = "ok_packets" /\ Len(packets) >= i.want
         /\ Advance(p)
         /\ UNCHANGED <<exitCode, allPackets, first>>
      \/ /\ st = "ok_packets" /\ Len(packets) < i.want
         /\ UNCHANGED procVars

\* A call of get_packets returned st and packets.
Got(p, st, packets) ==
  LET i == Script[p][pc[p]]
      all == IF first[p] THEN packets ELSE allPackets[p] \o packets
      error == st # "ok_packets" /\ (i.checked \/ ~ first[p])
      enough == Len(all) >= i.want
      wrong == \/ i.exact /\ Len(all) > i.want
               \/ \E n \in 1 .. Len(all) : all[n] \notin i.accepts
  IN  \/ /\ error \/ (enough /\ wrong)
         /\ Fail(p)
         /\ UNCHANGED <<pc, allPackets, first>>
      \/ /\ ~ error /\ enough /\ ~ wrong
         /\ Advance(p)
         /\ allPackets' = [allPackets EXCEPT ![p] = <<>>]
         /\ first' = [first EXCEPT ![p] = TRUE]
         /\ UNCHANGED exitCode
      \/ /\ ~ error /\ ~ enough
         /\ allPackets' = [allPackets EXCEPT ![p] = all]
         /\ first' = [first EXCEPT ![p] = FALSE]
         /\ UNCHANGED <<pc, exitCode>>

GetPackets(p) ==
  LET d == In[p]
  IN  /\ Running(p, "read")
      /\ \/ /\ (\E k \in 1 .. InBufferLen[d] : ReadBytes(d, k)) \/ ParseComplete(d)
            /\ UNCHANGED procVars
         \/ ReturnPackets(d) /\ Got(p, "ok_packets", retval[d])
         \/ ReturnInvalid(d) /\ Got(p, "protocol_error", <<>>)
         \/ ReadClosed(d) /\ Got(p, "closed", <<>>)
         \/ ReadError(d) /\ Got(p, "socket_error", <<>>)
      /\ UNCHANGED <<connected, refused>>

----------------------------------------------------------------------------
(***************************************************************************)
(* The end of a process.  The kernel closes its connection: with a reset if *)
(* it holds bytes that the process has not read, or if it was never accepted. *)
(***************************************************************************)
SettingUp(p) == Script[p][pc[p]].op \in {"listen", "accept", "connect"}

CloseAll(p) ==
  EndProcess({Out[p]}, {In[p]},
             IF wire[In[p]] = <<>> /\ ~ SettingUp(p) THEN "closed" ELSE "reset")

Exit(p) ==
  /\ Running(p, "exit")
  /\ CloseAll(p)
  /\ exitCode' = [exitCode EXCEPT ![p] = "zero"]
  /\ UNCHANGED <<pc, allPackets, first, connected, refused>>

ExitFailure(p) ==
  /\ exitCode[p] = "failure"
  /\ CloseAll(p)
  /\ UNCHANGED <<procVars, connected, refused>>

\* p writes to a connection that was reset: SIGPIPE.
BrokenPipe(p) == Running(p, "write") /\ writeEnd[In[p]] = "reset"

Killed(p) ==
  /\ p \in MayBeKilled \/ BrokenPipe(p)
  /\ exitCode[p] \in {"running", "failure"}
  /\ CloseAll(p)
  /\ exitCode' = [exitCode EXCEPT ![p] = "killed"]
  /\ UNCHANGED <<pc, allPackets, first, connected, refused>>

\* The kernel of a process that is gone resets the connection when bytes come.
Refuse(p) ==
  /\ refused[Out[p]]
  /\ ResetBy(Out[p], In[p])
  /\ refused' = [refused EXCEPT ![Out[p]] = FALSE]
  /\ UNCHANGED <<procVars, connected>>

Step(p) ==
  \/ p = Server /\ (Listen \/ Accept)
  \/ p = Client /\ (Connect \/ ConnectRefused)
  \/ EncodePacket(p) \/ Write(p) \/ GetPackets(p)
  \/ Exit(p) \/ ExitFailure(p)

Next == \E p \in Processes : Step(p) \/ SetupFails(p) \/ Killed(p) \/ Refuse(p)

Spec == Init /\ [][Next]_vars

\* The scheduler runs every process that can run; nobody has to fail or to be killed.
Fairness == \A p \in Processes : WF_vars(Step(p))

FairSpec == Spec /\ Fairness

----------------------------------------------------------------------------
\* Every variable of the processes has its type; those of the streams are typed by
\* PacketStream.
TcpTypeOK ==
  /\ StreamTypeOK
  /\ pc \in [Processes -> Nat]
  /\ \A p \in Processes : pc[p] \in DOMAIN Script[p]
  /\ allPackets \in [Processes -> Seq(Packets)]
  /\ first \in [Processes -> BOOLEAN]
  /\ exitCode \in [Processes -> {"running", "zero", "failure", "killed"}]
  /\ connected \in BOOLEAN
  /\ refused \in [Streams -> BOOLEAN]

\* The bytes of a stream that are not yet part of a packet the reader returned.
Pending(d) ==
  \/ encoded[d] # <<>> \/ wire[d] # <<>> \/ incomingBuffer[d] # <<>>
  \/ retval[d] # <<>>

\* The conversation goes one way at a time: a process that writes has read all that
\* the other one wrote, so the two never wait for each other with full buffers,
\* however small the kernel's are.
HalfDuplex ==
  (\A p \in Processes : exitCode[p] = "running") =>
    ~ (Pending("C2S") /\ Pending("S2C"))

\* No process gives up on its own account: it fails, or dies of SIGPIPE, only when
\* its setup failed or the other process died first.  In particular the server's
\* "too many packets" never happens, however the packets are merged in reads, and no
\* read whose result is not looked at loses anything.
FailureHasCause ==
  \A p \in Processes :
    \/ exitCode[p] = "failure"
    \/ exitCode[p] = "killed" /\ p \notin MayBeKilled
    => \/ SettingUp(p)
       \/ exitCode[Peer[p]] = "killed"
       \/ exitCode[Peer[p]] = "failure" /\ SettingUp(Peer[p])

\* A process that gets to its end has read every packet the other one has to send,
\* and closes a connection with no unread byte: it cannot be reset, which would take
\* the QUIT on its way with it.
EndsAfterAll ==
  \A p \in Processes :
    Running(p, "exit") \/ exitCode[p] = "zero" =>
      /\ delivered[In[p]] = Sends[Peer[p]]
      /\ ~ Pending(In[p])

\* Once connected, both processes end, even if one of them is killed, and where.
EverybodyExits == connected ~> \A p \in Processes : exitCode[p] # "running"

\* A read of 0 bytes is a disconnect, and the server exits cleanly
\* (last-steps.md:51).
DisconnectIsCleanExit ==
  status["C2S"] = "closed" => exitCode[Server] # "failure"
=============================================================================
